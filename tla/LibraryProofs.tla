---------------------------- MODULE LibraryProofs ----------------------------
(***************************************************************************)
(* Data structures of the runtime, and the driver.  The merge cache is a   *)
(* list of the merges last used, for all keys, values and sizes; interval  *)
(* sets are sets of integers, for elements of any range; and the program   *)
(* writes where its options say, for all command lines and disks.          *)
(*                                                                         *)
(* The inductive invariant of the cache: its entries are one list, linked  *)
(* both ways, and no longer than the options allow.  So compact, whose     *)
(* loop is a recursive function, has one entry to drop at most.  That of   *)
(* the interval sets is their normal form; what the loops of And, subtract *)
(* and size find is what each of their turns keeps (MeetInv, CutInv).      *)
(***************************************************************************)
EXTENDS Integers, SequencesExt, SequenceTheorems, WellFoundedInduction, TLAPS

CONSTANTS Keys, Values, MaxSizes, Elements,
          Arguments, MaxArgs, Sources, Writable

VARIABLES maxSize, cache, got, set, other,
          argv, arg_file, arg_out_path, step, loaded, disk, was

Merges    == INSTANCE PredictionContextMergeCache
Intervals == INSTANCE IntervalSet
Program   == INSTANCE Driver

\* A set of numbers has a least one.
LEMMA LeastNumber ==
    ASSUME NEW S, S \subseteq Nat, S # {}
    PROVE  \E x \in S : \A y \in S : x <= y
<1>1. \E x \in S : \A y \in S : ~(<<y, x>> \in OpToRel(<, Nat))
  BY Zenon, WFMin, NatLessThanWellFounded
<1>2. \A x, y \in Nat : y < x => <<y, x>> \in OpToRel(<, Nat)
  BY Zenon DEF OpToRel
<1>3. PICK x \in S : \A y \in S : ~(y < x)
  BY <1>1, <1>2, Zenon
<1> QED BY <1>3

-----------------------------------------------------------------------------
(* Lists and links.                                                        *)

Links == Keys \cup {Merges!NoEntry}

\* What a cache with entries for the keys D is made of.
Caches(D) == [value : [D -> Values], prev : [D -> Links], next : [D -> Links], head : Links, tail : Links, size : Int]

\* The i-th key of a list, no entry behind its ends.
At(l, i) == IF i \in 1..Len(l) THEN l[i] ELSE Merges!NoEntry

\* Two caches that differ in no value, nor in their ends and size.
SameBut(c, d) == c.value = d.value /\ c.head = d.head /\ c.tail = d.tail /\ c.size = d.size

\* A link is set in the one entry, in none when there is none.
LEMMA PrevIsSet ==
    ASSUME Merges!NoEntry \notin Keys, NEW D \in SUBSET Keys, NEW c \in Caches(D), NEW k \in Links, NEW to \in Links,
           NEW s, s = Merges!SetPrev(c, k, to)
    PROVE  /\ s \in Caches(D) /\ SameBut(s, c) /\ s.next = c.next
           /\ \A j \in D : s.prev[j] = IF j = k THEN to ELSE c.prev[j]
<1>1. CASE k = Merges!NoEntry
  BY <1>1 DEF Merges!SetPrev, SameBut, Links
<1>2. CASE k # Merges!NoEntry
  BY <1>2 DEF Merges!SetPrev, SameBut, Links, Caches
<1> QED BY <1>1, <1>2

\* The same of the links the other way.
LEMMA NextIsSet ==
    ASSUME Merges!NoEntry \notin Keys, NEW D \in SUBSET Keys, NEW c \in Caches(D), NEW k \in Links, NEW to \in Links,
           NEW s, s = Merges!SetNext(c, k, to)
    PROVE  /\ s \in Caches(D) /\ SameBut(s, c) /\ s.prev = c.prev
           /\ \A j \in D : s.next[j] = IF j = k THEN to ELSE c.next[j]
<1>1. CASE k = Merges!NoEntry
  BY <1>1 DEF Merges!SetNext, SameBut, Links
<1>2. CASE k # Merges!NoEntry
  BY <1>2 DEF Merges!SetNext, SameBut, Links, Caches
<1> QED BY <1>1, <1>2

\* An entry's neighbours have each other.
LEMMA UnlinkedIs ==
    ASSUME Merges!NoEntry \notin Keys, NEW D \in SUBSET Keys, NEW c \in Caches(D), NEW k \in D
    PROVE  LET u == Merges!Unlinked(c, k) IN
           /\ u \in Caches(D) /\ SameBut(u, c)
           /\ \A j \in D : u.prev[j] = IF j = c.next[k] THEN c.prev[k] ELSE c.prev[j]
           /\ \A j \in D : u.next[j] = IF j = c.prev[k] THEN c.next[k] ELSE c.next[j]
<1> DEFINE s == Merges!SetNext(c, c.prev[k], c.next[k])
           u == Merges!SetPrev(s, c.next[k], c.prev[k])
<1>1. c.prev[k] \in Links /\ c.next[k] \in Links
  BY DEF Caches
<1>2. /\ s \in Caches(D) /\ SameBut(s, c) /\ s.prev = c.prev
      /\ \A j \in D : s.next[j] = IF j = c.prev[k] THEN c.next[k] ELSE c.next[j]
  BY <1>1, NextIsSet
<1> HIDE DEF s
<1>3. /\ u \in Caches(D) /\ SameBut(u, s) /\ u.next = s.next
      /\ \A j \in D : u.prev[j] = IF j = c.next[k] THEN c.prev[k] ELSE s.prev[j]
  <2>1. s \in Caches(D)
    BY <1>2, Zenon
  <2> QED BY <1>1, <2>1, PrevIsSet
<1>4. u = Merges!Unlinked(c, k)
  BY Zenon DEF Merges!Unlinked, s
<1> HIDE DEF u
<1> QED BY <1>2, <1>3, <1>4 DEF SameBut

\* An entry is put in front of the head.
LEMMA AtFrontIs ==
    ASSUME Merges!NoEntry \notin Keys, NEW D \in SUBSET Keys, NEW c \in Caches(D), NEW k \in D, c.head # k
    PROVE  LET a == Merges!AtFront(c, k) IN
           /\ a \in Caches(D) /\ a.value = c.value /\ a.size = c.size /\ a.tail = c.tail /\ a.head = k
           /\ \A j \in D : a.prev[j] = IF j = c.head THEN k ELSE IF j = k THEN Merges!NoEntry ELSE c.prev[j]
           /\ \A j \in D : a.next[j] = IF j = k THEN c.head ELSE c.next[j]
<1>1. c.head \in Links /\ k \in Links
  BY DEF Caches, Links
<1>2. PICK r : r = Merges!SetPrev(c, k, Merges!NoEntry)
  OBVIOUS
<1>3. PICK s : s = Merges!SetNext(r, k, c.head)
  OBVIOUS
<1>4. PICK t : t = Merges!SetPrev(s, c.head, k)
  OBVIOUS
<1>5. /\ r \in Caches(D) /\ SameBut(r, c) /\ r.next = c.next
      /\ \A j \in D : r.prev[j] = IF j = k THEN Merges!NoEntry ELSE c.prev[j]
  <2>1. Merges!NoEntry \in Links
    BY DEF Links
  <2> QED BY <1>1, <1>2, <2>1, PrevIsSet
<1>6. /\ s \in Caches(D) /\ SameBut(s, r) /\ s.prev = r.prev
      /\ \A j \in D : s.next[j] = IF j = k THEN c.head ELSE r.next[j]
  <2>1. r \in Caches(D)
    BY <1>5, Zenon
  <2> QED BY <1>1, <1>3, <2>1, NextIsSet
<1>7. /\ t \in Caches(D) /\ SameBut(t, s) /\ t.next = s.next
      /\ \A j \in D : t.prev[j] = IF j = c.head THEN k ELSE s.prev[j]
  <2>1. s \in Caches(D)
    BY <1>6, Zenon
  <2> QED BY <1>1, <1>4, <2>1, PrevIsSet
<1> DEFINE a == [t EXCEPT !.head = k]
<1>8. /\ a \in Caches(D) /\ a.value = t.value /\ a.size = t.size /\ a.tail = t.tail /\ a.head = k
      /\ a.prev = t.prev /\ a.next = t.next
  BY <1>1, <1>7 DEF Caches
<1>9. a = Merges!AtFront(c, k)
  BY <1>2, <1>3, <1>4 DEF Merges!AtFront
<1> HIDE DEF a
<1> QED BY <1>5, <1>6, <1>7, <1>8, <1>9 DEF SameBut

\* What it is to be the list of a cache with entries for the keys D, index by index.
Lists(l, c, D) ==
    /\ D = {l[i] : i \in 1..Len(l)}
    /\ \A i, j \in 1..Len(l) : l[i] = l[j] => i = j
    /\ c.size = Len(l) /\ c.head = At(l, 1) /\ c.tail = At(l, Len(l))
    /\ \A i \in 1..Len(l) : c.prev[l[i]] = At(l, i - 1) /\ c.next[l[i]] = At(l, i + 1)

\* It is what IsListOf says.
LEMMA ListOf ==
    ASSUME NEW D, NEW c, DOMAIN c.value = D, NEW l \in Seq(Keys)
    PROVE  Merges!IsListOf(l, c) <=> Lists(l, c, D)
<1>1. DOMAIN l = 1..Len(l)
  OBVIOUS
<1>2. Merges!Range(l) = {l[i] : i \in 1..Len(l)}
  BY <1>1, Zenon DEF Merges!Range
<1> QED BY <1>1, <1>2, Zenon DEF Merges!IsListOf, Merges!Entries, Merges!IsInjective, At, Lists

\* Used is a list of the same keys.
LEMMA UsedIs ==
    ASSUME NEW l \in Seq(Keys), NEW i \in 1..Len(l)
    PROVE  /\ Merges!Used(l, i) \in Seq(Keys) /\ Len(Merges!Used(l, i)) = Len(l)
           /\ \A j \in 1..Len(l) : Merges!Used(l, i)[j] = IF j = 1 THEN l[i] ELSE IF j <= i THEN l[j - 1] ELSE l[j]
           /\ {Merges!Used(l, i)[j] : j \in 1..Len(l)} = {l[j] : j \in 1..Len(l)}
           /\ (\A a, b \in 1..Len(l) : l[a] = l[b] => a = b)
              => \A a, b \in 1..Len(l) : Merges!Used(l, i)[a] = Merges!Used(l, i)[b] => a = b
<1> DEFINE u == Merges!Used(l, i)
<1>1. u = [j \in 1..Len(l) |-> IF j = 1 THEN l[i] ELSE IF j <= i THEN l[j - 1] ELSE l[j]]
  BY DEF Merges!Used
<1>2. \A j \in 1..Len(l) : u[j] = IF j = 1 THEN l[i] ELSE IF j <= i THEN l[j - 1] ELSE l[j]
  BY <1>1
<1>3. u \in [1..Len(l) -> Keys]
  <2>1. \A j \in 1..Len(l) : (IF j = 1 THEN l[i] ELSE IF j <= i THEN l[j - 1] ELSE l[j]) \in Keys
    OBVIOUS
  <2> QED BY <1>1, <2>1
<1>4. u \in Seq(Keys) /\ Len(u) = Len(l)
  <2>1. Len(l) \in Nat
    OBVIOUS
  <2> HIDE DEF u
  <2> QED BY <1>3, <2>1
<1> HIDE DEF u
<1>5. \A j \in 1..Len(l) : \E x \in 1..Len(l) : l[j] = u[x]
  <2> SUFFICES ASSUME NEW j \in 1..Len(l) PROVE \E x \in 1..Len(l) : l[j] = u[x]
    OBVIOUS
  <2>1. CASE j = i
    <3>1. 1 \in 1..Len(l) /\ u[1] = l[j]
      BY <1>2, <2>1
    <3> QED BY <3>1
  <2>2. CASE j < i
    <3>1. j + 1 \in 1..Len(l) /\ u[j + 1] = l[j]
      BY <1>2, <2>2
    <3> QED BY <3>1
  <2>3. CASE j > i
    <3>1. j # 1 /\ ~(j <= i)
      BY <2>3
    <3>2. u[j] = l[j]
      BY <1>2, <3>1
    <3> QED BY <3>2
  <2> QED BY <2>1, <2>2, <2>3
<1>6. \A j \in 1..Len(l) : \E x \in 1..Len(l) : u[j] = l[x]
  <2> SUFFICES ASSUME NEW j \in 1..Len(l) PROVE \E x \in 1..Len(l) : u[j] = l[x]
    OBVIOUS
  <2>1. CASE j = 1
    BY <1>2, <2>1
  <2>2. CASE j # 1 /\ j <= i
    <3>1. j - 1 \in 1..Len(l) /\ u[j] = l[j - 1]
      BY <1>2, <2>2
    <3> QED BY <3>1
  <2>3. CASE ~(j <= i)
    <3>1. j # 1 /\ u[j] = l[j]
      BY <1>2, <2>3
    <3> QED BY <3>1
  <2> QED BY <2>1, <2>2, <2>3
<1>7. {u[j] : j \in 1..Len(l)} = {l[j] : j \in 1..Len(l)}
  <2>1. ASSUME NEW x \in {u[j] : j \in 1..Len(l)} PROVE x \in {l[j] : j \in 1..Len(l)}
    BY <1>6
  <2>2. ASSUME NEW x \in {l[j] : j \in 1..Len(l)} PROVE x \in {u[j] : j \in 1..Len(l)}
    BY <1>5
  <2> QED BY <2>1, <2>2, Zenon
<1>8. ASSUME \A a, b \in 1..Len(l) : l[a] = l[b] => a = b, NEW a \in 1..Len(l), NEW b \in 1..Len(l), u[a] = u[b]
      PROVE  a = b
  <2> DEFINE of(j) == IF j = 1 THEN i ELSE IF j <= i THEN j - 1 ELSE j
  <2>1. of(a) \in 1..Len(l) /\ u[a] = l[of(a)] /\ of(b) \in 1..Len(l) /\ u[b] = l[of(b)]
    BY <1>2
  <2>2. of(a) = of(b)
    <3> HIDE DEF of
    <3> QED BY <1>8, <2>1
  <2> QED BY <2>2
<1> QED BY <1>2, <1>4, <1>7, <1>8 DEF u

\* A list does not repeat, and none of its keys is no entry.
LEMMA KeysOf ==
    ASSUME Merges!NoEntry \notin Keys, NEW l \in Seq(Keys)
    PROVE  /\ \A i \in 1..Len(l) : l[i] \in Keys /\ l[i] # Merges!NoEntry
           /\ \A i \in Int : At(l, i) = Merges!NoEntry <=> i \notin 1..Len(l)
           /\ \A i \in 1..Len(l) : At(l, i) = l[i]
BY DEF At

\* moveToFront makes the list the one with the entry used.
LEMMA MovedIsUsed ==
    ASSUME Merges!NoEntry \notin Keys, NEW D \in SUBSET Keys, NEW c \in Caches(D),
           NEW l \in Seq(Keys), Merges!IsListOf(l, c),
           NEW i \in 1..Len(l), NEW m, m = Merges!moveToFront(c, l[i])
    PROVE  m \in Caches(D) /\ m.value = c.value /\ Merges!IsListOf(Merges!Used(l, i), m)
<1> DEFINE n == Len(l)
<1>1. DOMAIN c.value = D /\ n \in Nat /\ i \in Int
  BY DEF Caches
<1>2. /\ D = {l[j] : j \in 1..n} /\ \A a, b \in 1..n : l[a] = l[b] => a = b
      /\ c.size = n /\ c.head = At(l, 1) /\ c.tail = At(l, n)
      /\ \A j \in 1..n : c.prev[l[j]] = At(l, j - 1) /\ c.next[l[j]] = At(l, j + 1)
  <2>1. Lists(l, c, D)
    BY <1>1, ListOf
  <2> QED BY <2>1, Zenon DEF Lists
<1>3. l[i] \in D /\ c.prev[l[i]] = At(l, i - 1) /\ c.next[l[i]] = At(l, i + 1)
  BY <1>2
<1>4. CASE i = 1
  <2>1. c.prev[l[i]] = Merges!NoEntry
    BY <1>3, <1>4 DEF At
  <2>2. m = c
    BY <2>1 DEF Merges!moveToFront
  <2>3. Merges!Used(l, i) = l
    <3>1. \A j \in 1..n : Merges!Used(l, i)[j] = l[j]
      <4>1. \A j \in 1..n : Merges!Used(l, i)[j] = IF j = 1 THEN l[i] ELSE IF j <= i THEN l[j - 1] ELSE l[j]
        BY UsedIs, Zenon
      <4> QED BY <1>4, <4>1
    <3>2. Merges!Used(l, i) \in Seq(Keys) /\ Len(Merges!Used(l, i)) = n
      BY UsedIs
    <3> QED BY <3>1, <3>2
  <2> QED BY <2>2, <2>3
<1>5. CASE i # 1
  <2>1. i - 1 \in 1..n /\ At(l, i - 1) = l[i - 1] /\ l[i - 1] # Merges!NoEntry /\ 1 \in 1..n /\ At(l, 1) = l[1]
    <3>1. i - 1 \in 1..n /\ 1 \in 1..n
      BY <1>1, <1>5
    <3> QED BY <3>1, KeysOf
  <2>2. PICK u : u = Merges!Unlinked(c, l[i])
    OBVIOUS
  <2>3. /\ u \in Caches(D) /\ SameBut(u, c)
        /\ \A j \in D : u.prev[j] = IF j = At(l, i + 1) THEN l[i - 1] ELSE c.prev[j]
        /\ \A j \in D : u.next[j] = IF j = l[i - 1] THEN At(l, i + 1) ELSE c.next[j]
    BY <1>3, <2>1, <2>2, UnlinkedIs
  <2> DEFINE t == IF At(l, i + 1) = Merges!NoEntry THEN l[i - 1] ELSE c.tail
             w == [u EXCEPT !.tail = t]
  <2>4. /\ w \in Caches(D) /\ w.value = c.value /\ w.size = c.size /\ w.tail = t /\ w.head = c.head
        /\ w.prev = u.prev /\ w.next = u.next
    <3>1. t \in Links
      <4>1. l[i - 1] \in Links
        BY <2>1 DEF Links
      <4>2. c.tail \in Links
        BY DEF Caches
      <4> QED BY <4>1, <4>2
    <3> HIDE DEF t
    <3>2. u \in Caches(D)
      BY <2>3, Zenon
    <3>3. /\ w \in Caches(D) /\ w.value = u.value /\ w.size = u.size /\ w.tail = t /\ w.head = u.head
          /\ w.prev = u.prev /\ w.next = u.next
      BY <3>1, <3>2 DEF Caches
    <3> HIDE DEF w
    <3> QED BY <2>3, <3>3 DEF SameBut
  <2>5. m = Merges!AtFront(w, l[i])
    <3>1. u.tail = c.tail
      BY <2>3 DEF SameBut
    <3> QED BY <1>3, <2>1, <2>2, <3>1 DEF Merges!moveToFront
  <2> HIDE DEF w
  <2>6. w.head = l[1] /\ l[1] # l[i]
    BY <1>2, <1>5, <2>1, <2>4
  <2>7. /\ m \in Caches(D) /\ m.value = c.value /\ m.size = n /\ m.tail = t /\ m.head = l[i]
        /\ \A j \in D : m.prev[j] = IF j = l[1] THEN l[i] ELSE IF j = l[i] THEN Merges!NoEntry ELSE u.prev[j]
        /\ \A j \in D : m.next[j] = IF j = l[i] THEN l[1] ELSE u.next[j]
    <3>1. w \in Caches(D)
      BY <2>4, Zenon
    <3>2. /\ m \in Caches(D) /\ m.value = w.value /\ m.size = w.size /\ m.tail = w.tail /\ m.head = l[i]
          /\ \A j \in D : m.prev[j] = IF j = l[1] THEN l[i] ELSE IF j = l[i] THEN Merges!NoEntry ELSE w.prev[j]
          /\ \A j \in D : m.next[j] = IF j = l[i] THEN l[1] ELSE w.next[j]
      BY <1>3, <2>5, <2>6, <3>1, AtFrontIs
    <3> QED BY <1>2, <2>4, <3>2
  <2>8. \A x \in 1..n : m.prev[l[x]] = IF x = 1 THEN l[i] ELSE IF x = i THEN Merges!NoEntry
                                       ELSE IF x = i + 1 THEN l[i - 1] ELSE l[x - 1]
    <3> SUFFICES ASSUME NEW x \in 1..n
                 PROVE  m.prev[l[x]] = IF x = 1 THEN l[i] ELSE IF x = i THEN Merges!NoEntry
                                       ELSE IF x = i + 1 THEN l[i - 1] ELSE l[x - 1]
      OBVIOUS
    <3>1. l[x] \in D /\ c.prev[l[x]] = At(l, x - 1) /\ l[x] # Merges!NoEntry
      BY <1>2, KeysOf
    <3>2. l[x] = l[1] <=> x = 1
      BY <1>2, <2>1
    <3>3. l[x] = l[i] <=> x = i
      BY <1>2
    <3>4. l[x] = At(l, i + 1) <=> x = i + 1
      BY <1>1, <1>2, <3>1 DEF At
    <3>5. x # 1 => At(l, x - 1) = l[x - 1]
      BY <1>1 DEF At
    <3> QED BY <2>3, <2>7, <3>1, <3>2, <3>3, <3>4, <3>5
  <2>9. \A x \in 1..n : m.next[l[x]] = IF x = i THEN l[1] ELSE IF x = i - 1 THEN At(l, i + 1) ELSE At(l, x + 1)
    <3> SUFFICES ASSUME NEW x \in 1..n
                 PROVE  m.next[l[x]] = IF x = i THEN l[1] ELSE IF x = i - 1 THEN At(l, i + 1) ELSE At(l, x + 1)
      OBVIOUS
    <3>1. l[x] \in D /\ c.next[l[x]] = At(l, x + 1)
      BY <1>2
    <3>2. l[x] = l[i] <=> x = i
      BY <1>2
    <3>3. l[x] = l[i - 1] <=> x = i - 1
      BY <1>2, <2>1
    <3> QED BY <2>3, <2>7, <3>1, <3>2, <3>3
  <2> DEFINE o == Merges!Used(l, i)
  <2>10. /\ o \in Seq(Keys) /\ Len(o) = n
         /\ \A j \in 1..n : o[j] = IF j = 1 THEN l[i] ELSE IF j <= i THEN l[j - 1] ELSE l[j]
         /\ {o[j] : j \in 1..n} = D /\ \A a, b \in 1..n : o[a] = o[b] => a = b
    BY <1>2, UsedIs, ZenonT(60)
  <2> HIDE DEF o
  <2>11. \A j \in Int : At(o, j) = IF j \notin 1..n THEN Merges!NoEntry
                                   ELSE IF j = 1 THEN l[i] ELSE IF j <= i THEN l[j - 1] ELSE l[j]
    BY <2>10 DEF At
  <2>12. \A j \in 1..n : m.prev[o[j]] = At(o, j - 1)
    <3> SUFFICES ASSUME NEW j \in 1..n PROVE m.prev[o[j]] = At(o, j - 1)
      OBVIOUS
    <3>1. CASE j = 1
      <4>1. o[j] = l[i] /\ m.prev[l[i]] = Merges!NoEntry
        BY <1>5, <2>8, <2>10, <3>1
      <4> QED BY <2>11, <3>1, <4>1
    <3>2. CASE j = 2
      <4>1. o[j] = l[1] /\ m.prev[l[1]] = l[i]
        BY <1>1, <1>5, <2>1, <2>8, <2>10, <3>2
      <4> QED BY <2>1, <2>11, <3>2, <4>1
    <3>3. CASE j > 2 /\ j <= i
      <4>1. j - 1 \in 1..n /\ j - 1 # 1 /\ j - 1 # i /\ j - 1 # i + 1 /\ j - 1 <= i /\ j # 1
        BY <1>1, <3>3
      <4>2. o[j] = l[j - 1] /\ m.prev[l[j - 1]] = l[j - 1 - 1]
        BY <2>8, <2>10, <3>3, <4>1
      <4> QED BY <2>11, <4>1, <4>2
    <3>4. CASE j = i + 1
      <4>1. o[j] = l[j] /\ m.prev[l[j]] = l[i - 1]
        BY <1>1, <2>8, <2>10, <3>4
      <4>2. j - 1 = i /\ i <= i
        BY <1>1, <3>4
      <4> QED BY <1>5, <2>11, <4>1, <4>2
    <3>5. CASE j > i + 1
      <4>1. j - 1 \in 1..n /\ j - 1 # 1 /\ ~(j - 1 <= i) /\ ~(j <= i) /\ j # 1 /\ j # i /\ j # i + 1
        BY <1>1, <1>5, <3>5
      <4>2. o[j] = l[j] /\ m.prev[l[j]] = l[j - 1]
        BY <2>8, <2>10, <4>1
      <4> QED BY <2>11, <4>1, <4>2
    <3>6. j = 1 \/ j = 2 \/ (j > 2 /\ j <= i) \/ j = i + 1 \/ j > i + 1
      BY <1>1, <1>5
    <3> QED BY <3>1, <3>2, <3>3, <3>4, <3>5, <3>6
  <2>13. \A j \in 1..n : m.next[o[j]] = At(o, j + 1)
    <3> SUFFICES ASSUME NEW j \in 1..n PROVE m.next[o[j]] = At(o, j + 1)
      OBVIOUS
    <3>1. CASE j = 1
      <4>1. o[j] = l[i] /\ m.next[l[i]] = l[1]
        BY <2>9, <2>10, <3>1
      <4>2. 2 \in 1..n /\ 2 <= i /\ 2 - 1 = 1
        BY <1>1, <1>5
      <4> QED BY <2>11, <3>1, <4>1, <4>2
    <3>2. CASE j > 1 /\ j < i
      <4>1. j - 1 \in 1..n /\ j - 1 # i /\ j - 1 # i - 1 /\ j # 1 /\ j <= i /\ j - 1 + 1 = j
        BY <1>1, <3>2
      <4>2. o[j] = l[j - 1] /\ m.next[l[j - 1]] = At(l, j)
        BY <2>9, <2>10, <4>1
      <4>3. j + 1 \in 1..n /\ j + 1 # 1 /\ j + 1 <= i /\ j + 1 - 1 = j
        BY <1>1, <3>2
      <4> QED BY <2>11, <4>2, <4>3, KeysOf
    <3>3. CASE j = i
      <4>1. o[j] = l[i - 1] /\ m.next[l[i - 1]] = At(l, i + 1)
        <5>1. i - 1 # i
          BY <1>1
        <5> QED BY <1>5, <2>1, <2>9, <2>10, <3>3, <5>1
      <4>2. At(o, i + 1) = At(l, i + 1)
        <5>1. i + 1 # 1 /\ ~(i + 1 <= i) /\ i + 1 \in Int
          BY <1>1
        <5> QED BY <2>11, <5>1 DEF At
      <4> QED BY <3>3, <4>1, <4>2
    <3>4. CASE j > i
      <4>1. j # 1 /\ ~(j <= i) /\ j # i /\ j # i - 1 /\ j + 1 # 1 /\ ~(j + 1 <= i) /\ j + 1 \in Int
        BY <1>1, <3>4
      <4>2. o[j] = l[j] /\ m.next[l[j]] = At(l, j + 1)
        BY <2>9, <2>10, <4>1
      <4>3. At(o, j + 1) = At(l, j + 1)
        BY <2>11, <4>1 DEF At
      <4> QED BY <4>2, <4>3
    <3>5. j = 1 \/ (j > 1 /\ j < i) \/ j = i \/ j > i
      BY <1>1
    <3> QED BY <3>1, <3>2, <3>3, <3>4, <3>5
  <2>14. m.head = At(o, 1) /\ m.tail = At(o, n)
    <3>1. m.head = At(o, 1)
      BY <2>1, <2>7, <2>11
    <3>2. n \in 1..n
      BY <1>1, <2>1
    <3>3. CASE i = n
      <4>1. At(l, i + 1) = Merges!NoEntry
        BY <1>1, <3>3 DEF At
      <4>2. At(o, n) = l[i - 1]
        BY <1>5, <2>11, <3>2, <3>3
      <4> QED BY <2>7, <3>1, <4>1, <4>2
    <3>4. CASE i # n
      <4>1. i + 1 \in 1..n /\ ~(n <= i) /\ n # 1
        <5>1. i \in Int /\ 1 <= i /\ i <= n /\ i # n /\ n \in Int
          BY <1>1, <3>4
        <5> HIDE DEF n
        <5> QED BY <5>1
      <4>2. At(l, i + 1) # Merges!NoEntry
        BY <1>1, <4>1, KeysOf
      <4>3. At(o, n) = l[n] /\ At(l, n) = l[n]
        BY <2>11, <3>2, <4>1, KeysOf
      <4> QED BY <1>2, <2>7, <3>1, <4>2, <4>3
    <3> QED BY <3>3, <3>4
  <2>15. DOMAIN m.value = D
    BY <1>1, <2>7
  <2>16. Merges!IsListOf(o, m)
    <3>1. Lists(o, m, D)
      BY <2>7, <2>10, <2>12, <2>13, <2>14, Zenon DEF Lists
    <3> QED BY <2>10, <2>15, <3>1, ListOf
  <2> QED BY <2>7, <2>16 DEF o
<1> QED BY <1>4, <1>5

\* o is l behind the key k.
IsBehind(l, k, o) == Len(o) = Len(l) + 1 /\ \A j \in 1..Len(o) : o[j] = IF j = 1 THEN k ELSE l[j - 1]

\* m is c with an entry for k in front of its list.
IsPushed(m, c, D, k, v, o) ==
    /\ m \in Caches(D \cup {k}) /\ Merges!IsListOf(o, m)
    /\ \A j \in D \cup {k} : m.value[j] = IF j = k THEN v ELSE c.value[j]

\* pushToFront makes the list the one with the new key in front.
LEMMA PushedIsFirst ==
    ASSUME Merges!NoEntry \notin Keys, NEW D \in SUBSET Keys, NEW c \in Caches(D),
           NEW l \in Seq(Keys), Merges!IsListOf(l, c),
           NEW k \in Keys \ D, NEW v \in Values, NEW m, m = Merges!pushToFront(c, k, v),
           NEW o \in Seq(Keys), IsBehind(l, k, o)
    PROVE  IsPushed(m, c, D, k, v, o)
<1> DEFINE n == Len(l)
           E == D \cup {k}
           value == [j \in E |-> IF j = k THEN v ELSE c.value[j]]
           prev  == [j \in E |-> IF j = k THEN Merges!NoEntry ELSE c.prev[j]]
           next  == [j \in E |-> IF j = k THEN Merges!NoEntry ELSE c.next[j]]
           tail  == IF c.head = Merges!NoEntry THEN k ELSE c.tail
           b == [value |-> value, prev |-> prev, next |-> next, head |-> c.head, tail |-> tail, size |-> c.size + 1]
<1>1. DOMAIN c.value = D /\ n \in Nat /\ E \in SUBSET Keys /\ k \in E /\ k # Merges!NoEntry
  BY DEF Caches
<1>2. /\ D = {l[j] : j \in 1..n} /\ \A x, y \in 1..n : l[x] = l[y] => x = y
      /\ c.size = n /\ c.head = At(l, 1) /\ c.tail = At(l, n)
      /\ \A j \in 1..n : c.prev[l[j]] = At(l, j - 1) /\ c.next[l[j]] = At(l, j + 1)
  <2>1. Lists(l, c, D)
    BY <1>1, ListOf
  <2> QED BY <2>1, Zenon DEF Lists
<1>3. /\ b \in Caches(E) /\ b.value = value /\ b.prev = prev /\ b.next = next
      /\ b.tail = tail /\ b.size = n + 1 /\ b.head = c.head
  <2>1. value \in [E -> Values]
    BY DEF Caches
  <2>2. Merges!NoEntry \in Links /\ k \in Links /\ c.tail \in Links /\ c.head \in Links
    BY DEF Links, Caches
  <2>3. c.prev \in [D -> Links] /\ c.next \in [D -> Links]
    BY DEF Caches
  <2>4. prev \in [E -> Links] /\ next \in [E -> Links]
    BY <2>2, <2>3
  <2>5. tail \in Links
    BY <2>2
  <2> HIDE DEF value, prev, next, tail, E
  <2>6. c.size + 1 \in Int /\ c.size = n
    BY <1>1, <1>2
  <2> QED BY <2>1, <2>2, <2>4, <2>5, <2>6 DEF Caches
<1>4. m = Merges!AtFront(b, k)
  <2>1. Merges!Entries(c) = D
    BY <1>1 DEF Merges!Entries
  <2> QED BY <2>1, Zenon DEF Merges!pushToFront
<1> HIDE DEF b
<1>5. b.head = At(l, 1) /\ b.head # k
  <2>1. At(l, 1) # k
    BY <1>1, <1>2 DEF At
  <2> QED BY <1>2, <1>3, <2>1
<1>6. /\ m \in Caches(E) /\ m.value = value /\ m.size = n + 1 /\ m.tail = tail /\ m.head = k
      /\ \A j \in E : m.prev[j] = IF j = At(l, 1) THEN k ELSE IF j = k THEN Merges!NoEntry ELSE prev[j]
      /\ \A j \in E : m.next[j] = IF j = k THEN At(l, 1) ELSE next[j]
  <2>1. b \in Caches(E)
    BY <1>3, Zenon
  <2> HIDE DEF E, value, prev, next, tail
  <2>2. /\ m \in Caches(E) /\ m.value = b.value /\ m.size = b.size /\ m.tail = b.tail /\ m.head = k
        /\ \A j \in E : m.prev[j] = IF j = b.head THEN k ELSE IF j = k THEN Merges!NoEntry ELSE b.prev[j]
        /\ \A j \in E : m.next[j] = IF j = k THEN b.head ELSE b.next[j]
    BY <1>1, <1>4, <1>5, <2>1, AtFrontIs
  <2> QED BY <1>3, <1>5, <2>2
<1>7. o \in Seq(Keys) /\ Len(o) = n + 1 /\ \A j \in 1..(n + 1) : o[j] = IF j = 1 THEN k ELSE l[j - 1]
  BY Zenon DEF IsBehind
<1>8. \A j \in Int : At(o, j) = IF j \notin 1..(n + 1) THEN Merges!NoEntry ELSE IF j = 1 THEN k ELSE l[j - 1]
  BY <1>7 DEF At
<1>9. \A x \in 1..n : /\ l[x] \in E /\ l[x] # k /\ l[x] # Merges!NoEntry
                      /\ m.prev[l[x]] = IF x = 1 THEN k ELSE At(l, x - 1)
                      /\ m.next[l[x]] = At(l, x + 1)
  <2> SUFFICES ASSUME NEW x \in 1..n
               PROVE  /\ l[x] \in E /\ l[x] # k /\ l[x] # Merges!NoEntry
                      /\ m.prev[l[x]] = IF x = 1 THEN k ELSE At(l, x - 1)
                      /\ m.next[l[x]] = At(l, x + 1)
    OBVIOUS
  <2>1. l[x] \in D /\ l[x] # k /\ l[x] # Merges!NoEntry /\ c.prev[l[x]] = At(l, x - 1) /\ c.next[l[x]] = At(l, x + 1)
    BY <1>2, KeysOf
  <2>2. l[x] \in E /\ prev[l[x]] = At(l, x - 1) /\ next[l[x]] = At(l, x + 1)
    BY <2>1
  <2>3. l[x] = At(l, 1) <=> x = 1
    BY <1>1, <1>2, <2>1 DEF At
  <2> HIDE DEF prev, next, E
  <2> QED BY <1>6, <2>1, <2>2, <2>3
<1>10. m.prev[k] = Merges!NoEntry /\ m.next[k] = At(l, 1)
  BY <1>1, <1>5, <1>3, <1>6
<1>11. E = {o[j] : j \in 1..(n + 1)}
  <2>1. ASSUME NEW x \in E PROVE \E j \in 1..(n + 1) : x = o[j]
    <3>1. CASE x = k
      BY <1>1, <1>7, <3>1
    <3>2. CASE x # k
      <4>1. PICK j \in 1..n : x = l[j]
        BY <1>2, <3>2
      <4>2. j + 1 \in 1..(n + 1) /\ x = o[j + 1]
        BY <1>1, <1>7, <4>1
      <4> QED BY <4>2
    <3> QED BY <3>1, <3>2
  <2>2. ASSUME NEW j \in 1..(n + 1) PROVE o[j] \in E
    <3>1. CASE j = 1
      BY <1>1, <1>7, <3>1
    <3>2. CASE j # 1
      <4>1. j - 1 \in 1..n /\ o[j] = l[j - 1]
        BY <1>1, <1>7, <3>2
      <4> QED BY <1>9, <4>1
    <3> QED BY <3>1, <3>2
  <2> HIDE DEF E
  <2>3. ASSUME NEW x \in {o[j] : j \in 1..(n + 1)} PROVE x \in E
    BY <2>2
  <2>4. ASSUME NEW x \in E PROVE x \in {o[j] : j \in 1..(n + 1)}
    BY <2>1
  <2> QED BY <2>3, <2>4, Zenon
<1>12. ASSUME NEW x \in 1..(n + 1), NEW y \in 1..(n + 1), o[x] = o[y] PROVE x = y
  <2>1. \A j \in 1..(n + 1) : j = 1 \/ (j - 1 \in 1..n /\ o[j] = l[j - 1] /\ o[j] # k)
    BY <1>1, <1>7, <1>9
  <2>2. o[1] = k
    BY <1>1, <1>7
  <2>3. CASE x = 1 \/ y = 1
    BY <1>12, <2>1, <2>2, <2>3
  <2>4. CASE x # 1 /\ y # 1
    <3>1. x - 1 \in 1..n /\ y - 1 \in 1..n /\ l[x - 1] = l[y - 1]
      BY <1>12, <2>1, <2>4
    <3>2. x - 1 = y - 1
      BY <1>2, <3>1
    <3> QED BY <3>2
  <2> QED BY <2>3, <2>4
<1>13. ASSUME NEW j \in 1..(n + 1) PROVE m.prev[o[j]] = At(o, j - 1) /\ m.next[o[j]] = At(o, j + 1)
  <2>1. CASE j = 1
    <3>1. At(o, 0) = Merges!NoEntry /\ At(o, 2) = At(l, 1) /\ o[1] = k
      BY <1>1, <1>7, <1>8 DEF At
    <3> QED BY <1>10, <2>1, <3>1
  <2>2. CASE j # 1
    <3>1. j - 1 \in 1..n /\ o[j] = l[j - 1] /\ j - 1 + 1 = j
      BY <1>1, <1>7, <2>2
    <3>2. m.prev[l[j - 1]] = (IF j - 1 = 1 THEN k ELSE At(l, j - 1 - 1)) /\ m.next[l[j - 1]] = At(l, j)
      BY <1>9, <3>1
    <3>3. At(o, j + 1) = At(l, j)
      BY <1>1, <1>8, <2>2 DEF At
    <3>4. At(o, j - 1) = IF j - 1 = 1 THEN k ELSE At(l, j - 1 - 1)
      BY <1>1, <1>8, <2>2 DEF At
    <3> QED BY <3>1, <3>2, <3>3, <3>4
  <2> QED BY <2>1, <2>2
<1>14. m.head = At(o, 1) /\ m.tail = At(o, n + 1)
  <2>1. m.head = At(o, 1)
    BY <1>1, <1>6, <1>8
  <2>2. CASE n = 0
    BY <1>2, <1>6, <1>8, <2>1, <2>2 DEF At
  <2>3. CASE n # 0
    <3>1. 1 \in 1..n /\ n \in 1..n /\ n + 1 # 1 /\ n + 1 \in 1..(n + 1) /\ n + 1 - 1 = n
      BY <1>1, <2>3
    <3>2. At(l, 1) # Merges!NoEntry /\ At(l, n) = l[n]
      BY <3>1, KeysOf
    <3>3. m.tail = l[n]
      BY <1>2, <1>6, <3>2
    <3> QED BY <1>8, <2>1, <3>1, <3>3
  <2> QED BY <2>2, <2>3
<1>15. Merges!IsListOf(o, m)
  <2>1. DOMAIN m.value = E
    BY <1>6
  <2> HIDE DEF E
  <2>2. Lists(o, m, E)
    BY <1>6, <1>7, <1>11, <1>12, <1>13, <1>14 DEF Lists
  <2> QED BY <1>7, <2>1, <2>2, ListOf
<1> QED BY <1>6, <1>15 DEF IsPushed

\* remove drops the last of the list.
LEMMA RemovedIsLast ==
    ASSUME Merges!NoEntry \notin Keys, NEW D \in SUBSET Keys, NEW c \in Caches(D),
           NEW l \in Seq(Keys), Merges!IsListOf(l, c),
           Len(l) > 1, NEW m, m = Merges!remove(c, l[Len(l)])
    PROVE  /\ m \in Caches(D \ {l[Len(l)]}) /\ Merges!IsListOf(SubSeq(l, 1, Len(l) - 1), m)
           /\ \A j \in D \ {l[Len(l)]} : m.value[j] = c.value[j]
<1> DEFINE n == Len(l)
           k == l[n]
           E == D \ {k}
<1>1. DOMAIN c.value = D /\ n \in Nat /\ E \in SUBSET Keys /\ n \in 1..n /\ n - 1 \in 1..n /\ 1 \in 1..n /\ n > 1
  BY DEF Caches
<1>2. /\ D = {l[j] : j \in 1..n} /\ \A x, y \in 1..n : l[x] = l[y] => x = y
      /\ c.size = n /\ c.head = At(l, 1) /\ c.tail = At(l, n)
      /\ \A j \in 1..n : c.prev[l[j]] = At(l, j - 1) /\ c.next[l[j]] = At(l, j + 1)
  <2>1. Lists(l, c, D)
    BY <1>1, ListOf
  <2> QED BY <2>1, Zenon DEF Lists
<1>3. k \in D /\ c.prev[k] = l[n - 1] /\ c.next[k] = Merges!NoEntry /\ l[n - 1] # Merges!NoEntry /\ l[n - 1] \in Keys
  <2>1. At(l, n + 1) = Merges!NoEntry /\ At(l, n - 1) = l[n - 1]
    BY <1>1 DEF At
  <2> QED BY <1>1, <1>2, <2>1, KeysOf
<1> HIDE DEF k
<1>4. PICK u : u = Merges!Unlinked(c, k)
  OBVIOUS
<1>5. /\ u \in Caches(D)
      /\ \A j \in D : u.prev[j] = c.prev[j]
      /\ \A j \in D : u.next[j] = IF j = l[n - 1] THEN Merges!NoEntry ELSE c.next[j]
  <2>1. /\ u \in Caches(D)
        /\ \A j \in D : u.prev[j] = IF j = Merges!NoEntry THEN l[n - 1] ELSE c.prev[j]
        /\ \A j \in D : u.next[j] = IF j = l[n - 1] THEN Merges!NoEntry ELSE c.next[j]
    BY <1>3, <1>4, UnlinkedIs
  <2>2. \A j \in D : j # Merges!NoEntry
    OBVIOUS
  <2> QED BY <2>1, <2>2
<1> DEFINE value == [j \in E |-> c.value[j]]
           prev  == [j \in E |-> u.prev[j]]
           next  == [j \in E |-> u.next[j]]
<1>6. m = [value |-> value, prev |-> prev, next |-> next, head |-> c.head, tail |-> l[n - 1], size |-> c.size - 1]
  <2>1. Merges!Entries(c) = D
    BY <1>1 DEF Merges!Entries
  <2>2. m = [value |-> value, prev |-> prev, next |-> next,
             head |-> IF c.prev[k] = Merges!NoEntry THEN c.next[k] ELSE c.head,
             tail |-> IF c.next[k] = Merges!NoEntry THEN c.prev[k] ELSE c.tail, size |-> c.size - 1]
    BY <1>4, <2>1, Zenon DEF Merges!remove, k
  <2> QED BY <1>3, <2>2, Zenon
<1>7. /\ m \in Caches(E) /\ m.head = l[1] /\ m.tail = l[n - 1] /\ m.size = n - 1
      /\ m.value = value /\ m.prev = prev /\ m.next = next
  <2>1. value \in [E -> Values]
    BY DEF Caches
  <2>2. u.prev \in [D -> Links] /\ u.next \in [D -> Links]
    <3>1. u \in Caches(D)
      BY <1>5, Zenon
    <3> QED BY <3>1 DEF Caches
  <2>3. prev \in [E -> Links] /\ next \in [E -> Links]
    BY <2>2
  <2>4. l[n - 1] \in Links /\ c.head \in Links
    BY <1>3 DEF Links, Caches
  <2>5. c.head = l[1]
    BY <1>1, <1>2 DEF At
  <2> HIDE DEF value, prev, next, E
  <2> QED BY <1>1, <1>2, <1>6, <2>1, <2>3, <2>4, <2>5 DEF Caches
<1> DEFINE o == SubSeq(l, 1, n - 1)
<1>8. o \in Seq(Keys) /\ Len(o) = n - 1 /\ \A j \in 1..(n - 1) : o[j] = l[j]
  <2>1. n - 1 \in Nat /\ 1 <= n /\ n - 1 <= n
    BY <1>1
  <2>2. o \in Seq(Keys) /\ DOMAIN o = 1..(n - 1) /\ \A j \in 1..(n - 1) : o[j] = l[j]
    BY <2>1
  <2> HIDE DEF o
  <2>3. Len(o) = n - 1
    BY <2>1, <2>2
  <2> QED BY <2>2, <2>3
<1> HIDE DEF o
<1>9. \A j \in 1..(n - 1) : j \in 1..n /\ l[j] \in E
  BY <1>1, <1>2 DEF k
<1>10. E = {o[j] : j \in 1..(n - 1)}
  <2>1. ASSUME NEW x \in E PROVE \E j \in 1..(n - 1) : x = o[j]
    <3>1. PICK j \in 1..n : x = l[j]
      BY <1>2
    <3>2. j # n
      BY <3>1 DEF k
    <3>3. j \in 1..(n - 1)
      BY <1>1, <3>2
    <3> QED BY <1>8, <3>1, <3>3
  <2> HIDE DEF E
  <2>2. ASSUME NEW x \in {o[j] : j \in 1..(n - 1)} PROVE x \in E
    BY <1>8, <1>9
  <2>3. ASSUME NEW x \in E PROVE x \in {o[j] : j \in 1..(n - 1)}
    BY <2>1
  <2> QED BY <2>2, <2>3, Zenon
<1>11. ASSUME NEW x \in 1..(n - 1), NEW y \in 1..(n - 1), o[x] = o[y] PROVE x = y
  BY <1>2, <1>8, <1>9, <1>11
<1>12. ASSUME NEW j \in 1..(n - 1) PROVE m.prev[o[j]] = At(o, j - 1) /\ m.next[o[j]] = At(o, j + 1)
  <2>1. j \in 1..n /\ l[j] \in E /\ l[j] \in D /\ o[j] = l[j]
    BY <1>8, <1>9
  <2>2. m.prev[l[j]] = At(l, j - 1) /\ m.next[l[j]] = IF l[j] = l[n - 1] THEN Merges!NoEntry ELSE At(l, j + 1)
    <3>1. m.prev[l[j]] = u.prev[l[j]] /\ m.next[l[j]] = u.next[l[j]]
      BY <1>7, <2>1
    <3> HIDE DEF E, value, prev, next
    <3> QED BY <1>2, <1>5, <2>1, <3>1
  <2>3. At(o, j - 1) = At(l, j - 1)
    BY <1>1, <1>8 DEF At
  <2>4. l[j] = l[n - 1] <=> j = n - 1
    BY <1>1, <1>2, <2>1
  <2>5. j = n - 1 => At(o, j + 1) = Merges!NoEntry
    BY <1>1, <1>8 DEF At
  <2>6. j # n - 1 => At(o, j + 1) = At(l, j + 1)
    BY <1>1, <1>8 DEF At
  <2> QED BY <2>1, <2>2, <2>3, <2>4, <2>5, <2>6
<1>13. m.head = At(o, 1) /\ m.tail = At(o, n - 1)
  <2>1. 1 \in 1..(n - 1) /\ n - 1 \in 1..(n - 1)
    BY <1>1
  <2> QED BY <1>7, <1>8, <2>1 DEF At
<1>14. Merges!IsListOf(o, m)
  <2>1. DOMAIN m.value = E
    BY <1>7
  <2> HIDE DEF E
  <2>2. Lists(o, m, E)
    BY <1>7, <1>8, <1>10, <1>11, <1>12, <1>13 DEF Lists
  <2> QED BY <1>8, <2>1, <2>2, ListOf
<1> QED BY <1>7, <1>14 DEF o, k

\* What the turns of compact are.
AreTurns(h, c, preserve) ==
    h = [n \in 0..c.size |-> IF n = 0 THEN [cache |-> c, entry |-> c.tail]
                             ELSE LET s == h[n - 1] IN
                                  IF Merges!Done(s) THEN s ELSE Merges!Turn(s.cache, s.entry, preserve)]

\* compact drops the last entry when there is one too many, and is done then.
LEMMA CompactDrops ==
    ASSUME Merges!NoEntry \notin Keys, maxSize \in Nat, maxSize > 0,
           NEW D \in SUBSET Keys, NEW c \in Caches(D),
           NEW l \in Seq(Keys), Merges!IsListOf(l, c),
           Len(l) > 0, Len(l) <= maxSize + 1
    PROVE  Merges!compact(c, l[1]) = IF Len(l) <= maxSize THEN c ELSE Merges!remove(c, l[Len(l)])
<1> DEFINE n == Len(l)
           first == [cache |-> c, entry |-> c.tail]
           then  == Merges!Turn(c, c.tail, l[1])
           end   == IF n <= maxSize THEN first ELSE then
<1>1. DOMAIN c.value = D /\ n \in Nat /\ n \in 1..n /\ 1 \in 1..n
  BY DEF Caches
<1>2. c.size = n /\ c.tail = l[n] /\ (n # 1 => l[n] # l[1]) /\ l[n] # Merges!NoEntry
  <2>1. Lists(l, c, D)
    BY <1>1, ListOf
  <2> QED BY <1>1, <2>1, KeysOf DEF Lists
<1>3. Merges!Done(first) <=> n <= maxSize
  BY <1>2 DEF Merges!Done
<1>4. n > maxSize => then = [cache |-> Merges!remove(c, l[n]), entry |-> c.prev[l[n]]]
  <2>1. n > maxSize => n # 1
    <3> HIDE DEF n
    <3> QED BY <1>1
  <2> QED BY <1>2, <2>1 DEF Merges!Turn
<1>5. n > maxSize => Merges!Done(then)
  <2> SUFFICES ASSUME n > maxSize PROVE Merges!Done(then)
    OBVIOUS
  <2>1. n > 1
    BY <1>1
  <2>2. Merges!remove(c, l[n]).size = n - 1
    BY <1>2 DEF Merges!remove
  <2>3. then.cache.size = n - 1
    BY <1>4, <2>2
  <2> QED BY <1>1, <2>3 DEF Merges!Done
<1> HIDE DEF first, then
<1>6. Merges!Done(end) /\ (~Merges!Done(first) => end = then) /\ (Merges!Done(first) => end = first)
  <2>1. CASE n <= maxSize
    BY <1>3, <2>1
  <2>2. CASE ~(n <= maxSize)
    BY <1>1, <1>3, <1>5, <2>2
  <2> QED BY <2>1, <2>2
<1> HIDE DEF end
<1> DEFINE next(s) == IF Merges!Done(s) THEN s ELSE Merges!Turn(s.cache, s.entry, l[1])
<1>7. next(first) = end /\ next(end) = end
  <2>1. next(first) = IF Merges!Done(first) THEN first ELSE then
    BY DEF first, then
  <2> QED BY <1>6, <2>1
<1>8. ASSUME NEW h PROVE AreTurns(h, c, l[1]) <=> h = [i \in 0..n |-> IF i = 0 THEN first ELSE next(h[i - 1])]
  BY <1>2, Zenon DEF AreTurns, first
<1> HIDE DEF next
<1>9. \E h : AreTurns(h, c, l[1])
  <2> DEFINE h == [i \in 0..n |-> IF i = 0 THEN first ELSE end]
  <2>1. \A i \in 0..n : h[i] = IF i = 0 THEN first ELSE next(h[i - 1])
    <3> SUFFICES ASSUME NEW i \in 0..n PROVE h[i] = IF i = 0 THEN first ELSE next(h[i - 1])
      OBVIOUS
    <3>1. CASE i = 0
      BY <3>1
    <3>2. CASE i # 0
      <4>1. i - 1 \in 0..n
        BY <1>1, <3>2
      <4> QED BY <1>7, <3>2, <4>1
    <3> QED BY <3>1, <3>2
  <2>2. h = [i \in 0..n |-> h[i]]
    OBVIOUS
  <2> HIDE DEF h
  <2>3. h = [i \in 0..n |-> IF i = 0 THEN first ELSE next(h[i - 1])]
    BY <2>1, <2>2
  <2> QED BY <1>8, <2>3
<1> DEFINE f == CHOOSE h : AreTurns(h, c, l[1])
<1>10. AreTurns(f, c, l[1])
  BY <1>9
<1>11. Merges!compact(c, l[1]) = f[n].cache
  BY <1>2, Zenon DEF Merges!compact, AreTurns
<1> HIDE DEF f
<1>12. \A i \in 0..n : f[i] = IF i = 0 THEN first ELSE next(f[i - 1])
  <2>1. f = [i \in 0..n |-> IF i = 0 THEN first ELSE next(f[i - 1])]
    BY <1>8, <1>10
  <2> QED BY <2>1
<1> DEFINE Fails == {i \in 1..n : f[i] # end}
<1>13. Fails = {}
  <2> SUFFICES ASSUME Fails # {} PROVE FALSE
    OBVIOUS
  <2>1. Fails \subseteq Nat
    OBVIOUS
  <2>2. PICK i \in Fails : \A j \in Fails : i <= j
    BY <2>1, LeastNumber
  <2>3. i \in 1..n /\ f[i] # end /\ f[i] = next(f[i - 1])
    <3>1. i \in 1..n /\ f[i] # end
      OBVIOUS
    <3>2. i \in 0..n /\ i # 0
      BY <1>1, <3>1
    <3> QED BY <1>12, <3>1, <3>2
  <2>4. CASE i = 1
    <3>1. f[0] = first /\ i - 1 = 0
      BY <1>1, <1>12, <2>4
    <3> QED BY <1>7, <2>3, <3>1
  <2>5. CASE i # 1
    <3>1. i - 1 \in 1..n /\ ~(i <= i - 1)
      BY <1>1, <2>3, <2>5
    <3>2. f[i - 1] = end
      BY <2>2, <3>1
    <3> QED BY <1>7, <2>3, <3>2
  <2> QED BY <2>4, <2>5
<1>14. f[n] = end
  BY <1>1, <1>13
<1>15. Merges!compact(c, l[1]) = end.cache
  BY <1>11, <1>14
<1>16. CASE n <= maxSize
  BY <1>15, <1>16 DEF end, first
<1>17. CASE ~(n <= maxSize)
  <2>1. n > maxSize
    BY <1>1, <1>17
  <2> QED BY <1>4, <1>15, <1>17, <2>1 DEF end
<1> QED BY <1>16, <1>17

\* What a put leaves of a list.
Kept(l) == SubSeq(l, 1, IF Len(l) <= maxSize THEN Len(l) ELSE maxSize)

\* r is c with what a put leaves of its list.
IsCompacted(r, c, D, l) ==
    /\ Kept(l) \in Seq(Keys) /\ Len(Kept(l)) <= maxSize /\ Merges!IsListOf(Kept(l), r)
    /\ \E E \in SUBSET D : r \in Caches(E) /\ \A j \in E : r.value[j] = c.value[j]

\* compact keeps as many of the latest used as the options allow.
LEMMA CompactKeeps ==
    ASSUME Merges!NoEntry \notin Keys, maxSize \in Nat, maxSize > 0,
           NEW D \in SUBSET Keys, NEW c \in Caches(D),
           NEW l \in Seq(Keys), Merges!IsListOf(l, c),
           Len(l) > 0, Len(l) <= maxSize + 1, NEW r, r = Merges!compact(c, l[1])
    PROVE  IsCompacted(r, c, D, l)
<1>1. CASE Len(l) <= maxSize
  <2>1. Kept(l) = l
    BY <1>1 DEF Kept
  <2>2. r = c
    BY <1>1, CompactDrops
  <2> QED BY <1>1, <2>1, <2>2 DEF IsCompacted
<1>2. CASE ~(Len(l) <= maxSize)
  <2>1. Len(l) > 1 /\ Len(l) - 1 = maxSize /\ Len(l) \in Nat
    BY <1>2
  <2>2. Kept(l) = SubSeq(l, 1, Len(l) - 1)
    BY <1>2, <2>1 DEF Kept
  <2>3. r = Merges!remove(c, l[Len(l)])
    BY <1>2, CompactDrops
  <2>4. /\ r \in Caches(D \ {l[Len(l)]}) /\ Merges!IsListOf(Kept(l), r)
        /\ \A j \in D \ {l[Len(l)]} : r.value[j] = c.value[j]
    <3>1. /\ r \in Caches(D \ {l[Len(l)]}) /\ Merges!IsListOf(SubSeq(l, 1, Len(l) - 1), r)
          /\ \A j \in D \ {l[Len(l)]} : r.value[j] = c.value[j]
      <4>1. Len(l) > 1
        BY <2>1
      <4> QED BY <2>3, <4>1, RemovedIsLast
    <3> QED BY <2>2, <3>1, Zenon
  <2>5. Kept(l) \in Seq(Keys) /\ DOMAIN Kept(l) = 1..maxSize
    BY <2>1, <2>2
  <2>6. Len(Kept(l)) = maxSize
    <3> HIDE DEF Kept
    <3> QED BY <2>5
  <2>7. D \ {l[Len(l)]} \in SUBSET D
    OBVIOUS
  <2> QED BY <2>4, <2>5, <2>6, <2>7 DEF IsCompacted
<1> QED BY <1>1, <1>2

-----------------------------------------------------------------------------
(* The cache.                                                              *)

\* The inductive invariant: the entries are one list, no longer than the options
\* allow.
MergeInv ==
    /\ maxSize \in Nat
    /\ \E D \in SUBSET Keys : cache \in Caches(D)
    /\ \E l \in Seq(Keys) : Merges!IsListOf(l, cache) /\ Len(l) <= maxSize

\* The empty cache is the empty list.
LEMMA EmptyIsList ==
    Merges!Empty \in Caches({}) /\ Merges!IsListOf(<<>>, Merges!Empty) /\ <<>> \in Seq(Keys) /\ Len(<<>>) = 0
<1>1. Merges!Empty \in Caches({})
  BY DEF Merges!Empty, Caches, Links
<1>2. Lists(<<>>, Merges!Empty, {})
  BY DEF Lists, Merges!Empty, At
<1>3. DOMAIN Merges!Empty.value = {}
  BY DEF Merges!Empty
<1>4. <<>> \in Seq(Keys)
  OBVIOUS
<1>5. Merges!IsListOf(<<>>, Merges!Empty)
  BY <1>2, <1>3, <1>4, ListOf
<1> QED BY <1>1, <1>5

\* A key of the list is used, another comes in front.
LEMMA LatestIs ==
    ASSUME NEW l \in Seq(Keys), \A i, j \in 1..Len(l) : l[i] = l[j] => i = j, NEW k
    PROVE  /\ k \in Merges!Range(l) <=> \E i \in 1..Len(l) : l[i] = k
           /\ \A i \in 1..Len(l) : l[i] = k => Merges!Latest(l, k) = Merges!Used(l, i)
           /\ k \notin Merges!Range(l) => Merges!Latest(l, k) = <<k>> \o l
<1>1. DOMAIN l = 1..Len(l)
  OBVIOUS
<1>2. k \in Merges!Range(l) <=> \E i \in 1..Len(l) : l[i] = k
  BY <1>1 DEF Merges!Range
<1>3. ASSUME NEW i \in 1..Len(l), l[i] = k PROVE Merges!Latest(l, k) = Merges!Used(l, i)
  <2>1. (CHOOSE j \in DOMAIN l : l[j] = k) = i
    BY <1>1, <1>3
  <2>2. k \in Merges!Range(l)
    BY <1>2, <1>3
  <2> QED BY <2>1, <2>2, Zenon DEF Merges!Latest
<1>4. k \notin Merges!Range(l) => Merges!Latest(l, k) = <<k>> \o l
  BY Zenon DEF Merges!Latest
<1> QED BY <1>2, <1>3, <1>4

\* What the property asks of a step, when l is the list before it and after the one
\* behind it.
StepsTo(l, after) ==
    /\ Merges!IsListOf(after, cache')
    /\ \A j \in Merges!Range(after) :
          cache'.value[j] = IF got'.call = "put" /\ j = got'.key THEN got'.value ELSE cache.value[j]
    /\ got'.call = "get" => got'.value = IF got'.key \in Merges!Range(l) THEN cache.value[got'.key] ELSE Merges!NoEntry

\* The list behind a step.
After(l) == CASE got'.call = "clear" -> <<>>
              [] got'.call = "get"   -> IF got'.key \in Merges!Range(l) THEN Merges!Latest(l, got'.key) ELSE l
              [] got'.call = "put"   -> Kept(Merges!Latest(l, got'.key))

\* The list is one the property looks for.
LEMMA StepIs ==
    ASSUME NEW D, cache \in Caches(D), NEW l \in Seq(Keys), Merges!IsListOf(l, cache), StepsTo(l, After(l))
    PROVE  Merges!KeepsLatestStep
<1>1. DOMAIN cache.value = D
  BY DEF Caches
<1>2. cache.size = Len(l) /\ D = {l[i] : i \in 1..Len(l)}
  <2>1. Lists(l, cache, D)
    BY <1>1, ListOf
  <2> QED BY <2>1 DEF Lists
<1>3. l \in [1..cache.size -> Merges!Entries(cache)]
  <2>1. l = [i \in 1..Len(l) |-> l[i]] /\ \A i \in 1..Len(l) : l[i] \in D
    BY <1>2
  <2> QED BY <1>1, <1>2, <2>1 DEF Merges!Entries
<1> QED BY <1>3, Zenon DEF Merges!KeepsLatestStep, StepsTo, After, Kept

\* put uses an entry or pushes a new one, and compacts.
LEMMA PutStep ==
    ASSUME Merges!NoEntry \notin Keys, MergeInv, NEW k \in Keys, NEW v \in Values, Merges!Put(k, v)
    PROVE  MergeInv' /\ Merges!KeepsLatestStep
<1>1. PICK D \in SUBSET Keys : cache \in Caches(D)
  BY DEF MergeInv
<1>2. PICK l \in Seq(Keys) : Merges!IsListOf(l, cache) /\ Len(l) <= maxSize
  BY DEF MergeInv
<1>3. maxSize \in Nat /\ maxSize' = maxSize /\ got'.call = "put" /\ got'.key = k /\ got'.value = v
  BY DEF MergeInv, Merges!Put, Merges!Answer
<1>4. DOMAIN cache.value = D /\ Merges!Entries(cache) = D
  BY <1>1 DEF Caches, Merges!Entries
<1>5. Lists(l, cache, D)
  BY <1>2, <1>4, ListOf
<1>6. \A i, j \in 1..Len(l) : l[i] = l[j] => i = j
  BY <1>5 DEF Lists
<1>7. /\ k \in Merges!Range(l) <=> \E i \in 1..Len(l) : l[i] = k
      /\ \A i \in 1..Len(l) : l[i] = k => Merges!Latest(l, k) = Merges!Used(l, i)
      /\ k \notin Merges!Range(l) => Merges!Latest(l, k) = <<k>> \o l
      /\ k \in D <=> k \in Merges!Range(l)
  <2>1. /\ k \in Merges!Range(l) <=> \E i \in 1..Len(l) : l[i] = k
        /\ \A i \in 1..Len(l) : l[i] = k => Merges!Latest(l, k) = Merges!Used(l, i)
        /\ k \notin Merges!Range(l) => Merges!Latest(l, k) = <<k>> \o l
    BY <1>6, LatestIs, Zenon
  <2>2. k \in D <=> \E i \in 1..Len(l) : l[i] = k
    BY <1>5 DEF Lists
  <2> QED BY <2>1, <2>2
<1> DEFINE latest == Merges!Latest(l, k)
<1>8. After(l) = Kept(latest)
  BY <1>3 DEF After
<1>9. CASE maxSize = 0
  <2>1. cache' = cache
    BY <1>9 DEF Merges!Put
  <2>2. Len(l) = 0
    BY <1>2, <1>9
  <2>3. l = <<>> /\ Kept(latest) = <<>>
    <3>1. l = <<>>
      BY <2>2
    <3>2. k \notin Merges!Range(l)
      BY <1>7, <2>2
    <3>3. latest = <<k>> \o l
      BY <1>7, <3>2
    <3>4. latest = <<k>>
      BY <3>1, <3>3
    <3>5. Len(latest) = 1
      BY <3>4
    <3>6. Kept(latest) = SubSeq(<<k>>, 1, 0)
      BY <1>9, <3>4, <3>5 DEF Kept
    <3> QED BY <3>1, <3>6
  <2>4. StepsTo(l, Kept(latest))
    <3>1. Merges!Range(<<>>) = {}
      BY DEF Merges!Range
    <3> QED BY <1>2, <1>3, <2>1, <2>3, <3>1 DEF StepsTo
  <2>5. MergeInv'
    <3>1. Merges!IsListOf(l, cache') /\ Len(l) <= maxSize' /\ maxSize' \in Nat
      BY <1>2, <1>3, <2>1
    <3>2. cache' \in Caches(D)
      BY <1>1, <2>1
    <3> QED BY <3>1, <3>2 DEF MergeInv, Merges!IsListOf
  <2> QED BY <1>1, <1>2, <1>8, <2>4, <2>5, StepIs
<1>10. CASE maxSize # 0
  <2> DEFINE m == IF k \in Merges!Entries(cache) THEN Merges!moveToFront([cache EXCEPT !.value[k] = v], k)
                  ELSE Merges!pushToFront(cache, k, v)
  <2>1. cache' = Merges!compact(m, k)
    BY <1>10, Zenon DEF Merges!Put
  <2>2. /\ m \in Caches(D \cup {k}) /\ Merges!IsListOf(latest, m) /\ latest \in Seq(Keys)
        /\ Len(latest) > 0 /\ Len(latest) <= maxSize + 1 /\ latest[1] = k
        /\ \A j \in D \cup {k} : m.value[j] = IF j = k THEN v ELSE cache.value[j]
    <3>1. CASE k \in D
      <4>1. PICK i \in 1..Len(l) : l[i] = k
        BY <1>5, <3>1 DEF Lists
      <4> DEFINE c == [cache EXCEPT !.value[k] = v]
      <4>2. /\ c \in Caches(D) /\ c.prev = cache.prev /\ c.next = cache.next
            /\ c.head = cache.head /\ c.tail = cache.tail /\ c.size = cache.size
            /\ \A j \in D : c.value[j] = IF j = k THEN v ELSE cache.value[j]
        BY <1>1, <3>1 DEF Caches
      <4>3. m = Merges!moveToFront(c, l[i])
        BY <1>4, <3>1, <4>1
      <4> HIDE DEF c, m
      <4>4. DOMAIN c.value = D
        BY <4>2 DEF Caches
      <4>5. Lists(l, c, D)
        BY <1>5, <4>2 DEF Lists
      <4>6. Merges!IsListOf(l, c)
        BY <4>4, <4>5, ListOf
      <4>7. c \in Caches(D)
        BY <4>2, Zenon
      <4>8. m \in Caches(D) /\ m.value = c.value /\ Merges!IsListOf(Merges!Used(l, i), m)
        BY <4>3, <4>6, <4>7, MovedIsUsed
      <4>9. latest = Merges!Used(l, i) /\ D \cup {k} = D
        BY <1>7, <3>1, <4>1
      <4>10. latest \in Seq(Keys) /\ Len(latest) = Len(l) /\ latest[1] = k
        <5>1. 1 \in 1..Len(l)
          OBVIOUS
        <5>2. Merges!Used(l, i)[1] = l[i] /\ Merges!Used(l, i) \in Seq(Keys) /\ Len(Merges!Used(l, i)) = Len(l)
          BY <5>1, UsedIs
        <5> QED BY <4>1, <4>9, <5>2
      <4>11. Len(l) > 0 /\ Len(l) <= maxSize + 1
        BY <1>2, <1>3
      <4> HIDE DEF latest
      <4> QED BY <4>2, <4>8, <4>9, <4>10, <4>11
    <3>2. CASE k \notin D
      <4>1. m = Merges!pushToFront(cache, k, v) /\ k \in Keys \ D
        BY <1>4, <3>2
      <4>2. latest = <<k>> \o l
        BY <1>7, <3>2
      <4> HIDE DEF m, latest
      <4>3. latest \in Seq(Keys) /\ Len(latest) = Len(l) + 1 /\ latest[1] = k
        <5>1. <<k>> \in Seq(Keys) /\ Len(<<k>>) = 1 /\ <<k>>[1] = k
          OBVIOUS
        <5> QED BY <4>2, <5>1
      <4>4. /\ m \in Caches(D \cup {k}) /\ Merges!IsListOf(latest, m)
            /\ \A j \in D \cup {k} : m.value[j] = IF j = k THEN v ELSE cache.value[j]
        <5>1. IsBehind(l, k, latest)
          <6>1. <<k>> \in Seq(Keys) /\ Len(<<k>>) = 1 /\ <<k>>[1] = k
            OBVIOUS
          <6>2. \A j \in 1..Len(latest) : latest[j] = IF j = 1 THEN k ELSE l[j - 1]
            BY <4>2, <4>3, <6>1
          <6> QED BY <4>3, <6>2 DEF IsBehind
        <5>2. cache \in Caches(D)
          BY <1>1
        <5>3. Merges!IsListOf(l, cache)
          BY <1>2
        <5>4. latest \in Seq(Keys)
          BY <4>3
        <5>5. k \in Keys \ D
          BY <4>1
        <5>6. m = Merges!pushToFront(cache, k, v)
          BY <4>1
        <5>7. IsPushed(m, cache, D, k, v, latest)
          BY <5>1, <5>2, <5>3, <5>4, <5>5, <5>6, PushedIsFirst
        <5> QED BY <5>7, Zenon DEF IsPushed
      <4>5. Len(l) + 1 > 0 /\ Len(l) + 1 <= maxSize + 1
        BY <1>2, <1>3
      <4> QED BY <4>3, <4>4, <4>5
    <3> QED BY <3>1, <3>2
  <2> HIDE DEF m, latest
  <2>3. /\ Kept(latest) \in Seq(Keys) /\ Len(Kept(latest)) <= maxSize /\ Merges!IsListOf(Kept(latest), cache')
        /\ \E E \in SUBSET (D \cup {k}) : cache' \in Caches(E) /\ \A j \in E : cache'.value[j] = m.value[j]
    <3>1. m \in Caches(D \cup {k}) /\ D \cup {k} \in SUBSET Keys /\ maxSize > 0
      BY <1>3, <1>10, <2>2
    <3>2. cache' = Merges!compact(m, latest[1])
      BY <2>1, <2>2
    <3>3. Merges!IsListOf(latest, m) /\ latest \in Seq(Keys) /\ Len(latest) > 0 /\ Len(latest) <= maxSize + 1
      BY <2>2
    <3>4. IsCompacted(cache', m, D \cup {k}, latest)
      BY <1>3, <3>1, <3>2, <3>3, CompactKeeps
    <3> QED BY <3>4, Zenon DEF IsCompacted
  <2>4. PICK E \in SUBSET (D \cup {k}) : cache' \in Caches(E) /\ \A j \in E : cache'.value[j] = m.value[j]
    BY <2>3, Zenon
  <2>5. \A j \in Merges!Range(Kept(latest)) : cache'.value[j] = IF j = k THEN v ELSE cache.value[j]
    <3>1. DOMAIN cache'.value = E
      BY <2>4 DEF Caches
    <3>2. Merges!Range(Kept(latest)) = E
      BY <2>3, <3>1, Zenon DEF Merges!IsListOf, Merges!Entries
    <3> QED BY <2>2, <2>4, <3>2
  <2>6. StepsTo(l, Kept(latest))
    BY <1>3, <2>3, <2>5 DEF StepsTo
  <2>7. MergeInv'
    <3>1. E \in SUBSET Keys /\ cache' \in Caches(E)
      BY <2>4
    <3>2. /\ Merges!IsListOf(Kept(latest), cache') /\ Kept(latest) \in Seq(Keys)
          /\ Len(Kept(latest)) <= maxSize' /\ maxSize' \in Nat
      BY <1>3, <2>3
    <3> QED BY <3>1, <3>2 DEF MergeInv, Merges!IsListOf
  <2> QED BY <1>1, <1>2, <1>8, <2>6, <2>7, StepIs DEF latest
<1> QED BY <1>9, <1>10

\* get uses the entry it finds.
LEMMA GetStep ==
    ASSUME Merges!NoEntry \notin Keys, MergeInv, NEW k \in Keys, Merges!Get(k)
    PROVE  MergeInv' /\ Merges!KeepsLatestStep
<1>1. PICK D \in SUBSET Keys : cache \in Caches(D)
  BY DEF MergeInv
<1>2. PICK l \in Seq(Keys) : Merges!IsListOf(l, cache) /\ Len(l) <= maxSize
  BY DEF MergeInv
<1>3. maxSize \in Nat /\ maxSize' = maxSize /\ got'.call = "get" /\ got'.key = k
  BY DEF MergeInv, Merges!Get, Merges!Answer
<1>4. DOMAIN cache.value = D /\ Merges!Entries(cache) = D
  BY <1>1 DEF Caches, Merges!Entries
<1>5. Lists(l, cache, D)
  BY <1>2, <1>4, ListOf
<1>6. \A i, j \in 1..Len(l) : l[i] = l[j] => i = j
  BY <1>5 DEF Lists
<1>7. /\ k \in Merges!Range(l) <=> \E i \in 1..Len(l) : l[i] = k
      /\ \A i \in 1..Len(l) : l[i] = k => Merges!Latest(l, k) = Merges!Used(l, i)
      /\ k \notin Merges!Range(l) => Merges!Latest(l, k) = <<k>> \o l
      /\ k \in D <=> k \in Merges!Range(l)
  <2>1. /\ k \in Merges!Range(l) <=> \E i \in 1..Len(l) : l[i] = k
        /\ \A i \in 1..Len(l) : l[i] = k => Merges!Latest(l, k) = Merges!Used(l, i)
        /\ k \notin Merges!Range(l) => Merges!Latest(l, k) = <<k>> \o l
    BY <1>6, LatestIs, Zenon
  <2>2. k \in D <=> \E i \in 1..Len(l) : l[i] = k
    BY <1>5 DEF Lists
  <2> QED BY <2>1, <2>2
<1>8. PICK after \in Seq(Keys) : /\ after = After(l) /\ Len(after) <= maxSize /\ cache' \in Caches(D)
                                 /\ StepsTo(l, after)
  <2>1. CASE k \in D
    <3>1. PICK i \in 1..Len(l) : l[i] = k
      BY <1>5, <2>1 DEF Lists
    <3>2. got'.value = cache.value[k] /\ cache' = Merges!moveToFront(cache, l[i])
      BY <1>4, <2>1, <3>1 DEF Merges!Get, Merges!Answer
    <3>3. cache' \in Caches(D) /\ cache'.value = cache.value /\ Merges!IsListOf(Merges!Used(l, i), cache')
      BY <1>1, <1>2, <3>2, MovedIsUsed
    <3>4. After(l) = Merges!Used(l, i)
      BY <1>3, <1>7, <2>1, <3>1 DEF After
    <3>5. Merges!Used(l, i) \in Seq(Keys) /\ Len(Merges!Used(l, i)) = Len(l)
      BY UsedIs
    <3>6. StepsTo(l, Merges!Used(l, i))
      BY <1>3, <1>7, <2>1, <3>2, <3>3 DEF StepsTo
    <3> QED BY <1>2, <3>3, <3>4, <3>5, <3>6
  <2>2. CASE k \notin D
    <3>1. got'.value = Merges!NoEntry /\ cache' = cache
      BY <1>4, <2>2 DEF Merges!Get, Merges!Answer
    <3>2. After(l) = l
      BY <1>3, <1>7, <2>2 DEF After
    <3>3. StepsTo(l, l)
      BY <1>2, <1>3, <1>7, <2>2, <3>1 DEF StepsTo
    <3> QED BY <1>1, <1>2, <3>1, <3>2, <3>3
  <2> QED BY <2>1, <2>2
<1>9. MergeInv'
  <2>1. Merges!IsListOf(after, cache')
    BY <1>8 DEF StepsTo
  <2> QED BY <1>3, <1>8, <2>1 DEF MergeInv, Merges!IsListOf
<1> QED BY <1>1, <1>2, <1>8, <1>9, StepIs

\* clear leaves the empty list.
LEMMA ClearStep == ASSUME MergeInv, Merges!Clear PROVE MergeInv' /\ Merges!KeepsLatestStep
<1>1. PICK D \in SUBSET Keys : cache \in Caches(D)
  BY DEF MergeInv
<1>2. PICK l \in Seq(Keys) : Merges!IsListOf(l, cache) /\ Len(l) <= maxSize
  BY DEF MergeInv
<1>3. maxSize \in Nat /\ maxSize' = maxSize /\ got'.call = "clear" /\ cache' = Merges!Empty
  BY DEF MergeInv, Merges!Clear, Merges!Answer
<1>4. Merges!IsListOf(<<>>, cache') /\ cache' \in Caches({}) /\ <<>> \in Seq(Keys) /\ Len(<<>>) <= maxSize'
  BY <1>3, EmptyIsList
<1>5. MergeInv'
  BY <1>3, <1>4 DEF MergeInv, Merges!IsListOf
<1>6. After(l) = <<>>
  BY <1>3 DEF After
<1>7. StepsTo(l, <<>>)
  <2>1. Merges!Range(<<>>) = {}
    BY DEF Merges!Range
  <2> QED BY <1>3, <1>4, <2>1 DEF StepsTo
<1> QED BY <1>1, <1>2, <1>5, <1>6, <1>7, StepIs

\* The map of the merge cache and its links are one list of the merges last used: it
\* is about put, get and clear, and about moveToFront, pushToFront, remove and compact
\* under them, for all keys, values and sizes.
THEOREM MergesAreLatest ==
    ASSUME Merges!NoEntry \notin Keys, MaxSizes \subseteq Nat PROVE Merges!Spec => Merges!KeepsLatest
<1>1. Merges!Init => MergeInv
  <2> SUFFICES ASSUME Merges!Init PROVE MergeInv
    OBVIOUS
  <2>1. maxSize \in Nat /\ cache = Merges!Empty
    BY DEF Merges!Init
  <2>2. cache \in Caches({}) /\ Merges!IsListOf(<<>>, cache) /\ <<>> \in Seq(Keys) /\ Len(<<>>) <= maxSize
    BY <2>1, EmptyIsList
  <2>3. {} \in SUBSET Keys
    OBVIOUS
  <2> QED BY <2>1, <2>2, <2>3, Zenon DEF MergeInv
<1>2. MergeInv /\ [Merges!Next]_(Merges!vars) => MergeInv' /\ [Merges!KeepsLatestStep]_(Merges!vars)
  <2> SUFFICES ASSUME MergeInv, [Merges!Next]_(Merges!vars) PROVE MergeInv' /\ [Merges!KeepsLatestStep]_(Merges!vars)
    OBVIOUS
  <2>1. CASE UNCHANGED Merges!vars
    BY <2>1 DEF Merges!vars, MergeInv, Merges!IsListOf
  <2>2. ASSUME NEW k \in Keys, Merges!Get(k) PROVE MergeInv' /\ Merges!KeepsLatestStep
    BY <2>2, GetStep
  <2>3. ASSUME NEW k \in Keys, NEW v \in Values, Merges!Put(k, v) PROVE MergeInv' /\ Merges!KeepsLatestStep
    BY <2>3, PutStep
  <2>4. CASE Merges!Clear
    BY <2>4, ClearStep
  <2> QED BY <2>1, <2>2, <2>3, <2>4 DEF Merges!Next
<1> QED BY <1>1, <1>2, PTL DEF Merges!Spec, Merges!KeepsLatest

-----------------------------------------------------------------------------
(* Lists of intervals.                                                     *)

Ivals        == [a : Int, b : Int]
Within(x, r) == r.a <= x /\ x <= r.b
IsList(list) == list \in Seq(Ivals) /\ Intervals!IsNormal(list)

\* To be normal, index by index.
LEMMA ListIs ==
    ASSUME NEW list \in Seq(Ivals)
    PROVE  Intervals!IsNormal(list) <=>
             /\ \A n \in 1..Len(list) : list[n].a <= list[n].b
             /\ \A m, n \in 1..Len(list) : m < n => list[m].b + 1 < list[n].a
<1>1. DOMAIN list = 1..Len(list)
  OBVIOUS
<1> QED BY <1>1, Zenon DEF Intervals!IsNormal

LEMMA DenotedIs ==
    ASSUME NEW list \in Seq(Ivals), NEW x
    PROVE  x \in Intervals!Denoted(list) <=> x \in Int /\ \E n \in 1..Len(list) : Within(x, list[n])
<1>1. Intervals!ToSet(list) = {list[n] : n \in 1..Len(list)}
  <2>1. DOMAIN list = 1..Len(list)
    OBVIOUS
  <2> QED BY <2>1, Zenon DEF Intervals!ToSet
<1>2. \A n \in 1..Len(list) : list[n].a \in Int /\ list[n].b \in Int
  <2>1. \A n \in 1..Len(list) : list[n] \in Ivals
    OBVIOUS
  <2> QED BY <2>1 DEF Ivals
<1>3. x \in Intervals!Denoted(list) <=> \E n \in 1..Len(list) : x \in list[n].a..list[n].b
  BY <1>1 DEF Intervals!Denoted
<1> QED BY <1>2, <1>3 DEF Within

\* Where an interval is put in, another taken out: by index, as a set, and as a list.
IsSpliced(s, list, i, j, mid) ==
    /\ s \in Seq(Ivals) /\ Len(s) = i - 1 + Len(mid) + Len(list) - j
    /\ \A p \in 1..Len(s) : s[p] = IF p < i THEN list[p]
                                   ELSE IF p < i + Len(mid) THEN mid[p - i + 1]
                                   ELSE list[p - i + 1 - Len(mid) + j]

LEMMA SplicedAt ==
    ASSUME NEW list \in Seq(Ivals), NEW i \in 1..Len(list) + 1, NEW j \in i - 1..Len(list), NEW mid \in Seq(Ivals)
    PROVE  IsSpliced(Intervals!Spliced(list, i, j, mid), list, i, j, mid)
<1> DEFINE before == SubSeq(list, 1, i - 1)
           behind == SubSeq(list, j + 1, Len(list))
<1>1. Len(list) \in Nat /\ Len(mid) \in Nat /\ i \in Int /\ j \in Int
  OBVIOUS
<1>2. before \in Seq(Ivals) /\ Len(before) = i - 1 /\ \A p \in 1..i - 1 : before[p] = list[p]
  OBVIOUS
<1>3. behind \in Seq(Ivals) /\ Len(behind) = Len(list) - j /\ \A p \in 1..Len(list) - j : behind[p] = list[p + j]
  OBVIOUS
<1>4. Intervals!Spliced(list, i, j, mid) = before \o mid \o behind
  BY DEF Intervals!Spliced
<1> HIDE DEF before, behind
<1> DEFINE front == before \o mid
           s     == front \o behind
<1>5. front \in Seq(Ivals) /\ Len(front) = i - 1 + Len(mid)
  <2>1. front \in Seq(Ivals) /\ Len(front) = Len(before) + Len(mid)
    BY <1>2, ConcatProperties
  <2> HIDE DEF front
  <2> QED BY <1>2, <2>1
<1>6. \A p \in 1..i - 1 + Len(mid) : front[p] = IF p < i THEN list[p] ELSE mid[p - i + 1]
  <2> SUFFICES ASSUME NEW p \in 1..i - 1 + Len(mid) PROVE front[p] = IF p < i THEN list[p] ELSE mid[p - i + 1]
    OBVIOUS
  <2>1. CASE p < i
    <3>1. p \in 1..Len(before) /\ front[p] = before[p]
      BY <1>1, <1>2, <2>1
    <3> QED BY <1>2, <2>1, <3>1
  <2>2. CASE ~(p < i)
    <3>1. front[p] = mid[p - (i - 1)] /\ p - (i - 1) = p - i + 1
      BY <1>1, <1>2, <2>2
    <3> QED BY <2>2, <3>1
  <2> QED BY <2>1, <2>2
<1> HIDE DEF front
<1>7. s \in Seq(Ivals) /\ Len(s) = i - 1 + Len(mid) + Len(list) - j
  <2>1. s \in Seq(Ivals) /\ Len(s) = Len(front) + Len(behind)
    BY <1>3, <1>5, ConcatProperties
  <2> HIDE DEF s
  <2> QED BY <1>1, <1>3, <1>5, <2>1
<1>8. ASSUME NEW p \in 1..Len(s)
      PROVE  s[p] = IF p < i THEN list[p] ELSE IF p < i + Len(mid) THEN mid[p - i + 1]
                    ELSE list[p - i + 1 - Len(mid) + j]
  <2>1. CASE p < i + Len(mid)
    <3>1. p \in 1..i - 1 + Len(mid)
      BY <1>1, <1>7, <2>1
    <3>2. s[p] = front[p]
      BY <1>1, <1>3, <1>5, <3>1
    <3> QED BY <1>1, <1>6, <2>1, <3>1, <3>2
  <2>2. CASE ~(p < i + Len(mid))
    <3>1. s[p] = behind[p - (i - 1 + Len(mid))]
      BY <1>1, <1>3, <1>5, <1>7, <2>2, SMTT(30)
    <3>2. p - (i - 1 + Len(mid)) \in 1..Len(list) - j
      BY <1>1, <1>7, <2>2
    <3>3. (p - (i - 1 + Len(mid))) + j = p - i + 1 - Len(mid) + j /\ ~(p < i)
      BY <1>1, <1>7, <2>2
    <3> QED BY <1>3, <2>2, <3>1, <3>2, <3>3
  <2> QED BY <2>1, <2>2
<1>9. IsSpliced(s, list, i, j, mid)
  BY <1>7, <1>8, Zenon DEF IsSpliced
<1> QED BY <1>4, <1>9 DEF front

LEMMA SplicedDenotes ==
    ASSUME NEW list \in Seq(Ivals), NEW i \in 1..Len(list) + 1, NEW j \in i - 1..Len(list), NEW mid \in Seq(Ivals),
           NEW x
    PROVE  x \in Intervals!Denoted(Intervals!Spliced(list, i, j, mid)) <=>
             \/ x \in Intervals!Denoted(mid)
             \/ x \in Int /\ \E k \in 1..Len(list) : (k < i \/ k > j) /\ Within(x, list[k])
<1> DEFINE s == Intervals!Spliced(list, i, j, mid)
<1>1. Len(list) \in Nat /\ Len(mid) \in Nat /\ i \in Int /\ j \in Int
  OBVIOUS
<1>2. /\ s \in Seq(Ivals) /\ Len(s) = i - 1 + Len(mid) + Len(list) - j
      /\ \A p \in 1..Len(s) : s[p] = IF p < i THEN list[p] ELSE IF p < i + Len(mid) THEN mid[p - i + 1]
                                     ELSE list[p - i + 1 - Len(mid) + j]
  <2>1. IsSpliced(s, list, i, j, mid)
    BY SplicedAt
  <2> QED BY <2>1, Zenon DEF IsSpliced
<1> HIDE DEF s
<1>3. x \in Intervals!Denoted(s) <=> x \in Int /\ \E p \in 1..Len(s) : Within(x, s[p])
  BY <1>2, DenotedIs
<1>4. x \in Intervals!Denoted(mid) <=> x \in Int /\ \E p \in 1..Len(mid) : Within(x, mid[p])
  BY DenotedIs
<1>5. ASSUME NEW p \in 1..Len(s), Within(x, s[p])
      PROVE  \/ \E q \in 1..Len(mid) : Within(x, mid[q])
             \/ \E k \in 1..Len(list) : (k < i \/ k > j) /\ Within(x, list[k])
  <2>1. CASE p < i
    <3>1. p \in 1..Len(list) /\ Within(x, list[p])
      BY <1>1, <1>2, <1>5, <2>1
    <3> QED BY <2>1, <3>1
  <2>2. CASE ~(p < i) /\ p < i + Len(mid)
    <3>1. p - i + 1 \in 1..Len(mid) /\ Within(x, mid[p - i + 1])
      BY <1>1, <1>2, <1>5, <2>2
    <3> QED BY <3>1
  <2>3. CASE ~(p < i) /\ ~(p < i + Len(mid))
    <3> DEFINE k == p - i + 1 - Len(mid) + j
    <3>1. k \in 1..Len(list) /\ k > j
      BY <1>1, <1>2, <2>3
    <3>2. s[p] = list[k]
      BY <1>2, <2>3
    <3> HIDE DEF k
    <3> QED BY <1>5, <3>1, <3>2
  <2> QED BY <2>1, <2>2, <2>3
<1>6. ASSUME NEW q \in 1..Len(mid), Within(x, mid[q]) PROVE \E p \in 1..Len(s) : Within(x, s[p])
  <2> DEFINE p == q + i - 1
  <2>1. p \in 1..Len(s) /\ ~(p < i) /\ p < i + Len(mid) /\ p - i + 1 = q
    BY <1>1, <1>2
  <2> HIDE DEF p
  <2>2. s[p] = mid[q]
    BY <1>2, <2>1
  <2> QED BY <1>6, <2>1, <2>2
<1>7. ASSUME NEW k \in 1..Len(list), k < i, Within(x, list[k]) PROVE \E p \in 1..Len(s) : Within(x, s[p])
  <2>1. k \in 1..Len(s)
    BY <1>1, <1>2, <1>7
  <2>2. s[k] = list[k]
    BY <1>2, <1>7, <2>1
  <2> QED BY <1>7, <2>1, <2>2
<1>8. ASSUME NEW k \in 1..Len(list), k > j, Within(x, list[k]) PROVE \E p \in 1..Len(s) : Within(x, s[p])
  <2> DEFINE p == k + i - 1 + Len(mid) - j
  <2>1. p \in 1..Len(s) /\ ~(p < i) /\ ~(p < i + Len(mid)) /\ p - i + 1 - Len(mid) + j = k
    BY <1>1, <1>2, <1>8
  <2> HIDE DEF p
  <2>2. s[p] = list[k]
    BY <1>2, <2>1
  <2> QED BY <1>8, <2>1, <2>2
<1> HIDE DEF Within
<1> QED BY <1>3, <1>4, <1>5, <1>6, <1>7, <1>8 DEF s

LEMMA SplicedIsList ==
    ASSUME NEW list, IsList(list), NEW i \in 1..Len(list) + 1, NEW j \in i - 1..Len(list), NEW mid, IsList(mid),
           \A k \in 1..Len(list), q \in 1..Len(mid) : k < i => list[k].b + 1 < mid[q].a,
           \A k \in 1..Len(list), q \in 1..Len(mid) : k > j => mid[q].b + 1 < list[k].a
    PROVE  IsList(Intervals!Spliced(list, i, j, mid))
<1> DEFINE s == Intervals!Spliced(list, i, j, mid)
<1>1. list \in Seq(Ivals) /\ mid \in Seq(Ivals) /\ Len(list) \in Nat /\ Len(mid) \in Nat /\ i \in Int /\ j \in Int
  BY DEF IsList
<1>2. /\ s \in Seq(Ivals) /\ Len(s) = i - 1 + Len(mid) + Len(list) - j
      /\ \A p \in 1..Len(s) : s[p] = IF p < i THEN list[p] ELSE IF p < i + Len(mid) THEN mid[p - i + 1]
                                     ELSE list[p - i + 1 - Len(mid) + j]
  <2>1. list \in Seq(Ivals) /\ mid \in Seq(Ivals)
    BY <1>1
  <2>2. IsSpliced(s, list, i, j, mid)
    BY <2>1, SplicedAt
  <2> HIDE DEF s
  <2> QED BY <2>2, Zenon DEF IsSpliced
<1>3. /\ \A n \in 1..Len(list) : list[n].a <= list[n].b
      /\ \A m, n \in 1..Len(list) : m < n => list[m].b + 1 < list[n].a
  BY <1>1, ListIs DEF IsList
<1>4. /\ \A n \in 1..Len(mid) : mid[n].a <= mid[n].b
      /\ \A m, n \in 1..Len(mid) : m < n => mid[m].b + 1 < mid[n].a
  BY <1>1, ListIs DEF IsList
<1> HIDE DEF s
\* Where the p-th came from.
<1>5. ASSUME NEW p \in 1..Len(s)
      PROVE  \/ p < i /\ p \in 1..Len(list) /\ s[p] = list[p]
             \/ p >= i /\ p < i + Len(mid) /\ p - i + 1 \in 1..Len(mid) /\ s[p] = mid[p - i + 1]
             \/ /\ p >= i + Len(mid) /\ p - i + 1 - Len(mid) + j \in 1..Len(list)
                /\ p - i + 1 - Len(mid) + j > j /\ s[p] = list[p - i + 1 - Len(mid) + j]
  <2>1. CASE p < i
    BY <1>1, <1>2, <2>1
  <2>2. CASE ~(p < i) /\ p < i + Len(mid)
    <3>1. p - i + 1 \in 1..Len(mid)
      BY <1>1, <2>2
    <3> QED BY <1>1, <1>2, <2>2, <3>1
  <2>3. CASE ~(p < i) /\ ~(p < i + Len(mid))
    <3>1. p - i + 1 - Len(mid) + j \in 1..Len(list) /\ p - i + 1 - Len(mid) + j > j /\ p >= i + Len(mid)
      BY <1>1, <1>2, <2>3, SMTT(30)
    <3> QED BY <1>2, <2>3, <3>1
  <2> QED BY <2>1, <2>2, <2>3
<1>6. ASSUME NEW p \in 1..Len(s) PROVE s[p].a <= s[p].b
  BY <1>3, <1>4, <1>5
<1>7. ASSUME NEW p \in 1..Len(s), NEW q \in 1..Len(s), p < q PROVE s[p].b + 1 < s[q].a
  <2>1. CASE p < i
    <3>1. p \in 1..Len(list) /\ s[p] = list[p]
      BY <1>1, <1>5, <2>1
    <3>2. CASE q < i
      <4>1. q \in 1..Len(list) /\ s[q] = list[q]
        BY <1>1, <1>5, <3>2
      <4> QED BY <1>3, <1>7, <3>1, <4>1
    <3>3. CASE q >= i /\ q < i + Len(mid)
      <4>1. q - i + 1 \in 1..Len(mid) /\ s[q] = mid[q - i + 1]
        BY <1>1, <1>5, <3>3
      <4> QED BY <2>1, <3>1, <4>1
    <3>4. CASE q >= i + Len(mid)
      <4> DEFINE k == q - i + 1 - Len(mid) + j
      <4>1. k \in 1..Len(list) /\ k > j /\ s[q] = list[k]
        BY <1>1, <1>5, <3>4, SMTT(30)
      <4>2. p < k
        <5> HIDE DEF k
        <5> QED BY <1>1, <2>1, <4>1
      <4> HIDE DEF k
      <4> QED BY <1>3, <3>1, <4>1, <4>2
    <3> QED BY <1>1, <3>2, <3>3, <3>4
  <2>2. CASE p >= i /\ p < i + Len(mid)
    <3> DEFINE m == p - i + 1
    <3>1. m \in 1..Len(mid) /\ s[p] = mid[m]
      BY <1>1, <1>5, <2>2
    <3>2. CASE q < i + Len(mid)
      <4> DEFINE n == q - i + 1
      <4>1. n \in 1..Len(mid) /\ s[q] = mid[n] /\ m < n
        BY <1>1, <1>5, <1>7, <2>2, <3>2
      <4> HIDE DEF m, n
      <4> QED BY <1>4, <3>1, <4>1
    <3>3. CASE q >= i + Len(mid)
      <4> DEFINE k == q - i + 1 - Len(mid) + j
      <4>1. k \in 1..Len(list) /\ k > j /\ s[q] = list[k]
        BY <1>1, <1>5, <3>3, SMTT(30)
      <4> HIDE DEF m, k
      <4> QED BY <3>1, <4>1
    <3> QED BY <1>1, <3>2, <3>3
  <2>3. CASE p >= i + Len(mid)
    <3> DEFINE k == p - i + 1 - Len(mid) + j
               n == q - i + 1 - Len(mid) + j
    <3>1. k \in 1..Len(list) /\ s[p] = list[k]
      BY <1>1, <1>5, <2>3
    <3>2. n \in 1..Len(list) /\ s[q] = list[n] /\ k < n
      BY <1>1, <1>5, <1>7, <2>3
    <3> HIDE DEF k, n
    <3> QED BY <1>3, <3>1, <3>2
  <2> QED BY <1>1, <2>1, <2>2, <2>3
<1>8. Intervals!IsNormal(s)
  BY <1>2, <1>6, <1>7, ListIs
<1> QED BY <1>2, <1>8 DEF IsList, s

\* The first index of some, and what the largest is.
LEMMA FirstIs ==
    ASSUME NEW n \in Nat, NEW I \in SUBSET (1..n), NEW i, i = IF I # {} THEN Intervals!Min(I) ELSE 0
    PROVE  \/ i = 0 /\ I = {}
           \/ i \in I /\ \A j \in 1..n : j < i => j \notin I
<1>1. I \subseteq Nat
  OBVIOUS
<1>2. CASE I # {}
  <2>1. Intervals!Min(I) \in I /\ \A y \in I : Intervals!Min(I) <= y
    <3>1. \E x \in I : \A y \in I : x <= y
      BY <1>1, <1>2, LeastNumber
    <3> QED BY <3>1, Zenon DEF Intervals!Min
  <2>2. i \in I /\ \A y \in I : i <= y
    BY <1>2, <2>1
  <2>3. \A j \in 1..n : j < i => ~(i <= j)
    BY <2>2
  <2> QED BY <2>2, <2>3
<1> QED BY <1>2

LEMMA LargestIs ==
    ASSUME NEW n \in Nat, NEW I \in SUBSET (1..n), I # {}
    PROVE  Intervals!Max(I) \in I /\ \A y \in I : Intervals!Max(I) >= y
<1> DEFINE J == {n - y : y \in I}
<1>1. J \subseteq Nat /\ J # {}
  <2>1. \A y \in I : n - y \in Nat
    OBVIOUS
  <2> QED BY <2>1
<1>2. PICK x \in J : \A y \in J : x <= y
  BY <1>1, LeastNumber
<1>3. PICK m \in I : x = n - m
  BY <1>2
<1>4. \A y \in I : m >= y
  <2> SUFFICES ASSUME NEW y \in I PROVE m >= y
    OBVIOUS
  <2>1. n - y \in J
    OBVIOUS
  <2>2. n - m <= n - y
    BY <1>2, <1>3, <2>1
  <2> QED BY <2>2
<1> HIDE DEF J
<1> QED BY <1>4, Zenon DEF Intervals!Max

\* An extreme of a set of integers is found whatever the set is.
LEMMA ExtremesAre ==
    ASSUME NEW S, S \subseteq Int, NEW x \in S
    PROVE  /\ (\A y \in S : x <= y) => Intervals!Min(S) = x
           /\ (\A y \in S : x >= y) => Intervals!Max(S) = x
<1>1. ASSUME \A y \in S : x <= y PROVE Intervals!Min(S) = x
  <2>1. Intervals!Min(S) \in S /\ \A y \in S : Intervals!Min(S) <= y
    BY <1>1, Zenon DEF Intervals!Min
  <2>2. x <= Intervals!Min(S) /\ Intervals!Min(S) <= x /\ x \in Int /\ Intervals!Min(S) \in Int
    BY <1>1, <2>1
  <2> QED BY <2>2
<1>2. ASSUME \A y \in S : x >= y PROVE Intervals!Max(S) = x
  <2>1. Intervals!Max(S) \in S /\ \A y \in S : Intervals!Max(S) >= y
    BY <1>2, Zenon DEF Intervals!Max
  <2>2. x >= Intervals!Max(S) /\ Intervals!Max(S) >= x /\ x \in Int /\ Intervals!Max(S) \in Int
    BY <1>2, <2>1
  <2> QED BY <2>2
<1> QED BY <1>1, <1>2

\* The union and the intersection of two intervals, end by end.
LEMMA EndsAre ==
    ASSUME NEW r \in Ivals, NEW s \in Ivals
    PROVE  /\ Intervals!Union2(r, s) = [a |-> IF r.a <= s.a THEN r.a ELSE s.a, b |-> IF r.b <= s.b THEN s.b ELSE r.b]
           /\ Intervals!Intersection(r, s) = [a |-> IF r.a <= s.a THEN s.a ELSE r.a, b |-> IF r.b <= s.b THEN r.b ELSE s.b]
           /\ Intervals!Union2(r, s) \in Ivals /\ Intervals!Intersection(r, s) \in Ivals
<1>1. r.a \in Int /\ r.b \in Int /\ s.a \in Int /\ s.b \in Int
  BY DEF Ivals
<1>2. ASSUME NEW x \in Int, NEW y \in Int
      PROVE  /\ Intervals!Min({x, y}) = IF x <= y THEN x ELSE y
             /\ Intervals!Max({x, y}) = IF x <= y THEN y ELSE x
  <2>1. {x, y} \subseteq Int /\ x \in {x, y} /\ y \in {x, y}
    OBVIOUS
  <2>2. CASE x <= y
    <3>1. (\A z \in {x, y} : x <= z) /\ (\A z \in {x, y} : y >= z)
      BY <2>2
    <3> QED BY <2>1, <2>2, <3>1, ExtremesAre
  <2>3. CASE ~(x <= y)
    <3>1. (\A z \in {x, y} : y <= z) /\ (\A z \in {x, y} : x >= z)
      BY <2>3
    <3> QED BY <2>1, <2>3, <3>1, ExtremesAre
  <2> QED BY <2>2, <2>3
<1>3. /\ Intervals!Union2(r, s) = [a |-> IF r.a <= s.a THEN r.a ELSE s.a, b |-> IF r.b <= s.b THEN s.b ELSE r.b]
      /\ Intervals!Intersection(r, s) = [a |-> IF r.a <= s.a THEN s.a ELSE r.a, b |-> IF r.b <= s.b THEN r.b ELSE s.b]
  BY <1>1, <1>2 DEF Intervals!Union2, Intervals!Intersection, Intervals!Interval
<1> QED BY <1>1, <1>3 DEF Ivals

\* What it is to touch an interval, or to come before it.
LEMMA TouchingIs ==
    ASSUME NEW r \in Ivals, NEW s \in Ivals, r.a <= r.b, s.a <= s.b
    PROVE  /\ Intervals!Touching(r, s) <=> r.a <= s.b + 1 /\ s.a <= r.b + 1
           /\ Intervals!StartsBeforeDisjoint(r, s) <=> r.b < s.a
BY DEF Ivals, Intervals!Touching, Intervals!Adjacent, Intervals!Disjoint, Intervals!StartsBeforeDisjoint,
       Intervals!StartsAfterDisjoint

\* A list of one interval.
LEMMA OneIs ==
    ASSUME NEW r \in Ivals, r.a <= r.b
    PROVE  /\ IsList(<<r>>) /\ Len(<<r>>) = 1 /\ \A k \in 1..Len(<<r>>) : <<r>>[k] = r
           /\ \A x : x \in Intervals!Denoted(<<r>>) <=> x \in Int /\ Within(x, r)
<1> DEFINE l == <<r>>
<1>1. l \in Seq(Ivals) /\ Len(l) = 1 /\ \A k \in 1..1 : l[k] = r
  OBVIOUS
<1> HIDE DEF l
<1>2. Intervals!IsNormal(l)
  BY <1>1, ListIs
<1>3. ASSUME NEW x PROVE x \in Intervals!Denoted(l) <=> x \in Int /\ Within(x, r)
  <2>1. x \in Intervals!Denoted(l) <=> x \in Int /\ \E n \in 1..1 : Within(x, l[n])
    BY <1>1, DenotedIs
  <2> QED BY <1>1, <2>1
<1> QED BY <1>1, <1>2, <1>3 DEF l, IsList

\* What a list has.
LEMMA ListHas ==
    ASSUME NEW list, IsList(list)
    PROVE  /\ list \in Seq(Ivals) /\ Len(list) \in Nat
           /\ \A k \in 1..Len(list) : list[k] \in Ivals /\ list[k].a \in Int /\ list[k].b \in Int /\ list[k].a <= list[k].b
           /\ \A j, k \in 1..Len(list) : j < k => list[j].b + 1 < list[k].a
<1>1. list \in Seq(Ivals) /\ Len(list) \in Nat
  BY DEF IsList
<1>2. \A k \in 1..Len(list) : list[k] \in Ivals
  BY <1>1
<1>3. /\ \A k \in 1..Len(list) : list[k].a <= list[k].b
      /\ \A j, k \in 1..Len(list) : j < k => list[j].b + 1 < list[k].a
  BY <1>1, ListIs, Zenon DEF IsList
<1> QED BY <1>1, <1>2, <1>3 DEF Ivals

\* An interval that touches the i-th, and no earlier one, takes in those it reaches.
LEMMA MergedIs ==
    ASSUME NEW list, IsList(list), NEW new \in Ivals, new.a <= new.b,
           NEW i \in 1..Len(list), Intervals!Touching(new, list[i]),
           \A k \in 1..Len(list) : k < i => list[k].b + 1 < new.a,
           NEW s, s = Intervals!Merged(list, i, Intervals!Union2(new, list[i]))
    PROVE  /\ IsList(s)
           /\ \A x : x \in Intervals!Denoted(s) <=> x \in Intervals!Denoted(list) \/ (x \in Int /\ Within(x, new))
<1> DEFINE n == Len(list)
           bigger  == Intervals!Union2(new, list[i])
           reached == {j \in i + 1..n : \A k \in i + 1..j : Intervals!Touching(bigger, list[k])}
           last    == IF reached = {} THEN i ELSE Intervals!Max(reached)
           stored  == IF reached = {} THEN bigger ELSE Intervals!Union2(bigger, list[last])
<1>1. /\ list \in Seq(Ivals) /\ n \in Nat
      /\ \A k \in 1..n : list[k] \in Ivals /\ list[k].a \in Int /\ list[k].b \in Int /\ list[k].a <= list[k].b
      /\ \A j, k \in 1..n : j < k => list[j].b + 1 < list[k].a
  BY ListHas
<1>2. new.a \in Int /\ new.b \in Int /\ i \in Int /\ list[i] \in Ivals /\ i \in 1..n
  BY <1>1 DEF Ivals
<1>3. new.a <= list[i].b + 1 /\ list[i].a <= new.b + 1
  BY <1>1, <1>2, TouchingIs
<1>4. /\ bigger \in Ivals /\ bigger.a \in Int /\ bigger.b \in Int
      /\ bigger.a = IF new.a <= list[i].a THEN new.a ELSE list[i].a
      /\ bigger.b = IF new.b <= list[i].b THEN list[i].b ELSE new.b
      /\ bigger.a <= bigger.b
  <2>1. /\ bigger \in Ivals
        /\ bigger = [a |-> IF new.a <= list[i].a THEN new.a ELSE list[i].a, b |-> IF new.b <= list[i].b THEN list[i].b ELSE new.b]
    BY <1>2, EndsAre
  <2> HIDE DEF bigger
  <2> QED BY <1>1, <1>2, <2>1
<1>5. s = Intervals!Spliced(list, i, last, <<stored>>)
  BY Zenon DEF Intervals!Merged
<1> HIDE DEF bigger
<1>6. \A k \in 1..n : Intervals!Touching(bigger, list[k]) <=> bigger.a <= list[k].b + 1 /\ list[k].a <= bigger.b + 1
  BY <1>1, <1>4, TouchingIs
<1>7. /\ last \in i..n
      /\ \A k \in i + 1..last : list[k].a <= bigger.b + 1
      /\ \A k \in 1..n : k > last => bigger.b + 1 < list[k].a
  <2>1. reached \in SUBSET (1..n)
    BY <1>1, <1>2
  <2>2. ASSUME NEW k \in i + 1..n PROVE k \in reached <=> \A h \in i + 1..k : list[h].a <= bigger.b + 1
    <3>1. \A h \in i + 1..k : h \in 1..n /\ bigger.a <= list[h].b + 1
      <4> SUFFICES ASSUME NEW h \in i + 1..k PROVE h \in 1..n /\ bigger.a <= list[h].b + 1
        OBVIOUS
      <4>1. h \in 1..n /\ i < h
        BY <1>1, <1>2
      <4>2. list[i].b + 1 < list[h].a /\ list[h].a <= list[h].b /\ list[i].a <= list[i].b
        BY <1>1, <1>2, <4>1
      <4>3. bigger.a <= list[i].a
        BY <1>1, <1>2, <1>4
      <4> HIDE DEF reached, last, stored
      <4>4. list[i].a \in Int /\ list[i].b \in Int /\ list[h].a \in Int /\ list[h].b \in Int /\ bigger.a \in Int
        BY <1>1, <1>2, <1>4, <4>1
      <4> QED BY <4>1, <4>2, <4>3, <4>4, SMTT(30)
    <3> QED BY <1>6, <3>1
  <2>3. CASE reached = {}
    <3>1. last = i
      BY <2>3
    <3>2. ASSUME NEW k \in 1..n, k > i PROVE bigger.b + 1 < list[k].a
      <4>1. i + 1 \in i + 1..n /\ i + 1 \in 1..n /\ (k = i + 1 \/ i + 1 < k)
        BY <1>1, <1>2, <3>2
      <4>2. ~(list[i + 1].a <= bigger.b + 1)
        <5>1. \A h \in i + 1..i + 1 : h = i + 1
          BY <1>2
        <5> QED BY <2>2, <2>3, <4>1, <5>1
      <4>3. list[i + 1].a <= list[k].a
        BY <1>1, <4>1, SMTT(30)
      <4> HIDE DEF reached, last, stored
      <4>4. list[i + 1].a \in Int /\ list[k].a \in Int /\ bigger.b \in Int
        BY <1>1, <1>4, <4>1
      <4> QED BY <4>2, <4>3, <4>4
    <3> HIDE DEF last, reached, stored
    <3> QED BY <1>1, <1>2, <3>1, <3>2
  <2>4. CASE reached # {}
    <3>1. last \in reached /\ \A y \in reached : last >= y
      <4>1. last = Intervals!Max(reached)
        BY <2>4
      <4> HIDE DEF last, reached
      <4> QED BY <1>1, <2>1, <2>4, <4>1, LargestIs
    <3>2. last \in i + 1..n
      BY <3>1
    <3> HIDE DEF last, reached
    <3>3. \A k \in i + 1..last : list[k].a <= bigger.b + 1
      BY <2>2, <3>1, <3>2
    <3>4. ASSUME NEW k \in 1..n, k > last PROVE bigger.b + 1 < list[k].a
      <4> DEFINE m == last + 1
      <4>1. m \in i + 1..n /\ m \in 1..n /\ (k = m \/ m < k) /\ ~(last >= m)
        BY <1>1, <1>2, <3>2, <3>4
      <4>2. \A h \in i + 1..m : h \in i + 1..last \/ h = m
        BY <1>2, <3>2
      <4> HIDE DEF m
      <4>3. m \notin reached
        BY <3>1, <4>1
      <4>4. ~(list[m].a <= bigger.b + 1)
        BY <2>2, <3>3, <4>1, <4>2, <4>3
      <4>5. list[m].a <= list[k].a
        BY <1>1, <4>1
      <4> QED BY <1>1, <1>4, <4>1, <4>4, <4>5
    <3> QED BY <1>1, <1>2, <3>2, <3>3, <3>4
  <2> QED BY <2>3, <2>4
<1>8. /\ stored \in Ivals /\ stored.a \in Int /\ stored.b \in Int /\ stored.a <= stored.b
      /\ stored.a = bigger.a /\ stored.b = IF bigger.b <= list[last].b THEN list[last].b ELSE bigger.b
  <2>1. last \in 1..n
    BY <1>1, <1>2, <1>7
  <2>2. list[i].a <= list[last].a
    <3>1. i = last \/ i < last
      BY <1>2, <1>7
    <3> HIDE DEF last
    <3> QED BY <1>1, <1>2, <2>1, <3>1
  <2>3. CASE reached = {}
    <3>1. stored = bigger /\ last = i
      BY <2>3
    <3> HIDE DEF stored, last, reached
    <3> QED BY <1>1, <1>2, <1>4, <3>1
  <2>4. CASE reached # {}
    <3>1. stored = Intervals!Union2(bigger, list[last])
      BY <2>4
    <3> HIDE DEF stored, last, reached
    <3>2. list[last] \in Ivals
      BY <1>1, <2>1
    <3>3. /\ stored \in Ivals
          /\ stored = [a |-> IF bigger.a <= list[last].a THEN bigger.a ELSE list[last].a,
                       b |-> IF bigger.b <= list[last].b THEN list[last].b ELSE bigger.b]
      BY <1>4, <3>1, <3>2, EndsAre
    <3>4. bigger.a <= list[last].a
      BY <1>1, <1>2, <1>4, <2>1, <2>2
    <3> QED BY <1>1, <1>4, <2>1, <3>3, <3>4
  <2> QED BY <2>3, <2>4
<1> HIDE DEF stored, reached, last
<1>9. IsList(<<stored>>) /\ Len(<<stored>>) = 1 /\ (\A k \in 1..Len(<<stored>>) : <<stored>>[k] = stored)
      /\ \A x : x \in Intervals!Denoted(<<stored>>) <=> x \in Int /\ Within(x, stored)
  BY <1>8, OneIs
<1>10. i \in 1..n + 1 /\ last \in i - 1..n /\ <<stored>> \in Seq(Ivals)
  BY <1>1, <1>2, <1>7, <1>8
<1>11. IsList(s)
  <2>1. ASSUME NEW k \in 1..n, k < i PROVE list[k].b + 1 < stored.a
    BY <1>1, <1>2, <1>4, <1>8, <2>1
  <2>2. ASSUME NEW k \in 1..n, k > last PROVE stored.b + 1 < list[k].a
    <3>1. last \in 1..n
      BY <1>1, <1>2, <1>7
    <3> QED BY <1>1, <1>4, <1>7, <1>8, <2>2, <3>1
  <2>3. /\ \A k \in 1..n, q \in 1..Len(<<stored>>) : k < i => list[k].b + 1 < <<stored>>[q].a
        /\ \A k \in 1..n, q \in 1..Len(<<stored>>) : k > last => <<stored>>[q].b + 1 < list[k].a
    BY <1>9, <2>1, <2>2
  <2> QED BY <1>5, <1>9, <1>10, <2>3, SplicedIsList
<1>12. ASSUME NEW x PROVE x \in Intervals!Denoted(s) <=> x \in Intervals!Denoted(list) \/ (x \in Int /\ Within(x, new))
  <2>1. x \in Intervals!Denoted(s) <=>
          \/ x \in Int /\ Within(x, stored)
          \/ x \in Int /\ \E k \in 1..n : (k < i \/ k > last) /\ Within(x, list[k])
    BY <1>1, <1>5, <1>9, <1>10, SplicedDenotes
  <2>2. x \in Intervals!Denoted(list) <=> x \in Int /\ \E k \in 1..n : Within(x, list[k])
    BY <1>1, DenotedIs
  <2>3. last \in 1..n /\ last \in Int
    BY <1>1, <1>2, <1>7
  <2>4. ASSUME x \in Int, Within(x, stored)
        PROVE  Within(x, new) \/ \E k \in 1..n : Within(x, list[k])
    <3>1. CASE x <= bigger.b
      <4>1. Within(x, new) \/ Within(x, list[i])
        BY <1>1, <1>2, <1>3, <1>4, <1>8, <2>4, <3>1 DEF Within
      <4> QED BY <1>2, <4>1
    <3>2. CASE ~(x <= bigger.b)
      <4>1. list[last].a <= bigger.b + 1
        <5>1. CASE last = i
          BY <1>1, <1>2, <1>4, <5>1
        <5>2. CASE last # i
          <6>1. last \in i + 1..last
            BY <1>2, <1>7, <5>2
          <6> QED BY <1>7, <6>1
        <5> QED BY <5>1, <5>2
      <4>2. Within(x, list[last])
        BY <1>1, <1>4, <1>8, <2>3, <2>4, <3>2, <4>1 DEF Within
      <4> QED BY <2>3, <4>2
    <3> QED BY <3>1, <3>2
  <2>5. ASSUME x \in Int, NEW k \in 1..n, ~(k < i), ~(k > last), Within(x, list[k]) PROVE Within(x, stored)
    <3>1. list[i].a <= list[k].a /\ list[k].b <= list[last].b
      <4>1. (k = i \/ i < k) /\ (k = last \/ k < last)
        <5>1. k \in Int
          OBVIOUS
        <5> QED BY <1>2, <2>3, <2>5, <5>1
      <4>2. list[i].a <= list[k].a
        BY <1>1, <1>2, <4>1
      <4>3. list[k].b <= list[last].b
        BY <1>1, <2>3, <4>1
      <4> QED BY <4>2, <4>3
    <3>2. bigger.a <= list[i].a /\ list[last].b <= stored.b
      BY <1>1, <1>2, <1>4, <1>8, <2>3
    <3>3. /\ list[i].a \in Int /\ list[k].a \in Int /\ list[k].b \in Int /\ list[last].b \in Int
          /\ stored.a = bigger.a /\ bigger.a \in Int /\ stored.b \in Int
      BY <1>1, <1>2, <1>4, <1>8, <2>3
    <3> QED BY <2>5, <3>1, <3>2, <3>3, SMTT(30) DEF Within
  <2>6. ASSUME x \in Int, Within(x, new) PROVE Within(x, stored)
    BY <1>1, <1>2, <1>4, <1>8, <2>3, <2>6, SMTT(30) DEF Within
  <2> HIDE DEF n
  <2> QED BY <2>1, <2>2, <2>4, <2>5, <2>6
<1> QED BY <1>11, <1>12

\* add puts an interval in, and is right about where.
LEMMA AddedIs ==
    ASSUME NEW list, IsList(list), NEW new \in Ivals, NEW s, s = Intervals!Added(list, new)
    PROVE  /\ IsList(s)
           /\ \A x : x \in Intervals!Denoted(s) <=> x \in Intervals!Denoted(list) \/ (x \in Int /\ Within(x, new))
<1> DEFINE n == Len(list)
           Stops(r) == new = r \/ Intervals!Touching(new, r) \/ Intervals!StartsBeforeDisjoint(new, r)
           I == {k \in 1..n : Stops(list[k])}
           i == IF I # {} THEN Intervals!Min(I) ELSE 0
<1>1. /\ list \in Seq(Ivals) /\ n \in Nat
      /\ \A k \in 1..n : list[k] \in Ivals /\ list[k].a \in Int /\ list[k].b \in Int /\ list[k].a <= list[k].b
      /\ \A j, k \in 1..n : j < k => list[j].b + 1 < list[k].a
  BY ListHas
<1>2. new.a \in Int /\ new.b \in Int
  BY DEF Ivals
<1>3. CASE new.b < new.a
  <2>1. s = list
    BY <1>3 DEF Intervals!Added
  <2>2. \A x \in Int : ~Within(x, new)
    BY <1>2, <1>3 DEF Within
  <2> QED BY <2>1, <2>2
<1>4. CASE ~(new.b < new.a)
  <2>1. new.a <= new.b
    BY <1>2, <1>4
  <2>2. s = IF i = 0 THEN Append(list, new)
            ELSE IF new = list[i] THEN list
            ELSE IF Intervals!Touching(new, list[i]) THEN Intervals!Merged(list, i, Intervals!Union2(new, list[i]))
            ELSE Intervals!Spliced(list, i, i - 1, <<new>>)
    BY <1>4, Zenon DEF Intervals!Added, Intervals!Insert, Intervals!SelectInSeq
  <2>3. \/ i = 0 /\ I = {}
        \/ i \in I /\ \A j \in 1..n : j < i => j \notin I
    <3>1. I \in SUBSET (1..n)
      OBVIOUS
    <3> HIDE DEF I
    <3> QED BY <1>1, <3>1, FirstIs
  <2>4. ASSUME NEW k \in 1..n PROVE (k \notin I => list[k].b + 1 < new.a) /\ (new = list[k] => k \in I)
    <3>1. /\ Intervals!Touching(new, list[k]) <=> new.a <= list[k].b + 1 /\ list[k].a <= new.b + 1
          /\ Intervals!StartsBeforeDisjoint(new, list[k]) <=> new.b < list[k].a
      BY <1>1, <2>1, TouchingIs
    <3> QED BY <1>1, <1>2, <2>1, <3>1
  <2>5. ASSUME NEW k \in 1..n, k \in I, ~Intervals!Touching(new, list[k]), new # list[k] PROVE new.b + 1 < list[k].a
    <3>1. /\ Intervals!Touching(new, list[k]) <=> new.a <= list[k].b + 1 /\ list[k].a <= new.b + 1
          /\ Intervals!StartsBeforeDisjoint(new, list[k]) <=> new.b < list[k].a
      BY <1>1, <2>1, TouchingIs
    <3> QED BY <1>1, <1>2, <2>1, <2>5, <3>1
  <2> HIDE DEF I, i
  <2>6. /\ IsList(<<new>>) /\ <<new>> \in Seq(Ivals) /\ Len(<<new>>) = 1 /\ \A k \in 1..Len(<<new>>) : <<new>>[k] = new
        /\ \A x : x \in Intervals!Denoted(<<new>>) <=> x \in Int /\ Within(x, new)
    BY <2>1, OneIs
  <2>7. CASE i = 0
    <3>1. PICK p : p = n + 1
      OBVIOUS
    <3>2. p \in 1..n + 1 /\ n \in p - 1..n /\ p \in Int
      BY <1>1, <3>1
    <3>3. s = Intervals!Spliced(list, p, n, <<new>>)
      <4>1. s = Append(list, new)
        BY <2>2, <2>7
      <4>2. SubSeq(list, 1, p - 1) = list /\ SubSeq(list, n + 1, Len(list)) = <<>>
        BY <1>1, <3>1
      <4>3. Append(list, new) = list \o <<new>> \o <<>>
        BY <1>1
      <4> QED BY <4>1, <4>2, <4>3 DEF Intervals!Spliced
    <3>4. \A k \in 1..n : list[k].b + 1 < new.a
      <4>1. 0 \notin I
        BY DEF I
      <4>2. I = {}
        BY <2>3, <2>7, <4>1
      <4> QED BY <2>4, <4>2
    <3>5. IsList(s)
      <4>1. /\ \A k \in 1..n, q \in 1..Len(<<new>>) : k < p => list[k].b + 1 < <<new>>[q].a
            /\ \A k \in 1..n, q \in 1..Len(<<new>>) : k > n => <<new>>[q].b + 1 < list[k].a
        BY <1>1, <2>6, <3>4
      <4> QED BY <2>6, <3>2, <3>3, <4>1, SplicedIsList
    <3>6. ASSUME NEW x PROVE x \in Intervals!Denoted(s) <=> x \in Intervals!Denoted(list) \/ (x \in Int /\ Within(x, new))
      <4>1. x \in Intervals!Denoted(s) <=>
              \/ x \in Int /\ Within(x, new)
              \/ x \in Int /\ \E k \in 1..n : (k < p \/ k > n) /\ Within(x, list[k])
        BY <1>1, <2>6, <3>2, <3>3, SplicedDenotes
      <4>2. x \in Intervals!Denoted(list) <=> x \in Int /\ \E k \in 1..n : Within(x, list[k])
        BY <1>1, DenotedIs
      <4>3. \A k \in 1..n : k < p
        BY <1>1, <3>1
      <4> QED BY <4>1, <4>2, <4>3
    <3> QED BY <3>5, <3>6
  <2>8. CASE i # 0
    <3>1. i \in 1..n /\ i \in I /\ \A k \in 1..n : k < i => list[k].b + 1 < new.a
      BY <2>3, <2>4, <2>8 DEF I
    <3>2. CASE new = list[i]
      <4>1. s = list
        BY <2>2, <2>8, <3>2
      <4>2. ASSUME NEW x \in Int, Within(x, new) PROVE x \in Intervals!Denoted(list)
        BY <1>1, <3>1, <3>2, <4>2, DenotedIs
      <4> QED BY <4>1, <4>2
    <3>3. CASE new # list[i] /\ Intervals!Touching(new, list[i])
      <4>1. s = Intervals!Merged(list, i, Intervals!Union2(new, list[i]))
        BY <2>2, <2>8, <3>3
      <4> QED BY <2>1, <3>1, <3>3, <4>1, MergedIs
    <3>4. CASE new # list[i] /\ ~Intervals!Touching(new, list[i])
      <4>1. s = Intervals!Spliced(list, i, i - 1, <<new>>)
        BY <2>2, <2>8, <3>4
      <4>2. i \in 1..n + 1 /\ i - 1 \in i - 1..n
        BY <1>1, <3>1
      <4>3. new.b + 1 < list[i].a
        BY <2>5, <3>1, <3>4
      <4>4. \A k \in 1..n : k > i - 1 => new.b + 1 < list[k].a
        <5> SUFFICES ASSUME NEW k \in 1..n, k > i - 1 PROVE new.b + 1 < list[k].a
          OBVIOUS
        <5>1. k = i \/ i < k
          BY <3>1
        <5>2. list[i].a <= list[k].a
          BY <1>1, <3>1, <5>1
        <5> QED BY <1>1, <1>2, <3>1, <4>3, <5>2
      <4>5. IsList(s)
        <5>1. /\ \A k \in 1..n, q \in 1..Len(<<new>>) : k < i => list[k].b + 1 < <<new>>[q].a
              /\ \A k \in 1..n, q \in 1..Len(<<new>>) : k > i - 1 => <<new>>[q].b + 1 < list[k].a
          BY <2>6, <3>1, <4>4
        <5> QED BY <2>6, <4>1, <4>2, <5>1, SplicedIsList
      <4>6. ASSUME NEW x PROVE x \in Intervals!Denoted(s) <=> x \in Intervals!Denoted(list) \/ (x \in Int /\ Within(x, new))
        <5>1. x \in Intervals!Denoted(s) <=>
                \/ x \in Int /\ Within(x, new)
                \/ x \in Int /\ \E k \in 1..n : (k < i \/ k > i - 1) /\ Within(x, list[k])
          BY <1>1, <2>6, <4>1, <4>2, SplicedDenotes
        <5>2. x \in Intervals!Denoted(list) <=> x \in Int /\ \E k \in 1..n : Within(x, list[k])
          BY <1>1, DenotedIs
        <5>3. \A k \in 1..n : k < i \/ k > i - 1
          BY <1>1, <3>1
        <5> QED BY <5>1, <5>2, <5>3
      <4> QED BY <4>5, <4>6
    <3> QED BY <3>2, <3>3, <3>4
  <2> QED BY <2>7, <2>8
<1> QED BY <1>3, <1>4

\* What x is in when it is in a list: one interval at most.
LEMMA AlikeIs ==
    ASSUME NEW list, IsList(list), NEW x \in Int, NEW i \in 1..Len(list), Within(x, list[i])
    PROVE  \A k \in 1..Len(list) : Within(x, list[k]) <=> k = i
<1> SUFFICES ASSUME NEW k \in 1..Len(list), Within(x, list[k]), k # i PROVE FALSE
  OBVIOUS
<1>1. (k < i \/ i < k) /\ k \in Int /\ i \in Int
  OBVIOUS
<1> QED BY <1>1, ListHas DEF Within

\* What is put in the place of an interval.
LEMMA InsteadIs ==
    ASSUME NEW list, IsList(list), NEW i \in 1..Len(list), NEW mid, IsList(mid),
           \A q \in 1..Len(mid) : list[i].a <= mid[q].a /\ mid[q].b <= list[i].b,
           NEW s, s = Intervals!Spliced(list, i, i, mid)
    PROVE  /\ IsList(s)
           /\ \A x : x \in Intervals!Denoted(s) <=>
                       \/ x \in Intervals!Denoted(mid)
                       \/ x \in Intervals!Denoted(list) /\ ~Within(x, list[i])
<1> DEFINE n == Len(list)
<1>1. /\ list \in Seq(Ivals) /\ n \in Nat
      /\ \A k \in 1..n : list[k] \in Ivals /\ list[k].a \in Int /\ list[k].b \in Int /\ list[k].a <= list[k].b
      /\ \A j, k \in 1..n : j < k => list[j].b + 1 < list[k].a
  BY ListHas
<1>2. /\ mid \in Seq(Ivals) /\ Len(mid) \in Nat
      /\ \A q \in 1..Len(mid) : mid[q].a \in Int /\ mid[q].b \in Int
  BY ListHas
<1>3. i \in 1..n + 1 /\ i \in i - 1..n /\ i \in Int
  BY <1>1
<1>4. IsList(s)
  <2>1. ASSUME NEW k \in 1..n, NEW q \in 1..Len(mid), k < i PROVE list[k].b + 1 < mid[q].a
    BY <1>1, <1>2, <2>1, SMTT(30)
  <2>2. ASSUME NEW k \in 1..n, NEW q \in 1..Len(mid), k > i PROVE mid[q].b + 1 < list[k].a
    BY <1>1, <1>2, <2>2, SMTT(30)
  <2> QED BY <1>3, <2>1, <2>2, SplicedIsList
<1>5. ASSUME NEW x
      PROVE  x \in Intervals!Denoted(s) <=>
                \/ x \in Intervals!Denoted(mid)
                \/ x \in Intervals!Denoted(list) /\ ~Within(x, list[i])
  <2>1. x \in Intervals!Denoted(s) <=>
          \/ x \in Intervals!Denoted(mid)
          \/ x \in Int /\ \E k \in 1..n : (k < i \/ k > i) /\ Within(x, list[k])
    BY <1>1, <1>2, <1>3, SplicedDenotes
  <2>2. x \in Intervals!Denoted(list) <=> x \in Int /\ \E k \in 1..n : Within(x, list[k])
    BY <1>1, DenotedIs
  <2>3. ASSUME x \in Int, Within(x, list[i]) PROVE \A k \in 1..n : Within(x, list[k]) <=> k = i
    BY <2>3, AlikeIs
  <2>4. \A k \in 1..n : (k < i \/ k > i) <=> k # i
    BY <1>3
  <2> QED BY <2>1, <2>2, <2>3, <2>4
<1> QED BY <1>4, <1>5

\* The empty list.
LEMMA NoneIs == IsList(<<>>) /\ Len(<<>>) = 0 /\ \A x : x \notin Intervals!Denoted(<<>>)
<1>1. <<>> \in Seq(Ivals) /\ Len(<<>>) = 0
  OBVIOUS
<1>2. 1..0 = {}
  OBVIOUS
<1>3. Intervals!IsNormal(<<>>)
  BY <1>1, <1>2, ListIs
<1>4. \A x : x \notin Intervals!Denoted(<<>>)
  BY <1>1, <1>2, DenotedIs
<1> QED BY <1>1, <1>3, <1>4 DEF IsList

\* remove takes an element out.
LEMMA RemovedIs ==
    ASSUME NEW list, IsList(list), NEW el \in Int, NEW s, s = Intervals!Removed(list, el)
    PROVE  /\ IsList(s)
           /\ \A x : x \in Intervals!Denoted(s) <=> x \in Intervals!Denoted(list) /\ x # el
<1> DEFINE n == Len(list)
           Stops(r) == el < r.a \/ el <= r.b
           I == {k \in 1..n : Stops(list[k])}
           i == IF I # {} THEN Intervals!Min(I) ELSE 0
           r == list[i]
<1>1. /\ list \in Seq(Ivals) /\ n \in Nat
      /\ \A k \in 1..n : list[k] \in Ivals /\ list[k].a \in Int /\ list[k].b \in Int /\ list[k].a <= list[k].b
      /\ \A j, k \in 1..n : j < k => list[j].b + 1 < list[k].a
  BY ListHas
<1>2. s = IF i = 0 THEN list
          ELSE IF el < r.a THEN list
          ELSE IF r.a = r.b THEN Intervals!Spliced(list, i, i, <<>>)
          ELSE IF el = r.a THEN Intervals!Spliced(list, i, i, <<Intervals!Interval(el + 1, r.b)>>)
          ELSE IF el = r.b THEN Intervals!Spliced(list, i, i, <<Intervals!Interval(r.a, el - 1)>>)
          ELSE Intervals!Added(Intervals!Spliced(list, i, i, <<Intervals!Interval(r.a, el - 1)>>), Intervals!Interval(el + 1, r.b))
  BY Zenon DEF Intervals!Removed, Intervals!SelectInSeq
<1>3. \/ i = 0 /\ I = {}
      \/ i \in I /\ \A j \in 1..n : j < i => j \notin I
  <2>1. I \in SUBSET (1..n)
    OBVIOUS
  <2> HIDE DEF I
  <2> QED BY <1>1, <2>1, FirstIs
<1>4. \A k \in 1..n : k \in I <=> el <= list[k].b
  BY <1>1
<1>5. el \in Intervals!Denoted(list) <=> \E k \in 1..n : Within(el, list[k])
  BY <1>1, DenotedIs
<1>6. 0 \notin I /\ I \subseteq 1..n
  OBVIOUS
<1> HIDE DEF I, i
<1>7. CASE i = 0
  <2>1. s = list
    BY <1>2, <1>7
  <2>2. \A k \in 1..n : ~Within(el, list[k])
    BY <1>1, <1>3, <1>4, <1>6, <1>7 DEF Within
  <2> QED BY <1>5, <2>1, <2>2
<1>8. CASE i # 0
  <2>1. i \in 1..n /\ el <= r.b /\ \A k \in 1..n : k < i => ~(el <= list[k].b)
    BY <1>3, <1>4, <1>6, <1>8
  <2>2. r \in Ivals /\ r.a \in Int /\ r.b \in Int /\ r.a <= r.b
    BY <1>1, <2>1
  <2> DEFINE Low == Intervals!Interval(r.a, el - 1)
             High == Intervals!Interval(el + 1, r.b)
  <2>3. Low \in Ivals /\ Low.a = r.a /\ Low.b = el - 1 /\ High \in Ivals /\ High.a = el + 1 /\ High.b = r.b
    BY <2>2 DEF Intervals!Interval, Ivals
  <2> HIDE DEF Low, High
  <2>4. CASE el < r.a
    <3>1. s = list
      BY <1>2, <1>8, <2>4
    <3>2. ASSUME NEW k \in 1..n, Within(el, list[k]) PROVE FALSE
      <4>1. k < i \/ k = i \/ i < k
        BY <2>1
      <4>2. r.a <= list[k].a \/ k < i
        BY <1>1, <2>1, <4>1
      <4> QED BY <1>1, <2>1, <2>2, <2>4, <3>2, <4>2 DEF Within
    <3> QED BY <1>5, <3>1, <3>2
  <2>5. CASE ~(el < r.a)
    <3> DEFINE mid == IF r.a = r.b THEN <<>> ELSE IF el = r.a THEN <<High>> ELSE <<Low>>
               t   == Intervals!Spliced(list, i, i, mid)
               more == r.a # r.b /\ el # r.a /\ el # r.b
    <3>1. s = IF more THEN Intervals!Added(t, High) ELSE t
      BY <1>2, <1>8, <2>5 DEF Low, High
    <3>2. /\ IsList(mid) /\ \A q \in 1..Len(mid) : r.a <= mid[q].a /\ mid[q].b <= r.b
          /\ \A x : x \in Intervals!Denoted(mid) <=>
                      /\ x \in Int /\ Within(x, r) /\ x # el
                      /\ more => x < el
      <4>1. CASE r.a = r.b
        <5>1. mid = <<>> /\ ~more
          BY <4>1
        <5>2. \A x \in Int : Within(x, r) => x = el
          BY <2>1, <2>2, <2>5, <4>1 DEF Within
        <5>3. 1..0 = {}
          OBVIOUS
        <5> HIDE DEF mid, more
        <5> QED BY <5>1, <5>2, <5>3, NoneIs
      <4>2. CASE r.a # r.b /\ el = r.a
        <5>1. mid = <<High>> /\ ~more
          BY <4>2
        <5>2. High.a <= High.b /\ r.a <= High.a /\ High.b <= r.b
          BY <2>2, <2>3, <4>2
        <5>3. \A x \in Int : Within(x, High) <=> Within(x, r) /\ x # el
          BY <2>2, <2>3, <4>2 DEF Within
        <5>4. /\ IsList(<<High>>) /\ \A k \in 1..Len(<<High>>) : <<High>>[k] = High
              /\ \A x : x \in Intervals!Denoted(<<High>>) <=> x \in Int /\ Within(x, High)
          BY <2>3, <5>2, OneIs
        <5> HIDE DEF mid, more
        <5> QED BY <5>1, <5>2, <5>3, <5>4
      <4>3. CASE r.a # r.b /\ el # r.a
        <5>1. mid = <<Low>> /\ (more <=> el # r.b)
          BY <4>3
        <5>2. Low.a <= Low.b /\ r.a <= Low.a /\ Low.b <= r.b
          BY <2>1, <2>2, <2>3, <2>5, <4>3
        <5>3. \A x \in Int : Within(x, Low) <=> Within(x, r) /\ x < el
          BY <2>1, <2>2, <2>3, <4>3 DEF Within
        <5>4. /\ IsList(<<Low>>) /\ \A k \in 1..Len(<<Low>>) : <<Low>>[k] = Low
              /\ \A x : x \in Intervals!Denoted(<<Low>>) <=> x \in Int /\ Within(x, Low)
          BY <2>3, <5>2, OneIs
        <5>5. \A x \in Int : ~more /\ Within(x, r) => (x # el <=> x < el)
          <6> HIDE DEF mid, more
          <6> QED BY <2>2, <5>1 DEF Within
        <5> HIDE DEF mid, more
        <5>6. \A x \in Int : x < el => x # el
          OBVIOUS
        <5> QED BY <5>1, <5>2, <5>3, <5>4, <5>5, <5>6
      <4> QED BY <4>1, <4>2, <4>3
    <3> HIDE DEF mid, more
    <3>3. /\ IsList(t)
          /\ \A x : x \in Intervals!Denoted(t) <=>
                      \/ x \in Intervals!Denoted(mid)
                      \/ x \in Intervals!Denoted(list) /\ ~Within(x, r)
      BY <2>1, <3>2, InsteadIs
    <3> HIDE DEF t
    <3>4. \A x \in Int : Within(x, r) => x \in Intervals!Denoted(list)
      BY <1>1, <2>1, DenotedIs
    <3>5. Within(el, r)
      BY <2>1, <2>2, <2>5 DEF Within
    <3>6. \A x : x \in Intervals!Denoted(list) => x \in Int
      BY <1>1, DenotedIs
    <3>7. CASE ~more
      <4>1. s = t
        BY <3>1, <3>7
      <4> QED BY <3>2, <3>3, <3>4, <3>5, <3>6, <3>7, <4>1
    <3>8. CASE more
      <4>1. s = Intervals!Added(t, High)
        BY <3>1, <3>8
      <4>2. IsList(s) /\ \A x : x \in Intervals!Denoted(s) <=> x \in Intervals!Denoted(t) \/ (x \in Int /\ Within(x, High))
        BY <2>3, <3>3, <4>1, AddedIs
      <4>3. \A x \in Int : Within(x, High) <=> Within(x, r) /\ x > el
        BY <2>2, <2>3, <2>5 DEF Within
      <4>4. \A x \in Int : x # el <=> x < el \/ x > el
        OBVIOUS
      <4>5. ASSUME NEW x PROVE x \in Intervals!Denoted(s) <=> x \in Intervals!Denoted(list) /\ x # el
        BY <3>2, <3>3, <3>4, <3>5, <3>6, <3>8, <4>2, <4>3, <4>4
      <4> QED BY <4>2, <4>5
    <3> QED BY <3>7, <3>8
  <2> QED BY <2>4, <2>5
<1> QED BY <1>7, <1>8

\* contains is right for a list that is sorted.
LEMMA HoldsIs ==
    ASSUME NEW list, IsList(list), NEW el \in Int
    PROVE  Intervals!Holds(list, el) <=> el \in Intervals!Denoted(list)
<1> DEFINE n == Len(list)
           Stops(r) == ~(r.b < el)
           I == {k \in 1..n : Stops(list[k])}
           i == IF I # {} THEN Intervals!Min(I) ELSE 0
<1>1. /\ list \in Seq(Ivals) /\ n \in Nat
      /\ \A k \in 1..n : list[k] \in Ivals /\ list[k].a \in Int /\ list[k].b \in Int /\ list[k].a <= list[k].b
      /\ \A j, k \in 1..n : j < k => list[j].b + 1 < list[k].a
  BY ListHas
<1>2. el \in Intervals!Denoted(list) <=> \E k \in 1..n : Within(el, list[k])
  BY <1>1, DenotedIs
<1>3. CASE list = <<>>
  <2>1. n = 0 /\ 1..0 = {}
    BY <1>3
  <2> QED BY <1>2, <1>3, <2>1 DEF Intervals!Holds
<1>4. CASE list # <<>>
  <2>1. 1 \in 1..n /\ n \in 1..n /\ Head(list) = list[1] /\ Intervals!Last(list) = list[n]
    <3>1. n # 0
      BY <1>1, <1>4
    <3> QED BY <1>1, <1>4, <3>1 DEF Intervals!Last
  <2>2. Intervals!Holds(list, el) <=> el >= list[1].a /\ el <= list[n].b /\ i # 0 /\ ~(el < list[i].a)
    BY <1>4, <2>1, Zenon DEF Intervals!Holds, Intervals!Search, Intervals!SelectInSeq
  <2>3. \/ i = 0 /\ I = {}
        \/ i \in I /\ \A j \in 1..n : j < i => j \notin I
    <3>1. I \in SUBSET (1..n)
      OBVIOUS
    <3> HIDE DEF I
    <3> QED BY <1>1, <3>1, FirstIs
  <2>4. (\A k \in 1..n : k \in I <=> el <= list[k].b) /\ I \subseteq 1..n /\ 0 \notin I
    BY <1>1
  <2> HIDE DEF I, i
  <2>5. ASSUME Intervals!Holds(list, el) PROVE \E k \in 1..n : Within(el, list[k])
    <3>1. i \in 1..n /\ el <= list[i].b /\ ~(el < list[i].a)
      BY <2>2, <2>3, <2>4, <2>5
    <3>2. Within(el, list[i])
      BY <1>1, <3>1 DEF Within
    <3> QED BY <3>1, <3>2
  <2>6. ASSUME NEW k \in 1..n, Within(el, list[k]) PROVE Intervals!Holds(list, el)
    <3>1. k \in I /\ i \in 1..n /\ ~(k < i) /\ el <= list[i].b
      BY <1>1, <2>3, <2>4, <2>6 DEF Within
    <3>2. k = i
      <4>1. k = i \/ i < k
        BY <3>1
      <4>2. i < k => list[i].b + 1 < list[k].a
        BY <1>1, <3>1
      <4>3. list[k].a <= el /\ list[i].b \in Int /\ list[k].a \in Int
        BY <1>1, <2>6, <3>1 DEF Within
      <4> QED BY <3>1, <4>1, <4>2, <4>3
    <3>3. list[1].a <= list[k].a
      <4>1. k = 1 \/ 1 < k
        OBVIOUS
      <4> QED BY <1>1, <2>1, <4>1
    <3>4. list[k].b <= list[n].b
      <4>1. k = n \/ k < n
        BY <1>1
      <4>2. CASE k < n
        <5>1. list[k].b + 1 < list[n].a /\ list[n].a <= list[n].b
          BY <1>1, <2>1, <4>2
        <5>2. list[k].b \in Int /\ list[n].a \in Int /\ list[n].b \in Int
          BY <1>1, <2>1
        <5> QED BY <5>1, <5>2
      <4> QED BY <1>1, <4>1, <4>2
    <3>5. /\ list[k].a \in Int /\ list[k].b \in Int /\ list[1].a \in Int /\ list[n].b \in Int
          /\ list[k].a <= el /\ el <= list[k].b
      BY <1>1, <2>1, <2>6 DEF Within
    <3> QED BY <2>2, <2>4, <3>1, <3>2, <3>3, <3>4, <3>5
  <2> QED BY <1>2, <2>5, <2>6
<1> QED BY <1>3, <1>4

\* Of two lists of the same elements neither is longer, nor differs where both have
\* an interval.
LEMMA SameUpTo ==
    ASSUME NEW list, IsList(list), NEW more, IsList(more),
           \A x : x \in Intervals!Denoted(list) => x \in Intervals!Denoted(more),
           NEW i \in 1..Len(list), \A k \in 1..Len(list) : k < i => k \in 1..Len(more) /\ list[k] = more[k]
    PROVE  i \in 1..Len(more) /\ more[i].a <= list[i].a /\ (more[i].a = list[i].a => list[i].b <= more[i].b)
<1>1. /\ list \in Seq(Ivals) /\ Len(list) \in Nat
      /\ \A k \in 1..Len(list) : list[k].a \in Int /\ list[k].b \in Int /\ list[k].a <= list[k].b
      /\ \A j, k \in 1..Len(list) : j < k => list[j].b + 1 < list[k].a
  BY ListHas
<1>2. /\ more \in Seq(Ivals) /\ Len(more) \in Nat
      /\ \A k \in 1..Len(more) : more[k].a \in Int /\ more[k].b \in Int /\ more[k].a <= more[k].b
      /\ \A j, k \in 1..Len(more) : j < k => more[j].b + 1 < more[k].a
  BY ListHas
<1>3. list[i].a \in Int /\ list[i].b \in Int /\ list[i].a <= list[i].b /\ i \in Int
  BY <1>1
<1>4. ASSUME NEW x \in Int, Within(x, list[i]) PROVE \E k \in 1..Len(more) : Within(x, more[k]) /\ ~(k < i)
  <2>1. x \in Intervals!Denoted(more)
    BY <1>1, <1>4, DenotedIs
  <2>2. PICK k \in 1..Len(more) : Within(x, more[k])
    BY <1>2, <2>1, DenotedIs
  <2>3. ASSUME k < i PROVE FALSE
    <3>1. k \in 1..Len(list)
      BY <1>1, <1>3, <2>3
    <3>2. Within(x, list[k]) /\ k # i
      BY <1>3, <2>2, <2>3, <3>1
    <3> QED BY <1>4, <3>1, <3>2, AlikeIs
  <2> QED BY <2>2, <2>3
<1>5. PICK k \in 1..Len(more) : Within(list[i].a, more[k]) /\ ~(k < i)
  <2>1. Within(list[i].a, list[i])
    BY <1>3 DEF Within
  <2> QED BY <1>3, <1>4, <2>1
<1>6. i \in 1..Len(more) /\ (k = i \/ i < k)
  BY <1>2, <1>3, <1>5
<1>7. more[i].a \in Int /\ more[i].b \in Int /\ more[k].a \in Int /\ more[k].a <= list[i].a
  BY <1>2, <1>5, <1>6 DEF Within
<1>8. more[i].a <= list[i].a
  <2>1. more[i].a <= more[k].a
    BY <1>2, <1>6
  <2> QED BY <1>3, <1>7, <2>1
<1>9. ASSUME more[i].a = list[i].a, ~(list[i].b <= more[i].b) PROVE FALSE
  <2> DEFINE x == more[i].b + 1
  <2>1. x \in Int /\ Within(x, list[i])
    <3>1. more[i].a <= more[i].b
      BY <1>2, <1>6
    <3> QED BY <1>3, <1>7, <1>9, <3>1 DEF Within
  <2> HIDE DEF x
  <2>2. PICK j \in 1..Len(more) : Within(x, more[j]) /\ ~(j < i)
    BY <1>4, <2>1
  <2>3. j = i \/ i < j
    BY <1>3, <2>2
  <2>4. i < j => x < more[j].a
    BY <1>2, <1>6, <2>2 DEF x
  <2>5. j = i => more[j].b < x
    BY <1>7 DEF x
  <2>6. more[j].a \in Int /\ more[j].b \in Int /\ more[j].a <= x /\ x <= more[j].b
    BY <1>2, <2>2 DEF Within
  <2> QED BY <2>1, <2>3, <2>4, <2>5, <2>6
<1> QED BY <1>6, <1>8, <1>9

\* A set has one list.
LEMMA EqualsIs ==
    ASSUME NEW list, IsList(list), NEW more, IsList(more)
    PROVE  Intervals!Equals(list, more) <=> Intervals!Denoted(list) = Intervals!Denoted(more)
<1> DEFINE n == Len(list)
<1>1. list \in Seq(Ivals) /\ n \in Nat /\ \A k \in 1..n : list[k] \in Ivals
  BY ListHas
<1>2. more \in Seq(Ivals) /\ Len(more) \in Nat /\ \A k \in 1..Len(more) : more[k] \in Ivals
  BY ListHas
<1>3. Intervals!Equals(list, more) <=> n = Len(more) /\ \A k \in 1..n : list[k] = more[k]
  BY <1>1 DEF Intervals!Equals
<1>4. ASSUME Intervals!Equals(list, more) PROVE Intervals!Denoted(list) = Intervals!Denoted(more)
  <2>1. list = more
    BY <1>1, <1>2, <1>3, <1>4
  <2> QED BY <2>1
<1>5. ASSUME Intervals!Denoted(list) = Intervals!Denoted(more) PROVE Intervals!Equals(list, more)
  <2> DEFINE Differs == {k \in 1..n : ~(k \in 1..Len(more) /\ list[k] = more[k])}
  <2>1. Differs = {}
    <3> SUFFICES ASSUME Differs # {} PROVE FALSE
      OBVIOUS
    <3>1. Differs \subseteq Nat
      OBVIOUS
    <3>2. PICK i \in Differs : \A k \in Differs : i <= k
      BY <3>1, LeastNumber
    <3>3. i \in 1..n /\ ~(i \in 1..Len(more) /\ list[i] = more[i])
      OBVIOUS
    <3>4. \A k \in 1..n : k < i => k \in 1..Len(more) /\ list[k] = more[k]
      <4> SUFFICES ASSUME NEW k \in 1..n, k < i PROVE k \in 1..Len(more) /\ list[k] = more[k]
        OBVIOUS
      <4>1. k \notin Differs
        BY <3>2, <3>3
      <4> QED BY <4>1
    <3> HIDE DEF Differs
    <3>5. i \in 1..Len(more) /\ more[i].a <= list[i].a /\ (more[i].a = list[i].a => list[i].b <= more[i].b)
      BY <1>5, <3>3, <3>4, SameUpTo
    <3>6. list[i].a <= more[i].a /\ (list[i].a = more[i].a => more[i].b <= list[i].b)
      <4>1. \A k \in 1..Len(more) : k < i => k \in 1..n /\ more[k] = list[k]
        <5> SUFFICES ASSUME NEW k \in 1..Len(more), k < i PROVE k \in 1..n /\ more[k] = list[k]
          OBVIOUS
        <5>1. k \in 1..n
          BY <1>1, <3>3
        <5> QED BY <3>4, <5>1
      <4> QED BY <1>5, <3>5, <4>1, SameUpTo
    <3>7. list[i] \in Ivals /\ more[i] \in Ivals
      BY <1>1, <1>2, <3>3, <3>5
    <3>8. list[i].a = more[i].a /\ list[i].b = more[i].b
      BY <3>5, <3>6, <3>7 DEF Ivals
    <3>9. list[i] = more[i]
      BY <3>7, <3>8 DEF Ivals
    <3> QED BY <3>3, <3>5, <3>9
  <2>2. \A k \in 1..n : k \in 1..Len(more) /\ list[k] = more[k]
    BY <2>1
  <2> HIDE DEF Differs
  <2>3. ASSUME NEW m \in Nat, m = Len(more), n # m PROVE FALSE
    <3>1. n < m
      <4>1. CASE n = 0
        BY <2>3, <4>1
      <4>2. CASE n # 0
        <5>1. n \in 1..n
          BY <1>1, <4>2
        <5>2. n \in 1..m
          BY <2>2, <2>3, <5>1
        <5> QED BY <1>1, <2>3, <5>2
      <4> QED BY <4>1, <4>2
    <3> DEFINE i == n + 1
    <3>2. i \in 1..m /\ \A k \in 1..m : k < i => k \in 1..n
      BY <1>1, <2>3, <3>1
    <3>3. i \notin 1..n
      BY <1>1
    <3> HIDE DEF i
    <3>4. \A k \in 1..Len(more) : k < i => k \in 1..n /\ more[k] = list[k]
      BY <2>2, <2>3, <3>2
    <3>5. i \in 1..n
      BY <1>5, <2>3, <3>2, <3>4, SameUpTo
    <3> QED BY <3>3, <3>5
  <2> QED BY <1>2, <1>3, <2>2, <2>3
<1> QED BY <1>4, <1>5

\* Its least and largest elements are the ends of the list.
LEMMA EndsOf ==
    ASSUME NEW list, IsList(list), list # <<>>
    PROVE  /\ Intervals!MinElement(list) = Intervals!Min(Intervals!Denoted(list))
           /\ Intervals!MaxElement(list) = Intervals!Max(Intervals!Denoted(list))
<1> DEFINE n == Len(list)
           D == Intervals!Denoted(list)
<1>1. /\ list \in Seq(Ivals) /\ n \in Nat
      /\ \A k \in 1..n : list[k] \in Ivals /\ list[k].a \in Int /\ list[k].b \in Int /\ list[k].a <= list[k].b
      /\ \A j, k \in 1..n : j < k => list[j].b + 1 < list[k].a
  BY ListHas
<1>2. 1 \in 1..n /\ n \in 1..n /\ Head(list) = list[1] /\ Intervals!Last(list) = list[n]
  <2>1. n # 0
    BY <1>1
  <2> QED BY <1>1, <2>1 DEF Intervals!Last
<1>3. Intervals!MinElement(list) = list[1].a /\ Intervals!MaxElement(list) = list[n].b
  BY <1>2 DEF Intervals!MinElement, Intervals!MaxElement
<1>4. \A x : x \in D <=> x \in Int /\ \E k \in 1..n : Within(x, list[k])
  BY <1>1, DenotedIs
<1> HIDE DEF D
<1>5. list[1].a \in D /\ list[n].b \in D /\ D \subseteq Int
  <2>1. Within(list[1].a, list[1]) /\ Within(list[n].b, list[n])
    BY <1>1, <1>2 DEF Within
  <2> QED BY <1>1, <1>2, <1>4, <2>1
<1>6. ASSUME NEW x \in D PROVE list[1].a <= x /\ list[n].b >= x
  <2>1. PICK k \in 1..n : Within(x, list[k])
    BY <1>4
  <2>2. list[1].a <= list[k].a /\ list[k].b <= list[n].b
    <3>1. (k = 1 \/ 1 < k) /\ (k = n \/ k < n)
      BY <1>1
    <3>2. list[1].a <= list[k].a
      BY <1>1, <1>2, <3>1
    <3>3. list[k].b <= list[n].b
      BY <1>1, <1>2, <3>1
    <3> QED BY <3>2, <3>3
  <2>3. /\ x \in Int /\ list[1].a \in Int /\ list[n].b \in Int /\ list[k].a \in Int /\ list[k].b \in Int
        /\ list[k].a <= x /\ x <= list[k].b
    BY <1>1, <1>2, <1>5, <2>1 DEF Within
  <2> QED BY <2>2, <2>3
<1>7. Intervals!Min(D) = list[1].a /\ Intervals!Max(D) = list[n].b
  BY <1>5, <1>6, ExtremesAre
<1> QED BY <1>3, <1>7 DEF D

\* The element of a set of one.
LEMMA SingleIs ==
    ASSUME NEW list, IsList(list), Intervals!SingleElement(list) # Intervals!INVALID_TYPE
    PROVE  Intervals!Denoted(list) = {Intervals!SingleElement(list)}
<1>1. /\ list \in Seq(Ivals) /\ Len(list) \in Nat
      /\ \A k \in 1..Len(list) : list[k].a \in Int /\ list[k].b \in Int
  BY ListHas
<1>2. Len(list) = 1 /\ Head(list).a = Head(list).b /\ Intervals!SingleElement(list) = Head(list).a
  BY DEF Intervals!SingleElement
<1>3. Head(list) = list[1] /\ 1 \in 1..Len(list) /\ \A k \in 1..Len(list) : k = 1
  BY <1>1, <1>2
<1>4. ASSUME NEW x PROVE x \in Intervals!Denoted(list) <=> x = list[1].a
  <2>1. x \in Intervals!Denoted(list) <=> x \in Int /\ Within(x, list[1])
    BY <1>1, <1>3, DenotedIs
  <2>2. list[1].a = list[1].b /\ list[1].a \in Int
    BY <1>1, <1>2, <1>3
  <2> QED BY <2>1, <2>2 DEF Within
<1> QED BY <1>2, <1>3, <1>4

-----------------------------------------------------------------------------
(* Loops that take turns.                                                  *)

\* What turns lead to exists, whatever they do.
IsRunOf(f, n, base, F) == f[0] = base /\ \A k \in 1..n : f[k] = F[k][f[k - 1]]

LEMMA TurnsExist ==
    ASSUME NEW S, NEW base \in S, NEW n \in Nat, NEW F \in [1..n -> [S -> S]]
    PROVE  \E f \in [0..n -> S] : IsRunOf(f, n, base, F)
<1> DEFINE Are(f, k) == f[0] = base /\ \A h \in 1..k : f[h] = F[h][f[h - 1]]
           Fails == {k \in 0..n : ~\E f \in [0..k -> S] : Are(f, k)}
<1>1. Fails = {}
  <2> SUFFICES ASSUME Fails # {} PROVE FALSE
    OBVIOUS
  <2>1. Fails \subseteq Nat
    OBVIOUS
  <2>2. PICK k \in Fails : \A h \in Fails : k <= h
    BY <2>1, LeastNumber
  <2>3. k \in 0..n /\ ~\E f \in [0..k -> S] : Are(f, k)
    OBVIOUS
  <2>4. CASE k = 0
    <3> DEFINE f == [h \in 0..0 |-> base]
    <3>1. f \in [0..0 -> S] /\ f[0] = base /\ 1..0 = {}
      OBVIOUS
    <3> HIDE DEF f
    <3>2. Are(f, 0)
      BY <3>1
    <3> QED BY <2>3, <2>4, <3>1, <3>2
  <2>5. CASE k # 0
    <3>1. k - 1 \in 0..n /\ ~(k <= k - 1) /\ k \in 1..n /\ k \in Nat
      BY <2>3, <2>5
    <3>2. k - 1 \notin Fails
      BY <2>2, <3>1
    <3>3. PICK g \in [0..k - 1 -> S] : Are(g, k - 1)
      BY <3>1, <3>2
    <3> DEFINE f == [h \in 0..k |-> IF h = k THEN F[k][g[k - 1]] ELSE g[h]]
    <3>4. f \in [0..k -> S]
      <4>1. g[k - 1] \in S /\ F[k] \in [S -> S]
        BY <3>1
      <4>2. \A h \in 0..k : h # k => h \in 0..k - 1
        BY <3>1
      <4> QED BY <4>1, <4>2
    <3>5. f[0] = base
      BY <2>5, <3>1, <3>3
    <3>6. ASSUME NEW h \in 1..k PROVE f[h] = F[h][f[h - 1]]
      <4>1. h - 1 \in 0..k /\ h - 1 # k /\ h \in 0..k /\ f[h - 1] = g[h - 1]
        BY <3>1
      <4>2. CASE h = k
        BY <4>1, <4>2
      <4>3. CASE h # k
        <5>1. h \in 1..k - 1 /\ f[h] = g[h]
          BY <3>1, <4>1, <4>3
        <5> HIDE DEF f
        <5> QED BY <3>3, <4>1, <5>1
      <4> QED BY <4>2, <4>3
    <3> HIDE DEF f
    <3>7. Are(f, k)
      BY <3>5, <3>6
    <3> QED BY <2>3, <3>4, <3>7
  <2> QED BY <2>4, <2>5
<1>2. n \in 0..n /\ n \notin Fails
  <2>1. n \in 0..n
    OBVIOUS
  <2> HIDE DEF Fails
  <2> QED BY <1>1, <2>1
<1> HIDE DEF Are
<1>3. \E f \in [0..n -> S] : Are(f, n)
  BY <1>2
<1> QED BY <1>3 DEF Are, IsRunOf

\* What holds at first and is handed on holds after every turn.
LEMMA TurnsKeep ==
    ASSUME NEW n \in Nat, NEW f, NEW P, f[0] \in P[0], \A k \in 1..n : f[k - 1] \in P[k - 1] => f[k] \in P[k]
    PROVE  \A k \in 0..n : f[k] \in P[k]
<1> DEFINE Fails == {k \in 0..n : f[k] \notin P[k]}
<1> SUFFICES ASSUME Fails # {} PROVE FALSE
  OBVIOUS
<1>1. Fails \subseteq Nat
  OBVIOUS
<1>2. PICK k \in Fails : \A h \in Fails : k <= h
  BY <1>1, LeastNumber
<1>3. k \in 0..n /\ f[k] \notin P[k]
  OBVIOUS
<1>4. k # 0
  BY <1>3
<1>5. k \in 1..n /\ k - 1 \in 0..n /\ ~(k <= k - 1)
  BY <1>3, <1>4
<1>6. f[k - 1] \in P[k - 1]
  BY <1>2, <1>5
<1> QED BY <1>3, <1>5, <1>6

\* addAll puts in what the other has.
AreAdded(h, list, ls) == h = [n \in 0..Len(ls) |-> IF n = 0 THEN list ELSE Intervals!Added(h[n - 1], ls[n])]

LEMMA AllAddedIs ==
    ASSUME NEW list, IsList(list), NEW more, IsList(more), NEW s, s = Intervals!AddedAll(list, more)
    PROVE  /\ IsList(s)
           /\ \A x : x \in Intervals!Denoted(s) <=> x \in Intervals!Denoted(list) \/ x \in Intervals!Denoted(more)
<1> DEFINE n == Len(more)
           S == {l \in Seq(Ivals) : IsList(l)}
           F == [k \in 1..n |-> [l \in S |-> Intervals!Added(l, more[k])]]
           f == CHOOSE h : AreAdded(h, list, more)
           In(k) == {l \in S : \A x : x \in Intervals!Denoted(l) <=>
                       \/ x \in Intervals!Denoted(list)
                       \/ x \in Int /\ \E q \in 1..k : Within(x, more[q])}
           P == [k \in 0..n |-> In(k)]
<1>1. more \in Seq(Ivals) /\ n \in Nat /\ \A k \in 1..n : more[k] \in Ivals
  BY ListHas
<1>2. \A l : l \in S <=> IsList(l)
  BY ListHas
<1>3. ASSUME NEW k \in 1..n, NEW l \in S
      PROVE  /\ Intervals!Added(l, more[k]) \in S
             /\ \A x : x \in Intervals!Denoted(Intervals!Added(l, more[k])) <=>
                         x \in Intervals!Denoted(l) \/ (x \in Int /\ Within(x, more[k]))
  BY <1>1, <1>2, AddedIs
<1> HIDE DEF S
<1>4. \E h : AreAdded(h, list, more)
  <2>1. F \in [1..n -> [S -> S]]
    BY <1>3
  <2>2. list \in S
    BY <1>2
  <2>3. ASSUME NEW k \in 1..n, NEW l \in S PROVE F[k][l] = Intervals!Added(l, more[k])
    OBVIOUS
  <2> HIDE DEF F, n
  <2>n. n \in Nat
    BY <1>1 DEF n
  <2>e. \E g \in [0..n -> S] : IsRunOf(g, n, list, F)
    BY <2>1, <2>2, <2>n, TurnsExist
  <2>4. PICK g \in [0..n -> S] : g[0] = list /\ \A k \in 1..n : g[k] = F[k][g[k - 1]]
    BY <2>e, Zenon DEF IsRunOf
  <2>5. \A k \in 0..n : g[k] = IF k = 0 THEN list ELSE Intervals!Added(g[k - 1], more[k])
    <3> SUFFICES ASSUME NEW k \in 0..n, k # 0 PROVE g[k] = Intervals!Added(g[k - 1], more[k])
      BY <2>4
    <3>1. k \in 1..n /\ k - 1 \in 0..n
      BY <1>1
    <3> QED BY <2>3, <2>4, <3>1
  <2>6. g = [k \in 0..n |-> g[k]]
    OBVIOUS
  <2>7. AreAdded(g, list, more)
    BY <2>5, <2>6 DEF AreAdded, n
  <2> QED BY <2>7
<1>5. AreAdded(f, list, more)
  BY <1>4
<1>6. s = f[n]
  BY Zenon DEF Intervals!AddedAll, AreAdded
<1> HIDE DEF f
<1>7. f[0] = list /\ \A k \in 1..n : f[k] = Intervals!Added(f[k - 1], more[k])
  <2>1. f = [k \in 0..n |-> IF k = 0 THEN list ELSE Intervals!Added(f[k - 1], more[k])]
    BY <1>5, Zenon DEF AreAdded
  <2>2. 0 \in 0..n /\ \A k \in 1..n : k \in 0..n /\ k # 0
    BY <1>1
  <2> HIDE DEF n
  <2> QED BY <2>1, <2>2
<1>8. \A k \in 0..n : P[k] = In(k)
  OBVIOUS
<1> HIDE DEF P
<1>9. f[0] \in P[0]
  <2>1. list \in In(0)
    <3>1. 1..0 = {}
      OBVIOUS
    <3> QED BY <1>2, <3>1
  <2> QED BY <1>1, <1>7, <1>8, <2>1
<1>10. ASSUME NEW k \in 1..n, f[k - 1] \in P[k - 1] PROVE f[k] \in P[k]
  <2>1. k - 1 \in 0..n /\ k \in 0..n
    OBVIOUS
  <2>2. f[k - 1] \in In(k - 1)
    BY <1>8, <1>10, <2>1
  <2>3. f[k] = Intervals!Added(f[k - 1], more[k])
    BY <1>7
  <2>4. f[k] \in S /\ \A x : x \in Intervals!Denoted(f[k]) <=> x \in Intervals!Denoted(f[k - 1]) \/ (x \in Int /\ Within(x, more[k]))
    BY <1>3, <2>2, <2>3
  <2>5. \A q : q \in 1..k <=> q \in 1..k - 1 \/ q = k
    OBVIOUS
  <2>6. f[k] \in In(k)
    <3> SUFFICES ASSUME NEW x
                 PROVE  x \in Intervals!Denoted(f[k]) <=>
                          \/ x \in Intervals!Denoted(list)
                          \/ x \in Int /\ \E q \in 1..k : Within(x, more[q])
      BY <2>4
    <3>1. x \in Intervals!Denoted(f[k - 1]) <=>
            \/ x \in Intervals!Denoted(list)
            \/ x \in Int /\ \E q \in 1..k - 1 : Within(x, more[q])
      BY <2>2
    <3> QED BY <2>4, <2>5, <3>1
  <2> HIDE DEF In
  <2> QED BY <1>8, <2>1, <2>6
<1>11. \A k \in 0..n : f[k] \in P[k]
  <2> HIDE DEF n, In
  <2> QED BY <1>1, <1>9, <1>10, TurnsKeep
<1>12. s \in In(n)
  <2> HIDE DEF In
  <2> QED BY <1>1, <1>6, <1>8, <1>11
<1>13. \A x : x \in Intervals!Denoted(more) <=> x \in Int /\ \E q \in 1..n : Within(x, more[q])
  BY <1>1, DenotedIs
<1> QED BY <1>2, <1>12, <1>13

\* And takes the turn of the interval that ends first.  What is left to find lies
\* in the intervals ahead of both.
Met(s, mine, theirs) ==
    IF s.i > Len(mine) \/ s.j > Len(theirs) THEN s ELSE Intervals!Meet(s, mine, theirs)
AreMet(h, mine, theirs) ==
    h = [n \in 0..Len(mine) + Len(theirs) |->
            IF n = 0 THEN [found |-> <<>>, i |-> 1, j |-> 1] ELSE Met(h[n - 1], mine, theirs)]
MeetInv(s, mine, theirs) ==
    /\ s \in [found : Seq(Ivals), i : Int, j : Int]
    /\ IsList(s.found)
    /\ s.i \in 1..Len(mine) + 1 /\ s.j \in 1..Len(theirs) + 1
    /\ \A x \in Intervals!Denoted(s.found) : x \in Intervals!Denoted(mine) /\ x \in Intervals!Denoted(theirs)
    /\ \A x \in Int, k \in 1..Len(mine), q \in 1..Len(theirs) :
         Within(x, mine[k]) /\ Within(x, theirs[q]) => x \in Intervals!Denoted(s.found) \/ (k >= s.i /\ q >= s.j)

MineEndsLast(m, t) == \/ Intervals!ProperlyContains(m, t)
                      \/ (~Intervals!ProperlyContains(t, m) /\ Intervals!StartsAfterNonDisjoint(m, t))

LEMMA EndingLast ==
    ASSUME NEW m \in Ivals, NEW t \in Ivals, m.a <= m.b, t.a <= t.b
    PROVE  /\ Intervals!StartsBeforeDisjoint(m, t) => m.b < t.a
           /\ Intervals!StartsBeforeDisjoint(t, m) => t.b < m.a
           /\ ~Intervals!StartsBeforeDisjoint(m, t) /\ ~Intervals!StartsBeforeDisjoint(t, m) =>
                 IF MineEndsLast(m, t) THEN t.b <= m.b ELSE m.b <= t.b
BY DEF Ivals, MineEndsLast, Intervals!ProperlyContains, Intervals!StartsAfterNonDisjoint, Intervals!StartsBeforeDisjoint

LEMMA MeetKeeps ==
    ASSUME NEW mine, IsList(mine), NEW theirs, IsList(theirs), NEW s, MeetInv(s, mine, theirs),
           s.i <= Len(mine), s.j <= Len(theirs), NEW u, u = Intervals!Meet(s, mine, theirs)
    PROVE  MeetInv(u, mine, theirs) /\ u.i + u.j = s.i + s.j + 1
<1> DEFINE m == mine[s.i]
           t == theirs[s.j]
           both == Intervals!Added(s.found, Intervals!Intersection(m, t))
           M == Len(mine)
           T == Len(theirs)
<1>1. /\ mine \in Seq(Ivals) /\ M \in Nat /\ theirs \in Seq(Ivals) /\ T \in Nat
      /\ \A k \in 1..M : mine[k] \in Ivals /\ mine[k].a \in Int /\ mine[k].b \in Int /\ mine[k].a <= mine[k].b
      /\ \A j, k \in 1..M : j < k => mine[j].b + 1 < mine[k].a
      /\ \A k \in 1..T : theirs[k] \in Ivals /\ theirs[k].a \in Int /\ theirs[k].b \in Int /\ theirs[k].a <= theirs[k].b
      /\ \A j, k \in 1..T : j < k => theirs[j].b + 1 < theirs[k].a
  BY ListHas
<1>2. /\ s \in [found : Seq(Ivals), i : Int, j : Int]
      /\ IsList(s.found)
      /\ s.i \in 1..M + 1 /\ s.j \in 1..T + 1
      /\ \A x \in Intervals!Denoted(s.found) : x \in Intervals!Denoted(mine) /\ x \in Intervals!Denoted(theirs)
      /\ \A x \in Int, k \in 1..M, q \in 1..T :
           Within(x, mine[k]) /\ Within(x, theirs[q]) => x \in Intervals!Denoted(s.found) \/ (k >= s.i /\ q >= s.j)
  BY DEF MeetInv
<1>3. s.i \in 1..M /\ s.j \in 1..T /\ s.i \in Int /\ s.j \in Int
  BY <1>1, <1>2
<1>s. s \in [found : Seq(Ivals), i : Int, j : Int] /\ M \in Nat /\ T \in Nat
  BY <1>1, <1>2
<1>4. /\ m \in Ivals /\ m.a \in Int /\ m.b \in Int /\ m.a <= m.b
      /\ t \in Ivals /\ t.a \in Int /\ t.b \in Int /\ t.a <= t.b
  BY <1>1, <1>3
<1>5. u = IF Intervals!StartsBeforeDisjoint(m, t) THEN [s EXCEPT !.i = @ + 1]
          ELSE IF Intervals!StartsBeforeDisjoint(t, m) THEN [s EXCEPT !.j = @ + 1]
          ELSE IF MineEndsLast(m, t) THEN [s EXCEPT !.found = both, !.j = @ + 1]
          ELSE [s EXCEPT !.found = both, !.i = @ + 1]
  BY Zenon DEF Intervals!Meet, MineEndsLast
<1>6. /\ IsList(both) /\ both \in Seq(Ivals)
      /\ \A x : x \in Intervals!Denoted(both) <=>
                  x \in Intervals!Denoted(s.found) \/ (x \in Int /\ Within(x, m) /\ Within(x, t))
  <2> DEFINE r == Intervals!Intersection(m, t)
  <2>1. r \in Ivals /\ r = [a |-> IF m.a <= t.a THEN t.a ELSE m.a, b |-> IF m.b <= t.b THEN m.b ELSE t.b]
    BY <1>4, EndsAre
  <2>2. ASSUME NEW x \in Int PROVE Within(x, r) <=> Within(x, m) /\ Within(x, t)
    BY <1>4, <2>1, SMTT(30) DEF Within
  <2> HIDE DEF r
  <2>3. /\ IsList(both)
        /\ \A x : x \in Intervals!Denoted(both) <=> x \in Intervals!Denoted(s.found) \/ (x \in Int /\ Within(x, r))
    BY <1>2, <2>1, AddedIs DEF r
  <2> QED BY <2>2, <2>3 DEF IsList
<1>b. both \in Seq(Ivals)
  BY <1>6
<1>7. \A x : /\ x \in Intervals!Denoted(mine) <=> x \in Int /\ \E k \in 1..M : Within(x, mine[k])
             /\ x \in Intervals!Denoted(theirs) <=> x \in Int /\ \E k \in 1..T : Within(x, theirs[k])
  BY <1>1, DenotedIs
<1>8. \A x \in Intervals!Denoted(both) : x \in Intervals!Denoted(mine) /\ x \in Intervals!Denoted(theirs)
  BY <1>2, <1>3, <1>6, <1>7
<1>9. /\ Intervals!StartsBeforeDisjoint(m, t) => m.b < t.a
      /\ Intervals!StartsBeforeDisjoint(t, m) => t.b < m.a
      /\ ~Intervals!StartsBeforeDisjoint(m, t) /\ ~Intervals!StartsBeforeDisjoint(t, m) =>
            IF MineEndsLast(m, t) THEN t.b <= m.b ELSE m.b <= t.b
  BY <1>4, EndingLast
<1>10. ASSUME NEW x \in Int, NEW k \in 1..M, NEW q \in 1..T, Within(x, mine[k]), Within(x, theirs[q]),
              x \notin Intervals!Denoted(s.found)
       PROVE  /\ k >= s.i /\ q >= s.j
              /\ k = s.i \/ x > m.b
              /\ q = s.j \/ x > t.b
              /\ x >= t.a /\ x >= m.a
              /\ k = s.i /\ q = s.j => Within(x, m) /\ Within(x, t)
              /\ k = s.i => x <= m.b
              /\ q = s.j => x <= t.b
  <2>1. k >= s.i /\ q >= s.j
    BY <1>2, <1>10
  <2>2. (k = s.i \/ s.i < k) /\ (q = s.j \/ s.j < q)
    BY <1>3, <2>1
  <2>3. mine[k].a <= x /\ x <= mine[k].b /\ theirs[q].a <= x /\ x <= theirs[q].b
    BY <1>10 DEF Within
  <2>4. mine[k].a \in Int /\ theirs[q].a \in Int
    BY <1>1
  <2>5. s.i < k => m.b + 1 < mine[k].a
    BY <1>1, <1>3
  <2>6. s.j < q => t.b + 1 < theirs[q].a
    BY <1>1, <1>3
  <2>7. k = s.i => mine[k] = m
    OBVIOUS
  <2>8. q = s.j => theirs[q] = t
    OBVIOUS
  <2> HIDE DEF m, t
  <2>9. k = s.i /\ q = s.j => Within(x, m) /\ Within(x, t)
    BY <1>10, <2>7, <2>8, Zenon
  <2>10. (k = s.i /\ m.a <= x /\ x <= m.b) \/ (x > m.b /\ x >= m.a /\ k # s.i)
    <3>1. CASE k = s.i
      BY <2>3, <2>7, <3>1
    <3>2. CASE s.i < k
      BY <1>3, <1>4, <2>3, <2>4, <2>5, <3>2, SMTT(30)
    <3> QED BY <2>2, <3>1, <3>2
  <2>11. (q = s.j /\ t.a <= x /\ x <= t.b) \/ (x > t.b /\ x >= t.a /\ q # s.j)
    <3>1. CASE q = s.j
      BY <2>3, <2>8, <3>1
    <3>2. CASE s.j < q
      <4>1. t.b + 1 < theirs[q].a /\ q # s.j
        BY <1>3, <2>6, <3>2
      <4> QED BY <1>4, <2>3, <2>4, <4>1
    <3> QED BY <2>2, <3>1, <3>2
  <2> QED BY <2>1, <2>9, <2>10, <2>11
<1> HIDE DEF m, t, M, T, both
<1>11. CASE Intervals!StartsBeforeDisjoint(m, t)
  <2>1. u = [s EXCEPT !.i = @ + 1]
    BY <1>5, <1>11
  <2>2. /\ u \in [found : Seq(Ivals), i : Int, j : Int] /\ u.found = s.found /\ u.i = s.i + 1 /\ u.j = s.j
        /\ u.i \in 1..M + 1 /\ u.j \in 1..T + 1 /\ u.i + u.j = s.i + s.j + 1
    BY <1>s, <1>3, <2>1, SMTT(30)
  <2>3. ASSUME NEW x \in Int, NEW k \in 1..M, NEW q \in 1..T, Within(x, mine[k]), Within(x, theirs[q]),
               x \notin Intervals!Denoted(s.found)
        PROVE  k >= s.i + 1 /\ q >= s.j
    BY <1>3, <1>4, <1>9, <1>10, <1>11, <2>3, SMTT(30)
  <2> QED BY <1>2, <2>2, <2>3 DEF MeetInv, M, T
<1>12. CASE ~Intervals!StartsBeforeDisjoint(m, t) /\ Intervals!StartsBeforeDisjoint(t, m)
  <2>1. u = [s EXCEPT !.j = @ + 1]
    BY <1>5, <1>12
  <2>2. /\ u \in [found : Seq(Ivals), i : Int, j : Int] /\ u.found = s.found /\ u.i = s.i /\ u.j = s.j + 1
        /\ u.i \in 1..M + 1 /\ u.j \in 1..T + 1 /\ u.i + u.j = s.i + s.j + 1
    BY <1>s, <1>3, <2>1, SMTT(30)
  <2>3. ASSUME NEW x \in Int, NEW k \in 1..M, NEW q \in 1..T, Within(x, mine[k]), Within(x, theirs[q]),
               x \notin Intervals!Denoted(s.found)
        PROVE  k >= s.i /\ q >= s.j + 1
    BY <1>3, <1>4, <1>9, <1>10, <1>12, <2>3
  <2> QED BY <1>2, <2>2, <2>3 DEF MeetInv, M, T
<1>13. CASE ~Intervals!StartsBeforeDisjoint(m, t) /\ ~Intervals!StartsBeforeDisjoint(t, m) /\ MineEndsLast(m, t)
  <2>1. u = [s EXCEPT !.found = both, !.j = @ + 1]
    BY <1>5, <1>13
  <2>u. u = [found |-> both, i |-> s.i, j |-> s.j + 1]
    BY <1>s, <2>1
  <2>2. /\ u \in [found : Seq(Ivals), i : Int, j : Int] /\ u.found = both /\ u.i = s.i /\ u.j = s.j + 1
        /\ u.i \in 1..M + 1 /\ u.j \in 1..T + 1 /\ u.i + u.j = s.i + s.j + 1
    BY <1>s, <1>3, <1>b, <2>u, SMTT(30)
  <2>3. ASSUME NEW x \in Int, NEW k \in 1..M, NEW q \in 1..T, Within(x, mine[k]), Within(x, theirs[q]),
               x \notin Intervals!Denoted(both)
        PROVE  k >= s.i /\ q >= s.j + 1
    <3>1. x \notin Intervals!Denoted(s.found) /\ ~(Within(x, m) /\ Within(x, t))
      BY <1>6, <2>3
    <3> QED BY <1>3, <1>4, <1>9, <1>10, <1>13, <2>3, <3>1, SMTT(30)
  <2> QED BY <1>6, <1>8, <2>2, <2>3 DEF MeetInv, M, T
<1>14. CASE ~Intervals!StartsBeforeDisjoint(m, t) /\ ~Intervals!StartsBeforeDisjoint(t, m) /\ ~MineEndsLast(m, t)
  <2>1. u = [s EXCEPT !.found = both, !.i = @ + 1]
    BY <1>5, <1>14
  <2>u. u = [found |-> both, i |-> s.i + 1, j |-> s.j]
    BY <1>s, <2>1
  <2>2. /\ u \in [found : Seq(Ivals), i : Int, j : Int] /\ u.found = both /\ u.i = s.i + 1 /\ u.j = s.j
        /\ u.i \in 1..M + 1 /\ u.j \in 1..T + 1 /\ u.i + u.j = s.i + s.j + 1
    BY <1>s, <1>3, <1>b, <2>u
  <2>3. ASSUME NEW x \in Int, NEW k \in 1..M, NEW q \in 1..T, Within(x, mine[k]), Within(x, theirs[q]),
               x \notin Intervals!Denoted(both)
        PROVE  k >= s.i + 1 /\ q >= s.j
    <3>1. x \notin Intervals!Denoted(s.found) /\ ~(Within(x, m) /\ Within(x, t))
      BY <1>6, <2>3
    <3> QED BY <1>3, <1>4, <1>9, <1>10, <1>14, <2>3, <3>1
  <2> QED BY <1>6, <1>8, <2>2, <2>3 DEF MeetInv, M, T
<1> QED BY <1>11, <1>12, <1>13, <1>14

LEMMA AndIs ==
    ASSUME NEW mine, IsList(mine), NEW theirs, IsList(theirs), NEW s, s = Intervals!And(mine, theirs)
    PROVE  /\ IsList(s)
           /\ \A x : x \in Intervals!Denoted(s) <=> x \in Intervals!Denoted(mine) /\ x \in Intervals!Denoted(theirs)
<1> DEFINE n == Len(mine) + Len(theirs)
           S == {u \in [found : Seq(Ivals), i : Int, j : Int] : MeetInv(u, mine, theirs)}
           base == [found |-> <<>>, i |-> 1, j |-> 1]
           F == [k \in 1..n |-> [u \in S |-> Met(u, mine, theirs)]]
           f == CHOOSE h : AreMet(h, mine, theirs)
           Over(u) == u.i > Len(mine) \/ u.j > Len(theirs)
           In(k) == {u \in S : Over(u) \/ u.i + u.j = k + 2}
           P == [k \in 0..n |-> In(k)]
<1>1. mine \in Seq(Ivals) /\ theirs \in Seq(Ivals) /\ Len(mine) \in Nat /\ Len(theirs) \in Nat /\ n \in Nat
  BY ListHas
<1>2. \A u : u \in S <=> MeetInv(u, mine, theirs)
  BY DEF MeetInv
<1>3. base \in S /\ base.i + base.j = 2
  <2>1. base \in [found : Seq(Ivals), i : Int, j : Int] /\ base.found = <<>> /\ base.i = 1 /\ base.j = 1
    OBVIOUS
  <2> HIDE DEF base
  <2>2. base.i \in 1..Len(mine) + 1 /\ base.j \in 1..Len(theirs) + 1
    BY <1>1, <2>1
  <2>3. \A k \in 1..Len(mine), q \in 1..Len(theirs) : k >= base.i /\ q >= base.j
    BY <1>1, <2>1
  <2>4. MeetInv(base, mine, theirs)
    BY <2>1, <2>2, <2>3, NoneIs DEF MeetInv
  <2> QED BY <1>2, <2>1, <2>4
<1>4. ASSUME NEW u \in S
      PROVE  /\ Met(u, mine, theirs) \in S
             /\ Over(u) => Met(u, mine, theirs) = u
             /\ ~Over(u) => Met(u, mine, theirs).i + Met(u, mine, theirs).j = u.i + u.j + 1
  <2>1. CASE Over(u)
    BY <2>1 DEF Met
  <2>2. CASE ~Over(u)
    <3>1. MeetInv(u, mine, theirs) /\ u.i \in Int /\ u.j \in Int
      BY <1>2
    <3>2. u.i <= Len(mine) /\ u.j <= Len(theirs)
      BY <1>1, <2>2, <3>1
    <3>3. Met(u, mine, theirs) = Intervals!Meet(u, mine, theirs)
      BY <2>2, Zenon DEF Met
    <3> HIDE DEF S
    <3> QED BY <1>2, <2>2, <3>1, <3>2, <3>3, MeetKeeps
  <2> QED BY <2>1, <2>2
<1>5. \A u \in S : u.i \in 1..Len(mine) + 1 /\ u.j \in 1..Len(theirs) + 1
  BY <1>2 DEF MeetInv
<1> HIDE DEF S
<1>6. \E h : AreMet(h, mine, theirs)
  <2>1. F \in [1..n -> [S -> S]]
    BY <1>4
  <2>2. ASSUME NEW k \in 1..n, NEW u \in S PROVE F[k][u] = Met(u, mine, theirs)
    OBVIOUS
  <2> HIDE DEF F, n, base
  <2>3. \E g \in [0..n -> S] : IsRunOf(g, n, base, F)
    BY <1>1, <1>3, <2>1, TurnsExist
  <2>4. PICK g \in [0..n -> S] : g[0] = base /\ \A k \in 1..n : g[k] = F[k][g[k - 1]]
    BY <2>3, Zenon DEF IsRunOf
  <2>5. \A k \in 0..n : g[k] = IF k = 0 THEN base ELSE Met(g[k - 1], mine, theirs)
    <3> SUFFICES ASSUME NEW k \in 0..n, k # 0 PROVE g[k] = Met(g[k - 1], mine, theirs)
      BY <2>4
    <3>1. k \in 1..n /\ k - 1 \in 0..n
      BY <1>1
    <3> QED BY <2>2, <2>4, <3>1
  <2>6. g = [k \in 0..n |-> g[k]]
    OBVIOUS
  <2>7. AreMet(g, mine, theirs)
    BY <2>5, <2>6 DEF AreMet, n, base
  <2> QED BY <2>7
<1>7. AreMet(f, mine, theirs)
  BY <1>6
<1>8. s = f[n].found
  BY Zenon DEF Intervals!And, AreMet, Met
<1> HIDE DEF f
<1>9. f[0] = base /\ \A k \in 1..n : f[k] = Met(f[k - 1], mine, theirs)
  <2>1. f = [k \in 0..n |-> IF k = 0 THEN base ELSE Met(f[k - 1], mine, theirs)]
    BY <1>7, Zenon DEF AreMet
  <2>2. 0 \in 0..n /\ \A k \in 1..n : k \in 0..n /\ k # 0
    BY <1>1
  <2> HIDE DEF n
  <2> QED BY <2>1, <2>2
<1>10. \A k \in 0..n : P[k] = In(k)
  OBVIOUS
<1> HIDE DEF P, base
<1>11. f[0] \in P[0]
  BY <1>1, <1>3, <1>9, <1>10
<1>12. ASSUME NEW k \in 1..n, f[k - 1] \in P[k - 1] PROVE f[k] \in P[k]
  <2> DEFINE u == f[k - 1]
  <2>1. k - 1 \in 0..n /\ k \in 0..n /\ k \in Int
    OBVIOUS
  <2>2. u \in In(k - 1) /\ f[k] = Met(u, mine, theirs)
    BY <1>9, <1>10, <1>12, <2>1
  <2> HIDE DEF u
  <2>3. f[k] \in In(k)
    <3>1. CASE Over(u)
      BY <1>4, <2>2, <3>1
    <3>2. CASE ~Over(u)
      <4>1. u \in S /\ u.i + u.j = (k - 1) + 2 /\ u.i \in Int /\ u.j \in Int
        BY <1>5, <2>2, <3>2
      <4>2. f[k] \in S /\ f[k].i + f[k].j = u.i + u.j + 1
        BY <1>4, <2>2, <3>2, <4>1
      <4>3. f[k].i + f[k].j = k + 2
        BY <2>1, <4>1, <4>2
      <4> QED BY <4>2, <4>3
    <3> QED BY <3>1, <3>2
  <2> HIDE DEF In
  <2> QED BY <1>10, <2>1, <2>3
<1>13. \A k \in 0..n : f[k] \in P[k]
  <2> HIDE DEF n, In
  <2> QED BY <1>1, <1>11, <1>12, TurnsKeep
<1> DEFINE u == f[n]
<1>14. u \in S /\ Over(u)
  <2>1. u \in In(n) /\ n \in 0..n
    <3>1. n \in 0..n
      BY <1>1
    <3> HIDE DEF n, In
    <3> QED BY <1>10, <1>13, <3>1
  <2>2. u \in S /\ (Over(u) \/ u.i + u.j = n + 2)
    BY <2>1
  <2> HIDE DEF u
  <2> QED BY <1>1, <1>5, <2>2
<1>15. MeetInv(u, mine, theirs) /\ s = u.found
  BY <1>2, <1>8, <1>14
<1> HIDE DEF u
<1>16. ASSUME NEW x \in Intervals!Denoted(mine), x \in Intervals!Denoted(theirs) PROVE x \in Intervals!Denoted(s)
  <2>1. x \in Int /\ (\E k \in 1..Len(mine) : Within(x, mine[k])) /\ \E q \in 1..Len(theirs) : Within(x, theirs[q])
    BY <1>1, <1>16, DenotedIs
  <2>2. PICK k \in 1..Len(mine), q \in 1..Len(theirs) : Within(x, mine[k]) /\ Within(x, theirs[q])
    BY <2>1
  <2>3. x \in Intervals!Denoted(s) \/ (k >= u.i /\ q >= u.j)
    BY <1>15, <2>1, <2>2 DEF MeetInv
  <2>4. ~(k >= u.i /\ q >= u.j)
    BY <1>1, <1>5, <1>14
  <2> QED BY <2>3, <2>4
<1> QED BY <1>15, <1>16 DEF MeetInv

\* subtract leaves behind it what does not meet what is taken away.  An interval
\* ahead that starts below 0 is still one of the list it started with.
CutTurn(s, right) == IF s.i > Len(s.result) \/ s.j > Len(right) THEN s ELSE Intervals!Cut(s, right)
AreCut(h, left, right) ==
    h = [n \in 0..Len(left) + Len(right) |->
            IF n = 0 THEN [result |-> left, i |-> 1, j |-> 1] ELSE CutTurn(h[n - 1], right)]
CutInv(s, left, right) ==
    /\ s \in [result : Seq(Ivals), i : Int, j : Int]
    /\ IsList(s.result)
    /\ s.i \in 1..Len(s.result) + 1 /\ s.j \in 1..Len(right) + 1
    /\ \A k \in 1..Len(s.result), q \in 1..Len(right) :
         k < s.i \/ q < s.j => s.result[k].b < right[q].a \/ right[q].b < s.result[k].a
    /\ \A x \in Intervals!Denoted(s.result) : x \in Intervals!Denoted(left)
    /\ \A x \in Intervals!Denoted(left) : \/ x \in Intervals!Denoted(right)
                                          \/ x \in Intervals!Denoted(s.result)
                                          \/ x \in Intervals!Forgotten(left, right)
    /\ \A k \in 1..Len(s.result) :
         k >= s.i /\ s.result[k].a < 0 => \E p \in 1..Len(left) : left[p] = s.result[k]

LEMMA ForgottenIs ==
    ASSUME NEW left, IsList(left), NEW right, NEW p \in 1..Len(left), left[p].a < 0, NEW x \in Int, Within(x, left[p]),
           NEW y \in Int, Within(y, left[p]), y \in Intervals!Denoted(right)
    PROVE  x \in Intervals!Forgotten(left, right)
<1>1. left \in Seq(Ivals) /\ left[p].a \in Int /\ left[p].b \in Int
  BY ListHas
<1>2. left[p] \in Intervals!ToSet(left)
  <2>1. DOMAIN left = 1..Len(left)
    BY <1>1
  <2> QED BY <2>1, Zenon DEF Intervals!ToSet
<1>3. x \in left[p].a..left[p].b /\ y \in left[p].a..left[p].b
  BY <1>1 DEF Within
<1>4. left[p] \in {i \in Intervals!ToSet(left) : i.a < 0 /\ i.a..i.b \cap Intervals!Denoted(right) # {}}
  BY <1>2, <1>3
<1> QED BY <1>3, <1>4, Zenon DEF Intervals!Forgotten

\* What is put in the place of the interval cut, and the turns taken with it.
Replaces(mid, s, left, right, i, j) ==
    LET l == s.result[s.i]
        r == right[s.j]
    IN  /\ \A q \in 1..Len(mid) : l.a <= mid[q].a /\ mid[q].b <= l.b
        /\ i = s.i \/ (i = s.i + 1 /\ Len(mid) >= 1)
        /\ j = s.j \/ (j = s.j + 1 /\ r.b <= l.b)
        /\ \A q \in 1..Len(mid) : IF s.i + q <= i THEN mid[q].b < r.a ELSE mid[q].a >= 0
        /\ j = s.j + 1 => \A q \in 1..Len(mid) : mid[q].b < r.a \/ r.b < mid[q].a
        /\ \A x \in Int :
             Within(x, l) => Within(x, r) \/ x \in Intervals!Denoted(mid) \/ x \in Intervals!Forgotten(left, right)

LEMMA CutInstead ==
    ASSUME NEW left, IsList(left), NEW right, IsList(right), NEW s, CutInv(s, left, right),
           s.i <= Len(s.result), s.j <= Len(right), NEW mid, IsList(mid),
           NEW i, NEW j, Replaces(mid, s, left, right, i, j),
           NEW u, u = [result |-> Intervals!Spliced(s.result, s.i, s.i, mid), i |-> i, j |-> j]
    PROVE  CutInv(u, left, right) /\ Len(u.result) = Len(s.result) + Len(mid) - 1 /\ u.i = i /\ u.j = j
<1> DEFINE list == s.result
           c == s.i
           d == s.j
           l == list[c]
           r == right[d]
           new == Intervals!Spliced(list, c, c, mid)
           n == Len(list)
           m == Len(mid)
           R == Len(right)
<1>1. /\ s \in [result : Seq(Ivals), i : Int, j : Int]
      /\ IsList(list) /\ c \in 1..n + 1 /\ d \in 1..R + 1
      /\ \A k \in 1..n, q \in 1..R : k < c \/ q < d => list[k].b < right[q].a \/ right[q].b < list[k].a
      /\ \A x \in Intervals!Denoted(list) : x \in Intervals!Denoted(left)
      /\ \A x \in Intervals!Denoted(left) :
            x \in Intervals!Denoted(right) \/ x \in Intervals!Denoted(list) \/ x \in Intervals!Forgotten(left, right)
      /\ \A k \in 1..n : k >= c /\ list[k].a < 0 => \E p \in 1..Len(left) : left[p] = list[k]
  BY DEF CutInv
<1>2. /\ list \in Seq(Ivals) /\ n \in Nat
      /\ \A k \in 1..n : list[k].a \in Int /\ list[k].b \in Int /\ list[k].a <= list[k].b
      /\ \A h, k \in 1..n : h < k => list[h].b + 1 < list[k].a
  BY <1>1, ListHas
<1>3. /\ right \in Seq(Ivals) /\ R \in Nat
      /\ \A k \in 1..R : right[k].a \in Int /\ right[k].b \in Int /\ right[k].a <= right[k].b
      /\ \A h, k \in 1..R : h < k => right[h].b + 1 < right[k].a
  BY ListHas
<1>4. /\ mid \in Seq(Ivals) /\ m \in Nat
      /\ \A k \in 1..m : mid[k].a \in Int /\ mid[k].b \in Int /\ mid[k].a <= mid[k].b
  BY ListHas
<1>5. c \in 1..n /\ c \in 1..n + 1 /\ c \in c - 1..n /\ d \in 1..R /\ c \in Int /\ d \in Int
  BY <1>1, <1>2, <1>3
<1>6. l.a \in Int /\ l.b \in Int /\ l.a <= l.b /\ r.a \in Int /\ r.b \in Int /\ r.a <= r.b
  BY <1>2, <1>3, <1>5
<1>h. /\ \A q \in 1..m : l.a <= mid[q].a /\ mid[q].b <= l.b
      /\ i = c \/ (i = c + 1 /\ m >= 1)
      /\ j = d \/ (j = d + 1 /\ r.b <= l.b)
      /\ \A q \in 1..m : IF c + q <= i THEN mid[q].b < r.a ELSE mid[q].a >= 0
      /\ j = d + 1 => \A q \in 1..m : mid[q].b < r.a \/ r.b < mid[q].a
      /\ \A x \in Int :
           Within(x, l) => Within(x, r) \/ x \in Intervals!Denoted(mid) \/ x \in Intervals!Forgotten(left, right)
  BY Zenon DEF Replaces
<1>i. i \in Int /\ j \in Int
  BY <1>5, <1>h
<1>u. u = [result |-> new, i |-> i, j |-> j]
  OBVIOUS
<1>l. l = list[c] /\ r = right[d]
  OBVIOUS
<1>o. n = Len(list) /\ m = Len(mid) /\ R = Len(right)
  OBVIOUS
<1> HIDE DEF list, c, d, l, r, n, m, R
<1>7. /\ new \in Seq(Ivals) /\ Len(new) = n + m - 1
      /\ \A p \in 1..Len(new) : new[p] = IF p < c THEN list[p] ELSE IF p < c + m THEN mid[p - c + 1]
                                         ELSE list[p - c + 1 - m + c]
  <2>1. /\ new \in Seq(Ivals) /\ Len(new) = c - 1 + m + n - c
        /\ \A p \in 1..Len(new) : new[p] = IF p < c THEN list[p] ELSE IF p < c + m THEN mid[p - c + 1]
                                           ELSE list[p - c + 1 - m + c]
    <3>1. IsSpliced(new, list, c, c, mid)
      BY <1>2, <1>4, <1>5, SplicedAt DEF n
    <3> QED BY <3>1, Zenon DEF IsSpliced, n, m
  <2> HIDE DEF new
  <2> QED BY <1>2, <1>4, <1>5, <2>1
<1>8. /\ IsList(new)
      /\ \A x : x \in Intervals!Denoted(new) <=>
                  x \in Intervals!Denoted(mid) \/ (x \in Intervals!Denoted(list) /\ ~Within(x, l))
  BY <1>1, <1>5, <1>h, <1>l, InsteadIs DEF n, m
<1>9. u.result = new /\ u.i = i /\ u.j = j /\ u \in [result : Seq(Ivals), i : Int, j : Int]
  BY <1>i, <1>u, <1>7
<1> HIDE DEF new
<1>10. ASSUME NEW p \in 1..Len(new)
       PROVE  \/ p < c /\ p \in 1..n /\ new[p] = list[p]
              \/ \E q \in 1..m : p = c + q - 1 /\ new[p] = mid[q]
              \/ \E k \in 1..n : k > c /\ p = k + m - 1 /\ new[p] = list[k]
  <2>1. CASE p < c
    BY <1>2, <1>5, <1>7, <2>1, SMTT(30)
  <2>2. CASE ~(p < c) /\ p < c + m
    <3>1. p - c + 1 \in 1..m /\ p = c + (p - c + 1) - 1 /\ new[p] = mid[p - c + 1]
      BY <1>4, <1>5, <1>7, <2>2
    <3> QED BY <3>1
  <2>3. CASE ~(p < c + m)
    <3>1. ~(p < c)
      BY <1>4, <1>5, <2>3
    <3>2. p - c + 1 - m + c = p - m + 1 /\ p - m + 1 \in 1..n /\ p - m + 1 > c /\ p = (p - m + 1) + m - 1
      BY <1>2, <1>4, <1>5, <1>7, <2>3
    <3>3. new[p] = list[p - m + 1]
      BY <1>7, <2>3, <3>1, <3>2
    <3> QED BY <3>2, <3>3
  <2> QED BY <2>1, <2>2, <2>3
<1>11. i \in 1..Len(new) + 1 /\ j \in 1..R + 1
  BY <1>2, <1>3, <1>4, <1>5, <1>7, <1>h, <1>i
<1>12. ASSUME NEW p \in 1..Len(new), NEW q \in 1..R, p < i \/ q < j
       PROVE  new[p].b < right[q].a \/ right[q].b < new[p].a
  <2>1. CASE p < c /\ p \in 1..n /\ new[p] = list[p]
    BY <1>1, <2>1
  <2>2. ASSUME NEW h \in 1..m, p = c + h - 1, new[p] = mid[h]
        PROVE  mid[h].b < right[q].a \/ right[q].b < mid[h].a
    <3>1. /\ mid[h].a \in Int /\ mid[h].b \in Int /\ right[q].a \in Int /\ right[q].b \in Int
          /\ l.a <= mid[h].a /\ mid[h].b <= l.b
      BY <1>3, <1>4, <1>h
    <3>2. CASE q < d
      <4>1. l.b < right[q].a \/ right[q].b < l.a
        BY <1>1, <1>5, <1>l, <3>2
      <4>2. CASE l.b < right[q].a
        BY <1>6, <3>1, <4>2
      <4>3. CASE right[q].b < l.a
        BY <1>6, <3>1, <4>3, SMTT(30)
      <4> QED BY <4>1, <4>2, <4>3
    <3>3. CASE p < i /\ ~(q < d)
      <4>1. c + h <= i
        BY <1>5, <1>i, <2>2, <3>3
      <4>2. mid[h].b < r.a
        BY <1>h, <4>1
      <4>3. q = d \/ d < q
        BY <1>5, <3>3
      <4>4. r.a <= right[q].a
        <5>1. CASE q = d
          BY <1>6, <1>l, <5>1
        <5>2. CASE d < q
          <6>1. right[d].b + 1 < right[q].a
            BY <1>3, <1>5, <5>2
          <6> QED BY <1>6, <1>l, <3>1, <6>1, SMTT(30)
        <5> QED BY <4>3, <5>1, <5>2
      <4> QED BY <1>6, <3>1, <4>2, <4>4
    <3>4. CASE ~(p < i) /\ ~(q < d)
      <4>1. j = d + 1 /\ q = d
        BY <1>5, <1>h, <1>12, <3>4
      <4> QED BY <1>h, <1>l, <4>1
    <3> QED BY <3>2, <3>3, <3>4
  <2>3. ASSUME NEW k \in 1..n, k > c, p = k + m - 1, new[p] = list[k]
        PROVE  list[k].b < right[q].a \/ right[q].b < list[k].a
    <3>1. ~(p < i)
      <4>1. p \in Int /\ k \in Int /\ i <= c + m
        BY <1>4, <1>5, <1>h, <2>3
      <4> QED BY <1>4, <1>5, <1>i, <2>3, <4>1
    <3>2. CASE q < d
      BY <1>1, <3>2
    <3>3. CASE ~(q < d)
      <4>1. j = d + 1 /\ q = d
        BY <1>5, <1>h, <1>12, <3>1, <3>3
      <4>2. r.b <= l.b
        BY <1>5, <1>h, <4>1
      <4>3. l.b + 1 < list[k].a /\ list[k].a \in Int
        BY <1>2, <1>5, <1>l, <2>3
      <4> QED BY <1>6, <1>l, <4>1, <4>2, <4>3
    <3> QED BY <3>2, <3>3
  <2> QED BY <1>10, <2>1, <2>2, <2>3
<1>13. ASSUME NEW x \in Intervals!Denoted(new) PROVE x \in Intervals!Denoted(left)
  <2>1. CASE x \in Intervals!Denoted(list)
    BY <1>1, <2>1
  <2>2. CASE x \in Intervals!Denoted(mid)
    <3>1. x \in Int /\ \E q \in 1..m : Within(x, mid[q])
      BY <1>4, <1>o, <2>2, DenotedIs
    <3>2. Within(x, l)
      <4>1. PICK q \in 1..m : Within(x, mid[q])
        BY <3>1
      <4>2. mid[q].a \in Int /\ mid[q].b \in Int /\ l.a <= mid[q].a /\ mid[q].b <= l.b
        BY <1>4, <1>h
      <4>3. x \in Int /\ mid[q].a <= x /\ x <= mid[q].b
        BY <3>1, <4>1 DEF Within
      <4>4. l.a <= x /\ x <= l.b
        BY <1>6, <4>2, <4>3
      <4> QED BY <4>4 DEF Within
    <3>3. x \in Intervals!Denoted(list)
      BY <1>2, <1>5, <1>l, <1>o, <3>1, <3>2, DenotedIs
    <3> QED BY <1>1, <3>3
  <2> QED BY <1>8, <2>1, <2>2
<1>14. ASSUME NEW x \in Intervals!Denoted(left)
       PROVE  x \in Intervals!Denoted(right) \/ x \in Intervals!Denoted(new) \/ x \in Intervals!Forgotten(left, right)
  <2> SUFFICES ASSUME x \in Intervals!Denoted(list), Within(x, l)
               PROVE  x \in Intervals!Denoted(right) \/ x \in Intervals!Denoted(mid) \/ x \in Intervals!Forgotten(left, right)
    BY <1>1, <1>8
  <2>1. x \in Int
    BY <1>2, DenotedIs
  <2>2. Within(x, r) => x \in Intervals!Denoted(right)
    BY <1>3, <1>5, <1>l, <1>o, <2>1, DenotedIs
  <2> QED BY <1>h, <2>1, <2>2
<1>15. ASSUME NEW p \in 1..Len(new), p >= i, new[p].a < 0 PROVE \E h \in 1..Len(left) : left[h] = new[p]
  <2>1. ~(p < c)
    BY <1>5, <1>i, <1>h, <1>15
  <2>2. ASSUME NEW h \in 1..m, p = c + h - 1, new[p] = mid[h] PROVE FALSE
    <3>1. ~(c + h <= i)
      BY <1>5, <1>i, <1>15, <2>2
    <3>2. mid[h].a >= 0 /\ mid[h].a \in Int
      BY <1>4, <1>h, <3>1
    <3> QED BY <1>15, <2>2, <3>2
  <2>3. ASSUME NEW k \in 1..n, k > c, new[p] = list[k] PROVE \E h \in 1..Len(left) : left[h] = new[p]
    <3>1. k >= c /\ list[k].a < 0
      BY <1>5, <1>15, <2>3
    <3> QED BY <1>1, <2>3, <3>1
  <2> QED BY <1>10, <2>1, <2>2, <2>3
<1>16. CutInv(u, left, right)
  BY <1>8, <1>9, <1>11, <1>12, <1>13, <1>14, <1>15 DEF CutInv, R, list
<1> QED BY <1>7, <1>9, <1>16 DEF n, m, list

\* A list of two intervals.
LEMMA TwoAre ==
    ASSUME NEW p \in Ivals, NEW q \in Ivals, p.a <= p.b, q.a <= q.b, p.b + 1 < q.a
    PROVE  /\ IsList(<<p, q>>) /\ Len(<<p, q>>) = 2 /\ <<p, q>>[1] = p /\ <<p, q>>[2] = q
           /\ \A x : x \in Intervals!Denoted(<<p, q>>) <=> x \in Int /\ (Within(x, p) \/ Within(x, q))
<1> DEFINE l == <<p, q>>
<1>1. l \in Seq(Ivals) /\ Len(l) = 2 /\ l[1] = p /\ l[2] = q
  OBVIOUS
<1> HIDE DEF l
<1>2. Intervals!IsNormal(l)
  <2>1. \A k \in 1..2 : k = 1 \/ k = 2
    OBVIOUS
  <2>2. \A k \in 1..2 : l[k].a <= l[k].b
    BY <1>1, <2>1
  <2>3. ASSUME NEW j \in 1..2, NEW k \in 1..2, j < k PROVE l[j].b + 1 < l[k].a
    <3>1. j = 1 /\ k = 2
      BY <2>3
    <3> QED BY <1>1, <3>1
  <2> QED BY <1>1, <2>2, <2>3, ListIs
<1>3. ASSUME NEW x PROVE x \in Intervals!Denoted(l) <=> x \in Int /\ (Within(x, p) \/ Within(x, q))
  <2>1. x \in Intervals!Denoted(l) <=> x \in Int /\ \E n \in 1..2 : Within(x, l[n])
    BY <1>1, DenotedIs
  <2>2. \A k : k \in 1..2 <=> k = 1 \/ k = 2
    OBVIOUS
  <2> QED BY <1>1, <2>1, <2>2
<1> QED BY <1>1, <1>2, <1>3 DEF l, IsList

LEMMA CutKeeps ==
    ASSUME NEW left, IsList(left), NEW right, IsList(right), NEW s, CutInv(s, left, right),
           s.i <= Len(s.result), s.j <= Len(right), NEW u, u = Intervals!Cut(s, right)
    PROVE  CutInv(u, left, right) /\ Len(u.result) - u.i - u.j = Len(s.result) - s.i - s.j - 1
<1> DEFINE list == s.result
           n == Len(list)
           R == Len(right)
           i == s.i
           j == s.j
           l == list[i]
           r == right[j]
           before == r.a > l.a /\ l.a > -1
           after == r.b < l.b /\ r.b + 1 > -1
           Lower == [a |-> l.a, b |-> r.a - 1]
           Upper == [a |-> r.b + 1, b |-> l.b]
           Instead(mid) == Intervals!Spliced(list, i, i, mid)
<1>1. /\ s \in [result : Seq(Ivals), i : Int, j : Int]
      /\ IsList(list) /\ i \in 1..n + 1 /\ j \in 1..R + 1
      /\ \A k \in 1..n, q \in 1..R : k < i \/ q < j => list[k].b < right[q].a \/ right[q].b < list[k].a
      /\ \A x \in Intervals!Denoted(list) : x \in Intervals!Denoted(left)
      /\ \A x \in Intervals!Denoted(left) :
            x \in Intervals!Denoted(right) \/ x \in Intervals!Denoted(list) \/ x \in Intervals!Forgotten(left, right)
      /\ \A k \in 1..n : k >= i /\ list[k].a < 0 => \E p \in 1..Len(left) : left[p] = list[k]
  BY DEF CutInv
<1>2. /\ list \in Seq(Ivals) /\ n \in Nat
      /\ \A k \in 1..n : list[k].a \in Int /\ list[k].b \in Int /\ list[k].a <= list[k].b
      /\ \A h, k \in 1..n : h < k => list[h].b + 1 < list[k].a
  BY <1>1, ListHas
<1>3. /\ right \in Seq(Ivals) /\ R \in Nat
      /\ \A k \in 1..R : right[k].a \in Int /\ right[k].b \in Int /\ right[k].a <= right[k].b
      /\ \A h, k \in 1..R : h < k => right[h].b + 1 < right[k].a
  BY ListHas
<1>5. i \in 1..n /\ j \in 1..R /\ i \in Int /\ j \in Int
  BY <1>1, <1>2, <1>3
<1>6. l.a \in Int /\ l.b \in Int /\ l.a <= l.b /\ r.a \in Int /\ r.b \in Int /\ r.a <= r.b
  BY <1>2, <1>3, <1>5
<1>7. u = IF r.b < l.a THEN [s EXCEPT !.j = @ + 1]
          ELSE IF r.a > l.b THEN [s EXCEPT !.i = @ + 1]
          ELSE IF before /\ after THEN [result |-> Instead(<<Lower, Upper>>), i |-> i + 1, j |-> j + 1]
          ELSE IF before THEN [s EXCEPT !.result = Instead(<<Lower>>), !.i = @ + 1]
          ELSE IF after THEN [s EXCEPT !.result = Instead(<<Upper>>), !.j = @ + 1]
          ELSE [s EXCEPT !.result = Instead(<<>>)]
  BY Zenon DEF Intervals!Cut, Intervals!Interval
<1>s. s \in [result : Seq(Ivals), i : Int, j : Int] /\ s.result = list /\ s.i = i /\ s.j = j
  BY <1>1
<1>l. l = list[i] /\ r = right[j]
  OBVIOUS
<1>f. ASSUME NEW x \in Int, Within(x, l), l.a < 0, ~(r.b < l.a), ~(r.a > l.b) PROVE x \in Intervals!Forgotten(left, right)
  <2>1. PICK p \in 1..Len(left) : left[p] = l
    BY <1>1, <1>5, <1>f
  <2> DEFINE y == IF l.a <= r.a THEN r.a ELSE l.a
  <2>2. y \in Int /\ Within(y, l) /\ Within(y, r)
    <3> HIDE DEF l, r
    <3>1. CASE l.a <= r.a
      <4>1. y = r.a
        BY <3>1
      <4> QED BY <1>6, <1>f, <3>1, <4>1 DEF Within
    <3>2. CASE ~(l.a <= r.a)
      <4>1. y = l.a
        BY <3>2
      <4> QED BY <1>6, <1>f, <3>2, <4>1 DEF Within
    <3> QED BY <3>1, <3>2
  <2> HIDE DEF y
  <2>3. y \in Intervals!Denoted(right)
    BY <1>3, <1>5, <2>2, DenotedIs
  <2> QED BY <1>f, <2>1, <2>2, <2>3, ForgottenIs
<1>m. ASSUME NEW mid, IsList(mid), NEW h, NEW k, Replaces(mid, s, left, right, h, k),
             u = [result |-> Instead(mid), i |-> h, j |-> k]
      PROVE  CutInv(u, left, right) /\ Len(u.result) = n + Len(mid) - 1 /\ u.i = h /\ u.j = k
  BY <1>m, CutInstead
<1>e. ASSUME NEW mid, IsList(mid), NEW h, NEW k,
             \A q \in 1..Len(mid) : l.a <= mid[q].a /\ mid[q].b <= l.b,
             h = i \/ (h = i + 1 /\ Len(mid) >= 1), k = j \/ (k = j + 1 /\ r.b <= l.b),
             \A q \in 1..Len(mid) : IF i + q <= h THEN mid[q].b < r.a ELSE mid[q].a >= 0,
             k = j + 1 => \A q \in 1..Len(mid) : mid[q].b < r.a \/ r.b < mid[q].a,
             \A x \in Int : Within(x, l) => \/ Within(x, r)
                                            \/ x \in Intervals!Denoted(mid)
                                            \/ x \in Intervals!Forgotten(left, right)
      PROVE  Replaces(mid, s, left, right, h, k)
  BY <1>e, Zenon DEF Replaces
<1> DEFINE Done == CutInv(u, left, right) /\ Len(u.result) - u.i - u.j = n - i - j - 1
<1> HIDE DEF list, n, R, i, j, l, r, before, after, Lower, Upper, Instead
<1>n. n \in Nat /\ R \in Nat /\ list \in Seq(Ivals)
  BY <1>2, <1>3
<1>8. CASE r.b < l.a
  <2>1. u = [s EXCEPT !.j = @ + 1]
    BY <1>7, <1>8
  <2>u. u = [result |-> list, i |-> i, j |-> j + 1]
    BY <1>s, <2>1
  <2>2. /\ u \in [result : Seq(Ivals), i : Int, j : Int] /\ u.result = list /\ u.i = i /\ u.j = j + 1
        /\ j + 1 \in 1..R + 1 /\ n - i - (j + 1) = n - i - j - 1
    BY <1>n, <1>5, <2>u
  <2>3. ASSUME NEW k \in 1..n, NEW q \in 1..R, k < i \/ q < j + 1 PROVE list[k].b < right[q].a \/ right[q].b < list[k].a
    <3>1. CASE k < i \/ q < j
      BY <1>1, <3>1
    <3>2. CASE ~(k < i) /\ q = j
      <4>1. l.a <= list[k].a
        <5>1. CASE k = i
          BY <1>6, <1>l, <5>1
        <5>2. CASE i < k
          <6>1. l.b + 1 < list[k].a /\ list[k].a \in Int
            BY <1>2, <1>5, <1>l, <5>2
          <6> QED BY <1>6, <6>1
        <5> QED BY <1>5, <3>2, <5>1, <5>2
      <4>2. list[k].a \in Int
        BY <1>2
      <4> QED BY <1>6, <1>8, <1>l, <3>2, <4>1, <4>2
    <3> QED BY <1>5, <2>3, <3>1, <3>2
  <2>4. CutInv(u, left, right)
    BY <1>1, <2>2, <2>3 DEF CutInv, n, R
  <2> QED BY <2>2, <2>4 DEF n, i, j, list
<1>9. CASE ~(r.b < l.a) /\ r.a > l.b
  <2>1. u = [s EXCEPT !.i = @ + 1]
    BY <1>7, <1>9
  <2>u. u = [result |-> list, i |-> i + 1, j |-> j]
    BY <1>s, <2>1
  <2>2. /\ u \in [result : Seq(Ivals), i : Int, j : Int] /\ u.result = list /\ u.i = i + 1 /\ u.j = j
        /\ i + 1 \in 1..n + 1 /\ n - (i + 1) - j = n - i - j - 1
    BY <1>n, <1>5, <2>u
  <2>3. ASSUME NEW k \in 1..n, NEW q \in 1..R, k < i + 1 \/ q < j PROVE list[k].b < right[q].a \/ right[q].b < list[k].a
    <3>1. CASE k < i \/ q < j
      BY <1>1, <3>1
    <3>2. CASE k = i /\ ~(q < j)
      <4>1. r.a <= right[q].a
        <5>1. CASE q = j
          BY <1>6, <1>l, <5>1
        <5>2. CASE j < q
          <6>1. r.b + 1 < right[q].a /\ right[q].a \in Int
            BY <1>3, <1>5, <1>l, <5>2
          <6> QED BY <1>6, <6>1
        <5> QED BY <1>5, <3>2, <5>1, <5>2
      <4>2. right[q].a \in Int
        BY <1>3
      <4> QED BY <1>6, <1>9, <1>l, <3>2, <4>1, <4>2
    <3> QED BY <1>5, <2>3, <3>1, <3>2
  <2>4. \A k \in 1..n : k >= i + 1 => k >= i
    BY <1>5
  <2>5. \A k \in 1..n : k >= i + 1 /\ list[k].a < 0 => \E p \in 1..Len(left) : left[p] = list[k]
    BY <1>1, <2>4
  <2>6. i + 1 \in 1..n + 1
    BY <2>2
  <2>7. CutInv(u, left, right)
    BY <1>1, <2>2, <2>3, <2>5 DEF CutInv, n, R
  <2> QED BY <2>2, <2>7 DEF n, i, j, list
<1>10. ASSUME ~(r.b < l.a), ~(r.a > l.b) PROVE Done
  <2>1. CASE before /\ after
    <3> DEFINE mid == <<Lower, Upper>>
    <3>1. u = [result |-> Instead(mid), i |-> i + 1, j |-> j + 1]
      BY <1>7, <1>10, <2>1
    <3>2. /\ Lower \in Ivals /\ Upper \in Ivals /\ Lower.a = l.a /\ Lower.b = r.a - 1 /\ Upper.a = r.b + 1 /\ Upper.b = l.b
          /\ Lower.a <= Lower.b /\ Upper.a <= Upper.b /\ Lower.b + 1 < Upper.a
          /\ r.a > l.a /\ l.a > -1 /\ r.b < l.b /\ r.b + 1 > -1
      BY <1>6, <1>10, <2>1 DEF Ivals, Lower, Upper, before, after
    <3>3. /\ IsList(mid) /\ Len(mid) = 2 /\ mid[1] = Lower /\ mid[2] = Upper
          /\ \A x : x \in Intervals!Denoted(mid) <=> x \in Int /\ (Within(x, Lower) \/ Within(x, Upper))
      BY <3>2, TwoAre
    <3> HIDE DEF mid
    <3>4. \A q \in 1..2 : q = 1 \/ q = 2
      OBVIOUS
    <3>5. \A q \in 1..2 : l.a <= mid[q].a /\ mid[q].b <= l.b /\ (mid[q].b < r.a \/ r.b < mid[q].a)
      BY <1>6, <3>2, <3>3, <3>4
    <3>6. ASSUME NEW q \in 1..2 PROVE IF i + q <= i + 1 THEN mid[q].b < r.a ELSE mid[q].a >= 0
      <4>1. CASE q = 1
        BY <1>5, <1>6, <3>2, <3>3, <4>1
      <4>2. CASE q = 2
        BY <1>5, <1>6, <3>2, <3>3, <4>2
      <4> QED BY <3>4, <4>1, <4>2
    <3>7. ASSUME NEW x \in Int, Within(x, l) PROVE Within(x, r) \/ x \in Intervals!Denoted(mid)
      <4>1. Within(x, r) \/ Within(x, Lower) \/ Within(x, Upper)
        BY <1>6, <3>2, <3>7 DEF Within
      <4> QED BY <3>3, <4>1
    <3>8. r.b <= l.b /\ Len(mid) >= 1
      BY <1>6, <3>2, <3>3
    <3>9. Replaces(mid, s, left, right, i + 1, j + 1)
      BY <1>e, <3>3, <3>5, <3>6, <3>7, <3>8
    <3>10. CutInv(u, left, right) /\ Len(u.result) = n + Len(mid) - 1 /\ u.i = i + 1 /\ u.j = j + 1
      BY <1>m, <3>3, <3>1, <3>9, Zenon
    <3> QED BY <1>n, <1>5, <3>3, <3>10
  <2>2. CASE before /\ ~after
    <3> DEFINE mid == <<Lower>>
    <3>1. u = [s EXCEPT !.result = Instead(mid), !.i = @ + 1]
      BY <1>7, <1>10, <2>2
    <3>2. /\ Lower \in Ivals /\ Lower.a = l.a /\ Lower.b = r.a - 1
          /\ Lower.a <= Lower.b /\ r.a > l.a /\ r.b >= l.b
      BY <1>6, <1>10, <2>2 DEF Ivals, Lower, before, after
    <3>3. /\ IsList(mid) /\ Len(mid) = 1 /\ \A q \in 1..1 : mid[q] = Lower
          /\ \A x : x \in Intervals!Denoted(mid) <=> x \in Int /\ Within(x, Lower)
      BY <3>2, OneIs
    <3> HIDE DEF mid
    <3>4. u = [result |-> Instead(mid), i |-> i + 1, j |-> j]
      BY <1>s, <3>1
    <3>5. \A q \in 1..1 : l.a <= mid[q].a /\ mid[q].b <= l.b /\ mid[q].b < r.a
      BY <1>6, <1>10, <3>2, <3>3
    <3>6. \A q \in 1..1 : i + q <= i + 1
      BY <1>5
    <3>7. ASSUME NEW x \in Int, Within(x, l) PROVE Within(x, r) \/ x \in Intervals!Denoted(mid)
      <4>1. Within(x, r) \/ Within(x, Lower)
        BY <1>6, <3>2, <3>7 DEF Within
      <4> QED BY <3>3, <4>1
    <3>8. Len(mid) >= 1 /\ ~(j = j + 1)
      BY <1>5, <3>3
    <3>9. Replaces(mid, s, left, right, i + 1, j)
      BY <1>e, <3>3, <3>5, <3>6, <3>7, <3>8
    <3>10. CutInv(u, left, right) /\ Len(u.result) = n + Len(mid) - 1 /\ u.i = i + 1 /\ u.j = j
      BY <1>m, <3>3, <3>4, <3>9, Zenon
    <3> QED BY <1>n, <1>5, <3>3, <3>10
  <2>3. CASE ~before /\ after
    <3> DEFINE mid == <<Upper>>
    <3>1. u = [s EXCEPT !.result = Instead(mid), !.j = @ + 1]
      BY <1>7, <1>10, <2>3
    <3>2. /\ Upper \in Ivals /\ Upper.a = r.b + 1 /\ Upper.b = l.b
          /\ Upper.a <= Upper.b /\ r.b < l.b /\ Upper.a >= 0 /\ (r.a <= l.a \/ l.a < 0)
      BY <1>6, <1>10, <2>3 DEF Ivals, Upper, before, after
    <3>3. /\ IsList(mid) /\ Len(mid) = 1 /\ \A q \in 1..1 : mid[q] = Upper
          /\ \A x : x \in Intervals!Denoted(mid) <=> x \in Int /\ Within(x, Upper)
      BY <3>2, OneIs
    <3> HIDE DEF mid
    <3>4. u = [result |-> Instead(mid), i |-> i, j |-> j + 1]
      BY <1>s, <3>1
    <3>5. \A q \in 1..1 : l.a <= mid[q].a /\ mid[q].b <= l.b /\ r.b < mid[q].a /\ mid[q].a >= 0
      BY <1>6, <1>10, <3>2, <3>3
    <3>6. \A q \in 1..1 : ~(i + q <= i)
      BY <1>5
    <3>7. ASSUME NEW x \in Int, Within(x, l)
          PROVE  Within(x, r) \/ x \in Intervals!Denoted(mid) \/ x \in Intervals!Forgotten(left, right)
      <4>1. CASE l.a < 0
        BY <1>f, <1>10, <3>7, <4>1
      <4>2. CASE r.a <= l.a
        <5>1. Within(x, r) \/ Within(x, Upper)
          BY <1>6, <3>2, <3>7, <4>2 DEF Within
        <5> QED BY <3>3, <5>1
      <4> QED BY <3>2, <4>1, <4>2
    <3>8. r.b <= l.b /\ ~(i = i + 1)
      BY <1>5, <1>6, <3>2
    <3>9. Replaces(mid, s, left, right, i, j + 1)
      BY <1>e, <3>3, <3>5, <3>6, <3>7, <3>8
    <3>10. CutInv(u, left, right) /\ Len(u.result) = n + Len(mid) - 1 /\ u.i = i /\ u.j = j + 1
      BY <1>m, <3>3, <3>4, <3>9, Zenon
    <3> QED BY <1>n, <1>5, <3>3, <3>10
  <2>4. CASE ~before /\ ~after
    <3> DEFINE mid == <<>>
    <3>1. u = [s EXCEPT !.result = Instead(mid)]
      BY <1>7, <1>10, <2>4
    <3>2. l.a < 0 \/ (r.a <= l.a /\ r.b >= l.b)
      BY <1>6, <1>10, <2>4 DEF before, after
    <3>3. IsList(mid) /\ Len(mid) = 0 /\ 1..0 = {}
      BY NoneIs
    <3> HIDE DEF mid
    <3>4. u = [result |-> Instead(mid), i |-> i, j |-> j]
      BY <1>s, <3>1
    <3>7. ASSUME NEW x \in Int, Within(x, l)
          PROVE  Within(x, r) \/ x \in Intervals!Denoted(mid) \/ x \in Intervals!Forgotten(left, right)
      <4>1. CASE l.a < 0
        BY <1>f, <1>10, <3>7, <4>1
      <4>2. CASE r.a <= l.a /\ r.b >= l.b
        BY <1>6, <3>7, <4>2 DEF Within
      <4> QED BY <3>2, <4>1, <4>2
    <3>8. ~(j = j + 1)
      BY <1>5
    <3>9. Replaces(mid, s, left, right, i, j)
      BY <1>e, <3>3, <3>7, <3>8
    <3>10. CutInv(u, left, right) /\ Len(u.result) = n - 1 /\ u.i = i /\ u.j = j
      BY <1>2, <1>m, <3>3, <3>4, <3>9
    <3> QED BY <1>2, <1>5, <3>10
  <2> QED BY <2>1, <2>2, <2>3, <2>4
<1> QED BY <1>8, <1>9, <1>10 DEF n, i, j, list

LEMMA SubtractedIs ==
    ASSUME NEW left, IsList(left), NEW right, IsList(right), NEW s, s = Intervals!Subtracted(left, right)
    PROVE  /\ IsList(s)
           /\ Intervals!Denoted(s) \subseteq Intervals!Denoted(left) \ Intervals!Denoted(right)
           /\ Intervals!Denoted(left) \ Intervals!Denoted(right) \subseteq
                Intervals!Denoted(s) \cup Intervals!Forgotten(left, right)
<1> DEFINE n == Len(left) + Len(right)
           S == {u \in [result : Seq(Ivals), i : Int, j : Int] : CutInv(u, left, right)}
           base == [result |-> left, i |-> 1, j |-> 1]
           F == [k \in 1..n |-> [u \in S |-> CutTurn(u, right)]]
           f == CHOOSE h : AreCut(h, left, right)
           Over(u) == u.i > Len(u.result) \/ u.j > Len(right)
           In(k) == {u \in S : Over(u) \/ Len(u.result) - u.i - u.j = Len(left) - 2 - k}
           P == [k \in 0..n |-> In(k)]
<1>1. left \in Seq(Ivals) /\ right \in Seq(Ivals) /\ Len(left) \in Nat /\ Len(right) \in Nat /\ n \in Nat
  BY ListHas
<1>2. \A u : u \in S <=> CutInv(u, left, right)
  BY DEF CutInv
<1>3. base \in S /\ Len(base.result) - base.i - base.j = Len(left) - 2
  <2>1. base \in [result : Seq(Ivals), i : Int, j : Int] /\ base.result = left /\ base.i = 1 /\ base.j = 1
    BY <1>1
  <2> HIDE DEF base
  <2>2. base.i \in 1..Len(left) + 1 /\ base.j \in 1..Len(right) + 1
    BY <1>1, <2>1
  <2>3. \A k \in 1..Len(left), q \in 1..Len(right) : ~(k < base.i \/ q < base.j)
    BY <1>1, <2>1
  <2>4. CutInv(base, left, right)
    BY <2>1, <2>2, <2>3, Zenon DEF CutInv
  <2> QED BY <1>1, <1>2, <2>1, <2>4
<1>4. ASSUME NEW u \in S
      PROVE  LET t == CutTurn(u, right) IN
             /\ t \in S
             /\ Over(u) => t = u
             /\ ~Over(u) => Len(t.result) - t.i - t.j = Len(u.result) - u.i - u.j - 1
  <2>1. CASE Over(u)
    BY <2>1 DEF CutTurn
  <2>2. CASE ~Over(u)
    <3>1. CutInv(u, left, right) /\ u.i \in Int /\ u.j \in Int /\ Len(u.result) \in Nat
      BY <1>2
    <3>2. u.i <= Len(u.result) /\ u.j <= Len(right)
      BY <1>1, <2>2, <3>1
    <3>3. CutTurn(u, right) = Intervals!Cut(u, right)
      BY <2>2, Zenon DEF CutTurn
    <3> HIDE DEF S
    <3> QED BY <1>2, <2>2, <3>1, <3>2, <3>3, CutKeeps
  <2> QED BY <2>1, <2>2
<1>5. \A u \in S : /\ u.i \in 1..Len(u.result) + 1 /\ u.j \in 1..Len(right) + 1
                   /\ u.result \in Seq(Ivals) /\ Len(u.result) \in Nat
  BY <1>2 DEF CutInv
<1> HIDE DEF S
<1>6. \E h : AreCut(h, left, right)
  <2>1. F \in [1..n -> [S -> S]]
    BY <1>4
  <2>2. ASSUME NEW k \in 1..n, NEW u \in S PROVE F[k][u] = CutTurn(u, right)
    OBVIOUS
  <2> HIDE DEF F, n, base
  <2>3. \E g \in [0..n -> S] : IsRunOf(g, n, base, F)
    BY <1>1, <1>3, <2>1, TurnsExist
  <2>4. PICK g \in [0..n -> S] : g[0] = base /\ \A k \in 1..n : g[k] = F[k][g[k - 1]]
    BY <2>3, Zenon DEF IsRunOf
  <2>5. \A k \in 0..n : g[k] = IF k = 0 THEN base ELSE CutTurn(g[k - 1], right)
    <3> SUFFICES ASSUME NEW k \in 0..n, k # 0 PROVE g[k] = CutTurn(g[k - 1], right)
      BY <2>4
    <3>1. k \in 1..n /\ k - 1 \in 0..n
      BY <1>1
    <3> QED BY <2>2, <2>4, <3>1
  <2>6. g = [k \in 0..n |-> g[k]]
    OBVIOUS
  <2>7. AreCut(g, left, right)
    BY <2>5, <2>6 DEF AreCut, n, base
  <2> QED BY <2>7
<1>7. AreCut(f, left, right)
  BY <1>6
<1>8. s = f[n].result
  BY Zenon DEF Intervals!Subtracted, AreCut, CutTurn
<1> HIDE DEF f
<1>9. f[0] = base /\ \A k \in 1..n : f[k] = CutTurn(f[k - 1], right)
  <2>1. f = [k \in 0..n |-> IF k = 0 THEN base ELSE CutTurn(f[k - 1], right)]
    BY <1>7, Zenon DEF AreCut
  <2>2. 0 \in 0..n /\ \A k \in 1..n : k \in 0..n /\ k # 0
    BY <1>1
  <2> HIDE DEF n
  <2> QED BY <2>1, <2>2
<1>10. \A k \in 0..n : P[k] = In(k)
  OBVIOUS
<1> HIDE DEF P, base
<1>11. f[0] \in P[0]
  BY <1>1, <1>3, <1>9, <1>10
<1>12. ASSUME NEW k \in 1..n, f[k - 1] \in P[k - 1] PROVE f[k] \in P[k]
  <2> DEFINE u == f[k - 1]
  <2>1. k - 1 \in 0..n /\ k \in 0..n /\ k \in Int
    OBVIOUS
  <2>2. u \in In(k - 1) /\ f[k] = CutTurn(u, right)
    BY <1>9, <1>10, <1>12, <2>1
  <2> HIDE DEF u
  <2>3. f[k] \in In(k)
    <3>1. CASE Over(u)
      BY <1>4, <2>2, <3>1
    <3>2. CASE ~Over(u)
      <4>1. u \in S /\ Len(u.result) - u.i - u.j = Len(left) - 2 - (k - 1)
        BY <2>2, <3>2
      <4>2. f[k] \in S /\ Len(f[k].result) - f[k].i - f[k].j = Len(u.result) - u.i - u.j - 1
        BY <1>4, <2>2, <3>2, <4>1
      <4>3. Len(left) - 2 - (k - 1) - 1 = Len(left) - 2 - k
        BY <1>1, <2>1
      <4> QED BY <4>1, <4>2, <4>3
    <3> QED BY <3>1, <3>2
  <2> HIDE DEF In
  <2> QED BY <1>10, <2>1, <2>3
<1>13. \A k \in 0..n : f[k] \in P[k]
  <2> HIDE DEF n, In
  <2> QED BY <1>1, <1>11, <1>12, TurnsKeep
<1> DEFINE u == f[n]
<1>14. u \in S /\ Over(u)
  <2>1. u \in In(n) /\ n \in 0..n
    <3>1. n \in 0..n
      BY <1>1
    <3> HIDE DEF n, In
    <3> QED BY <1>10, <1>13, <3>1
  <2>2. u \in S /\ (Over(u) \/ Len(u.result) - u.i - u.j = Len(left) - 2 - n)
    BY <2>1
  <2> HIDE DEF u
  <2>3. /\ u.i \in 1..Len(u.result) + 1 /\ u.j \in 1..Len(right) + 1
        /\ Len(u.result) \in Nat
    BY <1>5, <2>2
  <2>4. CASE Len(u.result) - u.i - u.j = Len(left) - 2 - n
    <3>1. Len(u.result) - u.i - u.j = -2 - Len(right)
      BY <1>1, <2>4
    <3>2. u.i > Len(u.result) \/ u.j > Len(right)
      BY <1>1, <2>3, <3>1
    <3> QED BY <2>2, <3>2
  <2> QED BY <2>2, <2>4
<1>15. CutInv(u, left, right) /\ s = u.result
  BY <1>2, <1>8, <1>14
<1> HIDE DEF u
<1>16. ASSUME NEW x \in Intervals!Denoted(s), x \in Intervals!Denoted(right) PROVE FALSE
  <2>1. IsList(s) /\ s \in Seq(Ivals) /\ Len(s) \in Nat
    BY <1>5, <1>14, <1>15 DEF CutInv
  <2>2. x \in Int /\ (\E k \in 1..Len(s) : Within(x, s[k])) /\ \E q \in 1..Len(right) : Within(x, right[q])
    BY <1>1, <1>16, <2>1, DenotedIs
  <2>3. PICK k \in 1..Len(s), q \in 1..Len(right) : Within(x, s[k]) /\ Within(x, right[q])
    BY <2>2
  <2>4. k < u.i \/ q < u.j
    BY <1>1, <1>5, <1>14, <1>15, <2>1
  <2>5. s[k].b < right[q].a \/ right[q].b < s[k].a
    BY <1>15, <2>4 DEF CutInv
  <2>6. s[k].a \in Int /\ s[k].b \in Int /\ right[q].a \in Int /\ right[q].b \in Int
    BY <2>1, ListHas
  <2> QED BY <2>2, <2>3, <2>5, <2>6, SMTT(30) DEF Within
<1>17. IsList(s) /\ \A x \in Intervals!Denoted(s) : x \in Intervals!Denoted(left)
  BY <1>15 DEF CutInv
<1>18. \A x \in Intervals!Denoted(left) : \/ x \in Intervals!Denoted(right)
                                          \/ x \in Intervals!Denoted(s)
                                          \/ x \in Intervals!Forgotten(left, right)
  BY <1>15 DEF CutInv
<1> QED BY <1>16, <1>17, <1>18

\* How many elements come before the k-th interval's last.
AreCounted(h, list) ==
    h = [n \in 0..Len(list) |-> IF n = 0 THEN 0 ELSE h[n - 1] + list[n].b - list[n].a + 1]

LEMMA CountedIs ==
    ASSUME NEW list, IsList(list), NEW c, c = Intervals!Counted(list)
    PROVE  /\ c[0] = 0 /\ \A k \in 0..Len(list) : c[k] \in Nat
           /\ \A k \in 1..Len(list) : c[k] = c[k - 1] + list[k].b - list[k].a + 1
           /\ \A j, k \in 0..Len(list) : j <= k => c[j] <= c[k]
<1> DEFINE n == Len(list)
           size(k) == list[k].b - list[k].a + 1
           F == [k \in 1..n |-> [x \in Nat |-> x + list[k].b - list[k].a + 1]]
<1>1. /\ list \in Seq(Ivals) /\ n \in Nat
      /\ \A k \in 1..n : list[k].a \in Int /\ list[k].b \in Int /\ list[k].a <= list[k].b
  BY ListHas
<1>2. ASSUME NEW k \in 1..n, NEW x \in Nat
      PROVE  x + list[k].b - list[k].a + 1 \in Nat /\ x + list[k].b - list[k].a + 1 >= x
  BY <1>1
<1>3. \E h : AreCounted(h, list)
  <2>1. F \in [1..n -> [Nat -> Nat]]
    BY <1>2
  <2>2. ASSUME NEW k \in 1..n, NEW x \in Nat PROVE F[k][x] = x + list[k].b - list[k].a + 1
    OBVIOUS
  <2> HIDE DEF F, n
  <2>3. \E g \in [0..n -> Nat] : IsRunOf(g, n, 0, F)
    <3>1. 0 \in Nat
      OBVIOUS
    <3> QED BY <1>1, <2>1, <3>1, TurnsExist
  <2>4. PICK g \in [0..n -> Nat] : g[0] = 0 /\ \A k \in 1..n : g[k] = F[k][g[k - 1]]
    BY <2>3, Zenon DEF IsRunOf
  <2>5. \A k \in 0..n : g[k] = IF k = 0 THEN 0 ELSE g[k - 1] + list[k].b - list[k].a + 1
    <3> SUFFICES ASSUME NEW k \in 0..n, k # 0 PROVE g[k] = g[k - 1] + list[k].b - list[k].a + 1
      BY <2>4
    <3>1. k \in 1..n /\ k - 1 \in 0..n
      BY <1>1
    <3>2. g[k - 1] \in Nat /\ g[k] = F[k][g[k - 1]]
      BY <2>4, <3>1
    <3> QED BY <2>2, <3>1, <3>2
  <2>6. g = [k \in 0..n |-> g[k]]
    OBVIOUS
  <2>7. AreCounted(g, list)
    BY <2>5, <2>6 DEF AreCounted, n
  <2> QED BY <2>7
<1>4. c = CHOOSE h : AreCounted(h, list)
  BY Zenon DEF Intervals!Counted, AreCounted
<1>5. AreCounted(c, list)
  BY <1>3, <1>4, Zenon
<1>6. c[0] = 0 /\ \A k \in 1..n : c[k] = c[k - 1] + list[k].b - list[k].a + 1
  <2>1. c = [k \in 0..n |-> IF k = 0 THEN 0 ELSE c[k - 1] + list[k].b - list[k].a + 1]
    BY <1>5, Zenon DEF AreCounted
  <2>2. 0 \in 0..n /\ \A k \in 1..n : k \in 0..n /\ k # 0
    BY <1>1
  <2> HIDE DEF n
  <2> QED BY <2>1, <2>2
<1>7. \A k \in 0..n : c[k] \in Nat
  <2> DEFINE P == [k \in 0..n |-> Nat]
  <2>1. c[0] \in P[0]
    BY <1>1, <1>6
  <2>2. ASSUME NEW k \in 1..n, c[k - 1] \in P[k - 1] PROVE c[k] \in P[k]
    <3>1. k - 1 \in 0..n /\ k \in 0..n
      OBVIOUS
    <3>2. c[k - 1] \in Nat
      BY <2>2, <3>1
    <3> QED BY <1>2, <1>6, <3>1, <3>2
  <2>3. \A k \in 0..n : P[k] = Nat
    OBVIOUS
  <2> HIDE DEF P, n
  <2>4. \A k \in 0..n : c[k] \in P[k]
    BY <1>1, <2>1, <2>2, TurnsKeep
  <2> QED BY <2>3, <2>4
<1>8. ASSUME NEW j \in 0..n PROVE \A k \in 0..n : j <= k => c[j] <= c[k]
  <2> DEFINE Above(k) == {x \in Nat : j <= k => c[j] <= x}
             P == [k \in 0..n |-> Above(k)]
  <2>1. c[j] \in Nat
    BY <1>7
  <2>2. \A k \in 0..n : P[k] = Above(k)
    OBVIOUS
  <2>3. c[0] \in P[0]
    <3>1. 0 \in 0..n /\ (j <= 0 => j = 0)
      BY <1>1
    <3> QED BY <1>7, <2>1, <2>2, <3>1
  <2>4. ASSUME NEW k \in 1..n, c[k - 1] \in P[k - 1] PROVE c[k] \in P[k]
    <3>1. k - 1 \in 0..n /\ k \in 0..n /\ (j <= k => j <= k - 1 \/ j = k)
      OBVIOUS
    <3>2. c[k - 1] \in Nat /\ c[k] \in Nat /\ (j <= k - 1 => c[j] <= c[k - 1])
      BY <1>7, <2>2, <2>4, <3>1
    <3>3. c[k] >= c[k - 1]
      BY <1>2, <1>6, <3>2
    <3>4. j <= k => c[j] <= c[k]
      BY <2>1, <3>1, <3>2, <3>3
    <3> QED BY <2>2, <3>1, <3>2, <3>4
  <2> HIDE DEF P, n
  <2>5. \A k \in 0..n : c[k] \in P[k]
    BY <1>1, <2>3, <2>4, TurnsKeep
  <2> QED BY <2>2, <2>5
<1> QED BY <1>6, <1>7, <1>8

\* get counts its way to an interval, and within it.
LEMMA GetAtIs ==
    ASSUME NEW list, IsList(list), NEW c, c = Intervals!Counted(list),
           NEW k \in 1..Len(list), NEW i \in Int, c[k - 1] <= i, i < c[k]
    PROVE  Intervals!GetAt(list, i) = list[k].a + i - c[k - 1]
<1> DEFINE n == Len(list)
           passed == {j \in DOMAIN list : i < Intervals!Counted(list)[j]}
<1>1. /\ \A j \in 0..n : c[j] \in Nat
      /\ \A j, h \in 0..n : j <= h => c[j] <= c[h]
  BY CountedIs
<1>2. DOMAIN list = 1..n /\ n \in Nat
  BY ListHas
<1>3. passed = {j \in 1..n : i < c[j]}
  BY <1>2
<1> HIDE DEF passed
<1>4. k \in passed /\ passed \subseteq Int
  BY <1>2, <1>3
<1>5. ASSUME NEW j \in passed PROVE k <= j
  <2> SUFFICES ASSUME j < k PROVE FALSE
    BY <1>3, <1>5
  <2>1. j \in 0..n /\ k - 1 \in 0..n /\ j <= k - 1 /\ i < c[j]
    BY <1>2, <1>3, <1>5
  <2>2. c[j] <= c[k - 1] /\ c[j] \in Nat /\ c[k - 1] \in Nat
    BY <1>1, <2>1
  <2> QED BY <2>1, <2>2
<1>6. Intervals!Min(passed) = k /\ passed # {}
  BY <1>4, <1>5, ExtremesAre
<1>7. Intervals!GetAt(list, i) =
        IF passed = {} THEN -1 ELSE list[Intervals!Min(passed)].a + i - Intervals!Counted(list)[Intervals!Min(passed) - 1]
  BY Zenon DEF Intervals!GetAt, passed
<1> QED BY <1>6, <1>7

LEMMA BlockIs ==
    ASSUME NEW list, IsList(list), NEW c, c = Intervals!Counted(list), NEW i \in 0..Intervals!Size(list) - 1
    PROVE  \E k \in 1..Len(list) : c[k - 1] <= i /\ i < c[k]
<1> DEFINE n == Len(list)
           J == {k \in 0..n : i < c[k]}
<1>1. /\ c[0] = 0 /\ \A j \in 0..n : c[j] \in Nat
  BY CountedIs
<1>2. n \in Nat /\ n \in 0..n /\ Intervals!Size(list) = c[n]
  BY ListHas DEF Intervals!Size
<1>3. n \in J /\ J \subseteq Nat
  BY <1>1, <1>2
<1>4. PICK k \in J : \A j \in J : k <= j
  BY <1>3, LeastNumber
<1>5. k \in 0..n /\ i < c[k] /\ k # 0 /\ i \in Int
  BY <1>1, <1>2, <1>4
<1>6. k \in 1..n /\ k - 1 \in 0..n /\ ~(k <= k - 1)
  BY <1>2, <1>5
<1>7. ~(i < c[k - 1])
  BY <1>4, <1>6
<1> QED BY <1>1, <1>5, <1>6, <1>7

\* get gives the elements, all of them, in their order.
LEMMA GetsAll ==
    ASSUME NEW list, IsList(list)
    PROVE  /\ Intervals!Denoted(list) = {Intervals!GetAt(list, i) : i \in 0..Intervals!Size(list) - 1}
           /\ \A i, j \in 0..Intervals!Size(list) - 1 : i < j => Intervals!GetAt(list, i) < Intervals!GetAt(list, j)
<1> DEFINE n == Len(list)
           c == Intervals!Counted(list)
           size == Intervals!Size(list)
           G(i) == Intervals!GetAt(list, i)
<1>1. /\ c[0] = 0 /\ \A k \in 0..n : c[k] \in Nat
      /\ \A k \in 1..n : c[k] = c[k - 1] + list[k].b - list[k].a + 1
      /\ \A j, k \in 0..n : j <= k => c[j] <= c[k]
  BY CountedIs
<1>2. /\ list \in Seq(Ivals) /\ n \in Nat
      /\ \A k \in 1..n : list[k].a \in Int /\ list[k].b \in Int /\ list[k].a <= list[k].b
      /\ \A j, k \in 1..n : j < k => list[j].b + 1 < list[k].a
  BY ListHas
<1>3. size = c[n] /\ n \in 0..n /\ size \in Nat
  BY <1>1, <1>2 DEF Intervals!Size
<1>4. ASSUME NEW k \in 1..n, NEW i \in Int, c[k - 1] <= i, i < c[k] PROVE G(i) = list[k].a + i - c[k - 1]
  BY <1>4, GetAtIs
<1>5. ASSUME NEW i \in 0..size - 1 PROVE \E k \in 1..n : c[k - 1] <= i /\ i < c[k]
  BY BlockIs
<1>6. \A x : x \in Intervals!Denoted(list) <=> x \in Int /\ \E k \in 1..n : Within(x, list[k])
  BY <1>2, DenotedIs
<1> HIDE DEF c, size, G, n
<1>7. ASSUME NEW i \in 0..size - 1
      PROVE  \E k \in 1..n : /\ c[k - 1] <= i /\ i < c[k]
                             /\ G(i) = list[k].a + i - c[k - 1] /\ G(i) \in Int /\ list[k].a <= G(i) /\ G(i) <= list[k].b
  <2>1. PICK k \in 1..n : c[k - 1] <= i /\ i < c[k]
    BY <1>5
  <2>2. i \in Int /\ k - 1 \in 0..n /\ k \in 0..n
    BY <1>2
  <2>3. G(i) = list[k].a + i - c[k - 1]
    BY <1>4, <2>1, <2>2
  <2>4. /\ c[k] = c[k - 1] + list[k].b - list[k].a + 1 /\ c[k - 1] \in Nat /\ list[k].a \in Int /\ list[k].b \in Int
    BY <1>1, <1>2, <2>2
  <2> QED BY <2>1, <2>2, <2>3, <2>4
<1>8. ASSUME NEW x \in Intervals!Denoted(list) PROVE \E i \in 0..size - 1 : x = G(i)
  <2>1. x \in Int /\ \E k \in 1..n : Within(x, list[k])
    BY <1>6
  <2>2. PICK k \in 1..n : list[k].a <= x /\ x <= list[k].b
    BY <2>1 DEF Within
  <2> DEFINE i == c[k - 1] + x - list[k].a
  <2>3. k - 1 \in 0..n /\ k \in 0..n /\ k <= n
    BY <1>2
  <2>4. /\ c[k] = c[k - 1] + list[k].b - list[k].a + 1 /\ c[k - 1] \in Nat /\ c[k] \in Nat
        /\ list[k].a \in Int /\ list[k].b \in Int /\ c[k] <= size
    BY <1>1, <1>2, <1>3, <2>3
  <2>5. i \in Int /\ c[k - 1] <= i /\ i < c[k] /\ i >= 0 /\ i <= size - 1 /\ list[k].a + i - c[k - 1] = x
    BY <1>3, <2>1, <2>2, <2>4
  <2> HIDE DEF i
  <2>6. G(i) = x
    BY <1>4, <2>5
  <2> QED BY <1>3, <2>5, <2>6
<1>9. ASSUME NEW i \in 0..size - 1 PROVE G(i) \in Intervals!Denoted(list)
  <2>1. PICK k \in 1..n : G(i) \in Int /\ list[k].a <= G(i) /\ G(i) <= list[k].b
    BY <1>7
  <2> QED BY <1>6, <2>1 DEF Within
<1>10. ASSUME NEW i \in 0..size - 1, NEW j \in 0..size - 1, i < j PROVE G(i) < G(j)
  <2>1. PICK k \in 1..n : /\ c[k - 1] <= i /\ i < c[k]
                          /\ G(i) = list[k].a + i - c[k - 1] /\ G(i) \in Int /\ list[k].a <= G(i) /\ G(i) <= list[k].b
    BY <1>7
  <2>2. PICK h \in 1..n : /\ c[h - 1] <= j /\ j < c[h]
                          /\ G(j) = list[h].a + j - c[h - 1] /\ G(j) \in Int /\ list[h].a <= G(j) /\ G(j) <= list[h].b
    BY <1>7
  <2>3. /\ k \in Int /\ h \in Int /\ i \in Int /\ j \in Int
        /\ k - 1 \in 0..n /\ h - 1 \in 0..n /\ k \in 0..n /\ h \in 0..n
    BY <1>2
  <2>4. /\ list[k].a \in Int /\ list[k].b \in Int /\ list[h].a \in Int /\ c[k - 1] \in Nat /\ c[h] \in Nat
    BY <1>1, <1>2, <2>3
  <2>5. CASE k = h
    BY <1>10, <2>1, <2>2, <2>3, <2>4, <2>5
  <2>6. CASE k < h
    <3>1. list[k].b + 1 < list[h].a
      BY <1>2, <2>6
    <3> QED BY <2>1, <2>2, <2>4, <3>1
  <2>7. CASE h < k
    <3>1. h <= k - 1
      BY <2>3, <2>7
    <3>2. c[h] <= c[k - 1]
      BY <1>1, <2>3, <3>1
    <3> QED BY <1>10, <2>1, <2>2, <2>3, <2>4, <3>2
  <2> QED BY <2>3, <2>5, <2>6, <2>7
<1>11. Intervals!Denoted(list) = {G(i) : i \in 0..size - 1}
  BY <1>8, <1>9
<1> QED BY <1>10, <1>11 DEF G, size

\* A complement is what subtracting leaves of one interval.
LEMMA ComplementIs ==
    ASSUME NEW list, IsList(list), NEW lo \in Int, NEW hi \in Int, lo <= hi
    PROVE  IsList(Intervals!Complement(list, lo, hi))
<1>1. [a |-> lo, b |-> hi] \in Ivals
  BY DEF Ivals
<1>2. IsList(<<[a |-> lo, b |-> hi]>>)
  BY <1>1, OneIs
<1>3. Intervals!Complement(list, lo, hi) = Intervals!Subtracted(<<[a |-> lo, b |-> hi]>>, list)
  BY Zenon DEF Intervals!Complement, Intervals!Interval
<1> QED BY <1>2, <1>3, SubtractedIs

\* What is asked of the operations holds of any two lists.
LEMMA ListsActAsSets ==
    ASSUME Elements \subseteq Int, IsList(set), IsList(other)
    PROVE  Intervals!ActsAsSet
<1>1. ASSUME NEW a \in Elements, NEW b \in Elements
      PROVE  Intervals!Denoted(Intervals!Added(set, Intervals!Interval(a, b))) = Intervals!Denoted(set) \cup a..b
  <2> DEFINE r == Intervals!Interval(a, b)
  <2>1. a \in Int /\ b \in Int
    OBVIOUS
  <2>2. r \in Ivals /\ r.a = a /\ r.b = b
    BY <2>1 DEF Ivals, Intervals!Interval
  <2> HIDE DEF r
  <2>3. \A x : x \in Intervals!Denoted(Intervals!Added(set, r)) <=> x \in Intervals!Denoted(set) \/ (x \in Int /\ Within(x, r))
    BY <2>2, AddedIs
  <2>4. \A x : x \in a..b <=> x \in Int /\ Within(x, r)
    BY <2>1, <2>2 DEF Within
  <2>5. Intervals!Denoted(Intervals!Added(set, r)) = Intervals!Denoted(set) \cup a..b
    BY <2>3, <2>4
  <2> QED BY <2>5 DEF r
<1>2. ASSUME NEW x \in Elements
      PROVE  /\ Intervals!Denoted(Intervals!Removed(set, x)) = Intervals!Denoted(set) \ {x}
             /\ Intervals!Holds(set, x) <=> x \in Intervals!Denoted(set)
  <2>1. x \in Int
    OBVIOUS
  <2>2. \A y : y \in Intervals!Denoted(Intervals!Removed(set, x)) <=> y \in Intervals!Denoted(set) /\ y # x
    BY <2>1, RemovedIs
  <2> QED BY <2>1, <2>2, HoldsIs
<1>3. /\ IsList(Intervals!AddedAll(set, other))
      /\ Intervals!Denoted(Intervals!AddedAll(set, other)) = Intervals!Denoted(set) \cup Intervals!Denoted(other)
  <2>1. \A x : x \in Intervals!Denoted(Intervals!AddedAll(set, other)) <=>
                 x \in Intervals!Denoted(set) \/ x \in Intervals!Denoted(other)
    BY AllAddedIs
  <2> QED BY <2>1, AllAddedIs
<1>4. Intervals!Equals(Intervals!Or(set, other), Intervals!AddedAll(set, other))
  <2> DEFINE l == Intervals!AddedAll(<<>>, set)
             m == Intervals!AddedAll(l, other)
  <2>1. /\ IsList(l)
        /\ \A x : x \in Intervals!Denoted(l) <=> x \in Intervals!Denoted(<<>>) \/ x \in Intervals!Denoted(set)
    BY NoneIs, AllAddedIs
  <2> HIDE DEF l
  <2>2. IsList(m) /\ \A x : x \in Intervals!Denoted(m) <=> x \in Intervals!Denoted(l) \/ x \in Intervals!Denoted(other)
    BY <2>1, AllAddedIs
  <2>3. Intervals!Or(set, other) = m
    BY Zenon DEF Intervals!Or, l
  <2> HIDE DEF m
  <2>4. \A x : x \in Intervals!Denoted(m) <=> x \in Intervals!Denoted(set) \cup Intervals!Denoted(other)
    BY <2>1, <2>2, NoneIs
  <2>5. Intervals!Denoted(m) = Intervals!Denoted(Intervals!AddedAll(set, other))
    BY <1>3, <2>4
  <2> QED BY <1>3, <2>2, <2>3, <2>5, EqualsIs
<1>5. Intervals!Equals(set, other) <=> Intervals!Denoted(set) = Intervals!Denoted(other)
  BY EqualsIs
<1>6. Intervals!Denoted(Intervals!And(set, other)) = Intervals!Denoted(set) \cap Intervals!Denoted(other)
  <2>1. \A x : x \in Intervals!Denoted(Intervals!And(set, other)) <=>
                 x \in Intervals!Denoted(set) /\ x \in Intervals!Denoted(other)
    BY AndIs
  <2> QED BY <2>1
<1>7. /\ Intervals!Denoted(Intervals!Subtracted(set, other)) \subseteq Intervals!Denoted(set) \ Intervals!Denoted(other)
      /\ Intervals!Denoted(set) \ Intervals!Denoted(other) \subseteq
           Intervals!Denoted(Intervals!Subtracted(set, other)) \cup Intervals!Forgotten(set, other)
  BY SubtractedIs
<1>8. set # <<>> => /\ Intervals!MinElement(set) = Intervals!Min(Intervals!Denoted(set))
                    /\ Intervals!MaxElement(set) = Intervals!Max(Intervals!Denoted(set))
  BY EndsOf
<1>9. /\ Intervals!Denoted(set) = {Intervals!GetAt(set, n) : n \in 0..Intervals!Size(set) - 1}
      /\ \A m, n \in 0..Intervals!Size(set) - 1 : m < n => Intervals!GetAt(set, m) < Intervals!GetAt(set, n)
  BY GetsAll
<1>10. Intervals!SingleElement(set) # Intervals!INVALID_TYPE => Intervals!Denoted(set) = {Intervals!SingleElement(set)}
  BY SingleIs
<1> QED BY <1>1, <1>2, <1>3, <1>4, <1>5, <1>6, <1>7, <1>8, <1>9, <1>10, Zenon DEF Intervals!ActsAsSet

\* Interval sets are sets of integers: it is about add, remove, addAll, subtract, And,
\* Or, complement, contains, operator== and the queries for elements of any range.
\* A client reaches normal lists only, which are in order, and of those each operation
\* gives what its name says, but for what subtract may forget of an interval from EOF on.
THEOREM IntervalsActAsSets ==
    ASSUME Elements \subseteq Int PROVE Intervals!Spec => [](Intervals!NormalForm /\ Intervals!ActsAsSet)
<1> DEFINE Inv == IsList(set) /\ IsList(other)
<1>1. Intervals!Init => Inv
  BY NoneIs DEF Intervals!Init
<1>2. Inv /\ [Intervals!Next]_(Intervals!vars) => Inv'
  <2> SUFFICES ASSUME Inv, [Intervals!Next]_(Intervals!vars) PROVE IsList(set') /\ IsList(other')
    BY DEF IsList, Intervals!IsNormal
  <2>1. CASE UNCHANGED Intervals!vars
    BY <2>1 DEF Intervals!vars
  <2>2. CASE Intervals!AddAll
    BY <2>2, AllAddedIs DEF Intervals!AddAll
  <2>3. CASE Intervals!Subtract
    BY <2>3, SubtractedIs DEF Intervals!Subtract
  <2>4. CASE Intervals!Intersect
    BY <2>4, AndIs DEF Intervals!Intersect
  <2>5. CASE Intervals!Clear
    BY <2>5, NoneIs DEF Intervals!Clear
  <2>6. CASE Intervals!Swap
    BY <2>6 DEF Intervals!Swap
  <2>7. ASSUME NEW a \in Elements, Intervals!RemoveElement(a) PROVE IsList(set') /\ IsList(other')
    BY <2>7, RemovedIs DEF Intervals!RemoveElement
  <2>8. ASSUME NEW a \in Elements, NEW b \in Elements, Intervals!Add(a, b) PROVE IsList(set') /\ IsList(other')
    <3>1. Intervals!Interval(a, b) \in Ivals
      BY DEF Ivals, Intervals!Interval
    <3> QED BY <2>8, <3>1, AddedIs DEF Intervals!Add
  <2>9. ASSUME NEW a \in Elements, NEW b \in Elements, a <= b, Intervals!Negate(a, b)
        PROVE  IsList(set') /\ IsList(other')
    <3>1. a \in Int /\ b \in Int
      OBVIOUS
    <3> QED BY <2>9, <3>1, ComplementIs DEF Intervals!Negate
  <2> QED BY <2>1, <2>2, <2>3, <2>4, <2>5, <2>6, <2>7, <2>8, <2>9 DEF Intervals!Next
<1>3. Inv => Intervals!NormalForm /\ Intervals!ActsAsSet
  <2> SUFFICES ASSUME Inv PROVE Intervals!NormalForm /\ Intervals!ActsAsSet
    OBVIOUS
  <2>1. ASSUME NEW list, IsList(list) PROVE Intervals!InOrder(list)
    <3>1. Intervals!IsNormal(list) /\ list \in Seq(Ivals)
      BY <2>1 DEF IsList
    <3>2. ASSUME NEW n \in DOMAIN list PROVE list[n].a \in Int /\ list[n].b \in Int
      <4>1. list[n] \in Ivals
        BY <3>1, <3>2
      <4> QED BY <4>1 DEF Ivals
    <3>3. ASSUME NEW m \in DOMAIN list, NEW n \in DOMAIN list, m < n PROVE list[m].b < list[n].a
      <4>1. list[m].b + 1 < list[n].a
        BY <3>1, <3>3 DEF Intervals!IsNormal
      <4> QED BY <3>2, <4>1
    <3>4. \A n \in DOMAIN list : list[n].a <= list[n].b
      BY <3>1 DEF Intervals!IsNormal
    <3> QED BY <3>3, <3>4 DEF Intervals!InOrder
  <2> QED BY <2>1, ListsActAsSets DEF IsList, Intervals!NormalForm
<1> QED BY <1>1, <1>2, <1>3, PTL DEF Intervals!Spec

-----------------------------------------------------------------------------
(* Proof of WritesWhereTold.  A null pointer is no argument.               *)

Both      == {"-f", "-o"} \subseteq Program!Range(argv)
ReadsFrom == Program!Path(arg_file, Program!DefaultPath)
WritesTo  == Program!Path(arg_out_path, Program!DefaultOut)
Written   ==
    LET source == Program!Meant("-f", Program!DefaultPath)
        target == Program!Meant("-o", Program!DefaultOut)
    IN  IF source \in DOMAIN was /\ target \in Writable THEN (target :> Program!Module(was[source])) @@ was ELSE was

\* The inductive invariant: the disk waits, the pointers are to what is meant, and
\* what was loaded is the source that is meant.
DriverInv ==
    /\ argv \in Seq(Arguments)
    /\ step \in {"main", "load", "visit", "print", "returned", "died"}
    /\ step # "returned" => disk = was
    /\ Both /\ step \in {"load", "visit", "print"} =>
          ReadsFrom = Program!Meant("-f", Program!DefaultPath) /\ WritesTo = Program!Meant("-o", Program!DefaultOut)
    /\ step \in {"visit", "print"} => ReadsFrom \in DOMAIN was /\ loaded = was[ReadsFrom]
    /\ Both /\ step = "returned" => disk = Written

\* A set of indices that is not empty has a least one.
LEMMA LeastIndex ==
    ASSUME NEW S \in SUBSET Nat, S # {}
    PROVE  Program!Min(S) \in S /\ \A y \in S : Program!Min(S) <= y
<1>1. \E x \in S : \A y \in S : x <= y
  BY LeastNumber
<1> QED BY <1>1, Zenon DEF Program!Min

\* get_cmd_option finds what is meant, and no pointer where the default is.
LEMMA OptionIsMeant ==
    ASSUME argv \in Seq(Arguments), Program!NULL \notin Arguments, NEW option, NEW default
    PROVE  Program!Path(Program!get_cmd_option(option), default) = Program!Meant(option, default)
<1> DEFINE I      == {i \in 1..Len(argv) : argv[i] = option}
           found  == IF I # {} THEN Program!Min(I) ELSE 0
           behind == {i \in 1..Len(argv) - 1 : argv[i] = option /\ \A j \in 1..i - 1 : argv[j] # option}
<1>1. Program!get_cmd_option(option) = IF found \in 1..Len(argv) - 1 THEN argv[found + 1] ELSE Program!NULL
  BY Zenon DEF Program!get_cmd_option, Program!SelectInSeq
<1>2. Program!Meant(option, default) = IF behind = {} THEN default ELSE argv[1 + CHOOSE i \in behind : TRUE]
  BY Zenon DEF Program!Meant
<1>3. Len(argv) \in Nat /\ \A i \in 1..Len(argv) : argv[i] \in Arguments
  OBVIOUS
<1>4. CASE found \in 1..Len(argv) - 1
  <2>1. I # {} /\ found = Program!Min(I) /\ found \in I /\ \A j \in I : found <= j
    <3>1. I # {}
      BY <1>4
    <3>2. I \in SUBSET Nat
      OBVIOUS
    <3> HIDE DEF I
    <3> QED BY <3>1, <3>2, LeastIndex
  <2> HIDE DEF found
  <2>2. behind = {found}
    <3>1. found \in Int /\ argv[found] = option
      BY <1>4, <2>1
    <3>2. ASSUME NEW i \in behind PROVE i = found
      <4>1. i \in 1..Len(argv) - 1 /\ argv[i] = option /\ \A j \in 1..i - 1 : argv[j] # option
        OBVIOUS
      <4>2. found <= i
        BY <1>3, <2>1, <4>1
      <4>3. ~(found < i)
        BY <1>4, <3>1, <4>1
      <4> QED BY <3>1, <4>1, <4>2, <4>3
    <3>3. ASSUME NEW j \in 1..found - 1 PROVE argv[j] # option
      BY <1>3, <1>4, <2>1
    <3> QED BY <1>4, <3>1, <3>2, <3>3
  <2>3. argv[found + 1] \in Arguments /\ found + 1 = 1 + found
    BY <1>3, <1>4
  <2>4. (CHOOSE i \in behind : TRUE) = found
    BY <2>2
  <2> HIDE DEF behind
  <2>5. behind # {}
    BY <2>2
  <2>6. Program!get_cmd_option(option) = argv[found + 1] /\ Program!Meant(option, default) = argv[1 + found]
    BY <1>1, <1>2, <1>4, <2>4, <2>5, Zenon
  <2>7. Program!get_cmd_option(option) # Program!NULL
    BY <2>3, <2>6
  <2> QED BY <2>3, <2>6, <2>7, Zenon DEF Program!Path
<1>5. CASE found \notin 1..Len(argv) - 1
  <2>1. ASSUME NEW i \in behind PROVE FALSE
    <3>1. I # {} /\ I \in SUBSET Nat /\ i \in I
      BY <1>3
    <3>2. found = Program!Min(I) /\ found \in I /\ found <= i
      <4> HIDE DEF I
      <4> QED BY <3>1, LeastIndex
    <3> HIDE DEF found
    <3> QED BY <1>3, <1>5, <3>2
  <2>2. behind = {}
    BY <2>1
  <2> HIDE DEF behind, found
  <2> QED BY <1>1, <1>2, <1>5, <2>2 DEF Program!Path
<1> QED BY <1>4, <1>5

\* With both options the pointers that main takes are to what is meant.
LEMMA PointersAreMeant ==
    ASSUME argv \in Seq(Arguments), Program!NULL \notin Arguments, Both, Program!Main
    PROVE  ReadsFrom' = Program!Meant("-f", Program!DefaultPath) /\ WritesTo' = Program!Meant("-o", Program!DefaultOut)
<1>1. Program!Contains(argv, "-f") /\ Program!Contains(argv, "-o")
  <2>1. DOMAIN argv = 1..Len(argv)
    OBVIOUS
  <2>2. "-f" \in Program!Range(argv) /\ "-o" \in Program!Range(argv)
    BY DEF Both
  <2> QED BY <2>1, <2>2, Zenon DEF Program!Range, Program!Contains
<1>2. arg_file' = Program!get_cmd_option("-f") /\ arg_out_path' = Program!get_cmd_option("-o")
  BY <1>1 DEF Program!Main, Program!Values, Program!cmd_option_exists
<1>3. /\ ReadsFrom' = Program!Path(Program!get_cmd_option("-f"), Program!DefaultPath)
      /\ WritesTo' = Program!Path(Program!get_cmd_option("-o"), Program!DefaultOut)
  BY <1>2 DEF ReadsFrom, WritesTo, Program!Path, Program!DefaultPath, Program!DefaultOut, Program!NULL
<1> QED BY <1>3, OptionIsMeant

\* Every step of the program keeps the invariant.
LEMMA DriverInvStep ==
    ASSUME Program!NULL \notin Arguments, DriverInv, [Program!Next]_(Program!vars) PROVE DriverInv'
<1> DEFINE source == Program!Meant("-f", Program!DefaultPath)
           target == Program!Meant("-o", Program!DefaultOut)
<1>1. ASSUME UNCHANGED <<argv, was>>
      PROVE  /\ Both' = Both /\ source' = source /\ target' = target /\ Written' = Written
             /\ (DOMAIN was)' = DOMAIN was
  BY <1>1 DEF Both, Program!Meant, Written, Program!DefaultPath, Program!DefaultOut
<1>2. ASSUME UNCHANGED <<arg_file, arg_out_path>> PROVE ReadsFrom' = ReadsFrom /\ WritesTo' = WritesTo
  BY <1>2 DEF ReadsFrom, WritesTo
<1>3. CASE Program!Main
  <2>1. step' = "load" /\ disk' = disk /\ UNCHANGED <<argv, was>> /\ step = "main"
    BY <1>3 DEF Program!Main
  <2>2. Both' => ReadsFrom' = source' /\ WritesTo' = target'
    BY <1>1, <1>3, <2>1, PointersAreMeant DEF DriverInv
  <2> QED BY <2>1, <2>2 DEF DriverInv
<1>4. CASE Program!Load
  <2>1. /\ step = "load" /\ UNCHANGED <<argv, arg_file, arg_out_path, disk, was>>
        /\ step' = IF ReadsFrom = Program!Wild THEN "died"
                   ELSE IF ReadsFrom \notin DOMAIN disk THEN "returned" ELSE "visit"
        /\ loaded' = IF ReadsFrom \in DOMAIN disk THEN disk[ReadsFrom] ELSE Program!NULL
    BY <1>4, Zenon DEF Program!Load, ReadsFrom
  <2>2. disk = was /\ disk' = was'
    BY <2>1 DEF DriverInv
  <2>3. Both' /\ step' \in {"load", "visit", "print"} => ReadsFrom' = source' /\ WritesTo' = target'
    BY <1>1, <1>2, <2>1 DEF DriverInv
  <2>4. step' \in {"visit", "print"} => ReadsFrom' \in DOMAIN was' /\ loaded' = was'[ReadsFrom']
    BY <1>2, <2>1, <2>2
  <2>5. ASSUME Both', step' = "returned" PROVE disk' = Written'
    <3>1. ReadsFrom = source /\ source \notin DOMAIN was
      BY <1>1, <2>1, <2>2, <2>5 DEF DriverInv
    <3>2. Written = was
      BY <3>1 DEF Written
    <3> QED BY <1>1, <2>1, <2>2, <3>2
  <2>6. argv' \in Seq(Arguments) /\ step' \in {"died", "returned", "visit"}
    BY <2>1 DEF DriverInv
  <2> QED BY <2>2, <2>3, <2>4, <2>5, <2>6 DEF DriverInv
<1>5. CASE Program!Visit
  <2>1. /\ step = "visit" /\ step' \in {"print", "died"}
        /\ UNCHANGED <<argv, arg_file, arg_out_path, loaded, disk, was>>
    BY <1>5 DEF Program!Visit
  <2> QED BY <1>1, <1>2, <2>1 DEF DriverInv
<1>6. CASE Program!PrintModule
  <2>1. /\ step = "print" /\ UNCHANGED <<argv, arg_file, arg_out_path, loaded, was>>
        /\ WritesTo \in Writable => step' = "returned" /\ disk' = (WritesTo :> Program!Module(loaded)) @@ disk
        /\ WritesTo \notin Writable => step' \in {"returned", "died"} /\ disk' = disk
    BY <1>6, Zenon DEF Program!PrintModule, WritesTo
  <2>2. disk = was /\ ReadsFrom \in DOMAIN was /\ loaded = was[ReadsFrom]
    BY <2>1 DEF DriverInv
  <2>3. step' # "returned" => disk' = was'
    BY <2>1, <2>2
  <2>4. ASSUME Both', step' = "returned" PROVE disk' = Written'
    <3>1. ReadsFrom = source /\ WritesTo = target
      BY <1>1, <2>1, <2>4 DEF DriverInv
    <3>2. disk' = Written
      BY <2>1, <2>2, <3>1 DEF Written
    <3> QED BY <1>1, <2>1, <3>2
  <2>5. argv' \in Seq(Arguments) /\ step' \in {"returned", "died"}
    BY <2>1 DEF DriverInv
  <2> QED BY <2>3, <2>4, <2>5 DEF DriverInv
<1>7. CASE UNCHANGED Program!vars
  BY <1>1, <1>2, <1>7 DEF DriverInv, Program!vars
<1> QED BY <1>3, <1>4, <1>5, <1>6, <1>7 DEF Program!Next

\* The driver's property holds for every command line and every disk: WritesWhereTold
\* is about get_cmd_option, the load, and the write behind a finished visit.
THEOREM DriverWrites ==
    ASSUME Program!NULL \notin Arguments, MaxArgs \in Nat PROVE Program!Spec => []Program!WritesWhereTold
<1>1. Program!Init => DriverInv
  <2> SUFFICES ASSUME Program!Init PROVE DriverInv
    OBVIOUS
  <2>1. PICK n \in 0..MaxArgs : argv \in [1..n -> Arguments]
    BY DEF Program!Init
  <2>2. argv \in Seq(Arguments)
    BY <2>1
  <2> QED BY <2>2 DEF Program!Init, DriverInv
<1>2. DriverInv /\ [Program!Next]_(Program!vars) => DriverInv'
  BY DriverInvStep
<1>3. DriverInv => Program!WritesWhereTold
  BY Zenon DEF DriverInv, Program!WritesWhereTold, Both, Written
<1> QED BY <1>1, <1>2, <1>3, PTL DEF Program!Spec
=============================================================================
