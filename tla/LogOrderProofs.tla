--------------------------- MODULE LogOrderProofs ---------------------------
(***************************************************************************)
(* Proofs that the lines of the log are in order and that the newest ones  *)
(* are kept.  What the actions do to the files is stated first, of any     *)
(* disk d, and of what has been written, w.                                *)
(***************************************************************************)
EXTENDS RollingLogProofs

-----------------------------------------------------------------------------
Disks == [Numbers -> Seq(Unit) \cup {Missing}]

(* Where file k has pieces of the process, and which there are.            *)
Places(d, k) == IF d[k] = Missing THEN {} ELSE {i \in 1 .. Len(d[k]) : d[k][i] \in Pieces}
Has(d, x) == \E k \in Numbers : \E i \in Places(d, k) : d[k][i] = x

Precedes(w, x, y) == \E m, n \in 1 .. Len(w) : m < n /\ w[m] = x /\ w[n] = y
OnlyWritten(d, w) ==
    \A k \in Numbers : \A i \in Places(d, k) : \E n \in 1 .. Len(w) : w[n] = d[k][i]
Ordered(d, w) ==
    \A k, l \in Numbers : \A i \in Places(d, k), j \in Places(d, l) :
        k > l \/ (k = l /\ i < j) => Precedes(w, d[k][i], d[l][j])

(* The pieces of e were in the same places of d.                           *)
OnlyLoses(d, e) ==
    \A k \in Numbers : \A i \in Places(e, k) : i \in Places(d, k) /\ e[k][i] = d[k][i]

LEMMA FileNumberTypes == Numbers \subseteq Nat /\ 0 \in Numbers
BY DEF Numbers

LEMMA PlaceTypes ==
    ASSUME NEW d \in Disks, NEW k \in Numbers, NEW i \in Places(d, k)
    PROVE  /\ d[k] # Missing /\ d[k] \in Seq(Unit) /\ Len(d[k]) \in Nat
           /\ i \in 1 .. Len(d[k]) /\ i \in Nat /\ d[k][i] \in Pieces
<1>1. d[k] # Missing /\ i \in 1 .. Len(d[k]) /\ d[k][i] \in Pieces
  BY DEF Places
<1>2. d[k] \in Seq(Unit)
  BY <1>1 DEF Disks
<1>3. Len(d[k]) \in Nat
  BY <1>2, LenProperties
<1> QED BY <1>1, <1>2, <1>3

LEMMA LosingKeepsOrder ==
    ASSUME NEW d \in Disks, NEW e \in Disks, NEW w, OnlyLoses(d, e),
           OnlyWritten(d, w), Ordered(d, w)
    PROVE  /\ OnlyWritten(e, w) /\ Ordered(e, w)
           /\ \A x : Has(e, x) => Has(d, x)
<1>1. OnlyWritten(e, w)
  BY DEF OnlyLoses, OnlyWritten
<1>2. Ordered(e, w)
  <2> SUFFICES ASSUME NEW k \in Numbers, NEW l \in Numbers, NEW i \in Places(e, k), NEW j \in Places(e, l),
                      k > l \/ (k = l /\ i < j)
               PROVE  Precedes(w, e[k][i], e[l][j])
    BY DEF Ordered
  <2>1. /\ i \in Places(d, k) /\ e[k][i] = d[k][i]
        /\ j \in Places(d, l) /\ e[l][j] = d[l][j]
    BY DEF OnlyLoses
  <2> QED BY <2>1 DEF Ordered
<1>3. \A x : Has(e, x) => Has(d, x)
  BY DEF OnlyLoses, Has
<1> QED BY <1>1, <1>2, <1>3

(* A file that is removed takes its pieces with it, and no other.          *)
LEMMA UnlinkLoses ==
    ASSUME NEW d \in Disks, NEW k \in Numbers
    PROVE  /\ [d EXCEPT ![k] = Missing] \in Disks /\ OnlyLoses(d, [d EXCEPT ![k] = Missing])
           /\ \A l \in Numbers \ {k} : [d EXCEPT ![k] = Missing][l] = d[l]
BY DEF Disks, OnlyLoses, Places

(* A file that is renamed to the next number keeps its lines in order, in  *)
(* front of the newer files and behind the older ones.                     *)
Renamed(d, k, to) == [d EXCEPT ![to] = d[k], ![k] = Missing]

LEMMA RenameMoves ==
    ASSUME NEW d \in Disks, NEW k \in Numbers, NEW to \in Numbers, to = k + 1,
           NEW e, e = Renamed(d, k, to)
    PROVE  /\ e \in Disks /\ Places(e, k) = {}
           /\ e[to] = d[k] /\ Places(e, to) = Places(d, k)
           /\ \A l \in Numbers \ {k, to} : e[l] = d[l] /\ Places(e, l) = Places(d, l)
<1>1. k # to
  BY FileNumberTypes
<1>2. e \in Disks /\ e[k] = Missing /\ e[to] = d[k] /\ \A l \in Numbers \ {k, to} : e[l] = d[l]
  BY <1>1 DEF Disks, Renamed
<1> QED BY <1>2 DEF Places

LEMMA RenamingKeepsOrder ==
    ASSUME NEW d \in Disks, NEW k \in Numbers, NEW to \in Numbers, to = k + 1, NEW w,
           NEW e, e = Renamed(d, k, to),
           OnlyWritten(d, w), Ordered(d, w)
    PROVE  /\ OnlyWritten(e, w) /\ Ordered(e, w)
           /\ \A x : Has(e, x) => Has(d, x)
           /\ d[to] = Missing => \A x : Has(d, x) => Has(e, x)
<1> DEFINE from(l) == IF l = to THEN k ELSE l
<1>0. /\ Places(e, k) = {} /\ e[to] = d[k] /\ Places(e, to) = Places(d, k)
      /\ \A l \in Numbers \ {k, to} : e[l] = d[l] /\ Places(e, l) = Places(d, l)
  BY RenameMoves
<1>1. \A l \in Numbers : \A i \in Places(e, l) :
          l # k /\ from(l) \in Numbers /\ i \in Places(d, from(l)) /\ e[l][i] = d[from(l)][i]
  BY <1>0
<1>2. \A l, m \in Numbers \ {k} : l > m => from(l) > from(m)
  BY FileNumberTypes
<1> HIDE DEF from
<1>3. OnlyWritten(e, w)
  <2> SUFFICES ASSUME NEW l \in Numbers, NEW i \in Places(e, l)
               PROVE  \E n \in 1 .. Len(w) : w[n] = e[l][i]
    BY DEF OnlyWritten
  <2>1. from(l) \in Numbers /\ i \in Places(d, from(l)) /\ e[l][i] = d[from(l)][i]
    BY <1>1
  <2>2. \E n \in 1 .. Len(w) : w[n] = d[from(l)][i]
    BY <2>1 DEF OnlyWritten
  <2> QED BY <2>1, <2>2
<1>4. Ordered(e, w)
  <2> SUFFICES ASSUME NEW l \in Numbers, NEW m \in Numbers, NEW i \in Places(e, l), NEW j \in Places(e, m),
                      l > m \/ (l = m /\ i < j)
               PROVE  Precedes(w, e[l][i], e[m][j])
    BY DEF Ordered
  <2>1. /\ l # k /\ from(l) \in Numbers /\ i \in Places(d, from(l)) /\ e[l][i] = d[from(l)][i]
        /\ m # k /\ from(m) \in Numbers /\ j \in Places(d, from(m)) /\ e[m][j] = d[from(m)][j]
    BY <1>1
  <2>2. from(l) > from(m) \/ (from(l) = from(m) /\ i < j)
    BY <1>2, <2>1
  <2>3. Precedes(w, d[from(l)][i], d[from(m)][j])
    BY <2>1, <2>2 DEF Ordered
  <2> QED BY <2>1, <2>3
<1>5. ASSUME NEW x, Has(e, x) PROVE Has(d, x)
  <2>1. PICK l \in Numbers : \E i \in Places(e, l) : e[l][i] = x
    BY <1>5 DEF Has
  <2>2. PICK i \in Places(e, l) : e[l][i] = x
    BY <2>1
  <2>3. from(l) \in Numbers /\ i \in Places(d, from(l)) /\ d[from(l)][i] = x
    BY <1>1, <2>1, <2>2
  <2> QED BY <2>3 DEF Has
<1>6. ASSUME d[to] = Missing, NEW x, Has(d, x) PROVE Has(e, x)
  <2>1. PICK l \in Numbers : \E i \in Places(d, l) : d[l][i] = x
    BY <1>6 DEF Has
  <2>2. l # to
    BY <1>6, <2>1 DEF Places
  <2>3. CASE l = k
    BY <1>0, <2>1, <2>3 DEF Has
  <2>4. CASE l # k
    BY <1>0, <2>1, <2>2, <2>4 DEF Has
  <2> QED BY <2>3, <2>4
<1> QED BY <1>3, <1>4, <1>5, <1>6

(* Where a write at offset o of the contents c puts its line.              *)
Spot(c, o) == IF o < Len(c) THEN o + 1 ELSE Len(c) + 1

LEMMA WriteAtSpot ==
    ASSUME NEW c \in Seq(Unit), NEW o \in Nat, NEW x \in Unit
    PROVE  /\ WriteAt(c, o, x) \in Seq(Unit) /\ Len(WriteAt(c, o, x)) \in Nat /\ Len(c) \in Nat
           /\ Spot(c, o) \in 1 .. Len(WriteAt(c, o, x)) /\ Spot(c, o) <= o + 1
           /\ WriteAt(c, o, x)[Spot(c, o)] = x
           /\ \A i \in 1 .. Len(WriteAt(c, o, x)) :
                i # Spot(c, o) => i \in 1 .. Len(c) /\ WriteAt(c, o, x)[i] = c[i]
           /\ \A i \in 1 .. Len(WriteAt(c, o, x)) : i <= o => i <= Spot(c, o)
           /\ o = Len(c) => /\ Len(WriteAt(c, o, x)) = Len(c) + 1
                            /\ \A i \in 1 .. Len(c) : WriteAt(c, o, x)[i] = c[i]
<1> DEFINE b == WriteAt(c, o, x)
<1> DEFINE s == Spot(c, o)
<1>1. Len(c) \in Nat
  BY LenProperties
<1>2. CASE o < Len(c)
  <2>1. s = o + 1 /\ b = [c EXCEPT ![s] = x] /\ s \in 1 .. Len(c)
    BY <1>1, <1>2 DEF WriteAt, Spot
  <2> HIDE DEF b, s
  <2>2. b \in Seq(Unit) /\ Len(b) = Len(c) /\ \A j \in 1 .. Len(c) : b[j] = IF j = s THEN x ELSE c[j]
    BY <2>1, ExceptSeq
  <2>3. s \in 1 .. Len(b) /\ b[s] = x
    BY <2>1, <2>2
  <2>4. \A i \in 1 .. Len(b) : i # s => i \in 1 .. Len(c) /\ b[i] = c[i]
    BY <2>2
  <2>5. s = o + 1 /\ Len(b) \in Nat /\ o # Len(c)
    <3>1. s = o + 1 /\ Len(b) = Len(c)
      BY <2>1, <2>2
    <3> QED BY <1>1, <1>2, <3>1
  <2>6. s <= o + 1 /\ \A i \in 1 .. Len(b) : i <= o => i <= s
    BY <2>5
  <2> QED BY <1>1, <2>2, <2>3, <2>4, <2>5, <2>6 DEF b, s
<1>3. CASE ~(o < Len(c))
  <2>1. s = Len(c) + 1 /\ b = Append(c, x)
    BY <1>1, <1>3 DEF WriteAt, Spot
  <2> HIDE DEF b, s
  <2>2. b \in Seq(Unit) /\ Len(b) = Len(c) + 1 /\ b[s] = x /\ \A j \in 1 .. Len(c) : b[j] = c[j]
    BY <1>1, <2>1, AppendProperties
  <2>3. /\ Len(b) \in Nat /\ s \in 1 .. Len(b) /\ s <= o + 1
        /\ \A i \in 1 .. Len(b) : i # s => i \in 1 .. Len(c) /\ b[i] = c[i]
        /\ \A i \in 1 .. Len(b) : i <= o => i <= s
    BY <1>1, <1>3, <2>1, <2>2
  <2> QED BY <1>1, <2>2, <2>3 DEF b, s
<1> QED BY <1>2, <1>3

Wrote(d, o, x) == [d EXCEPT ![0] = WriteAt(@, o, x)]

(* A piece x that is put at the place s of file 0, at offset o: the others *)
(* stay where they are, but for the one that it overwrites.                *)
Puts(d, e, o, s, x) ==
    /\ e \in Disks /\ e[0] # Missing /\ s \in Nat /\ s <= o + 1
    /\ \A k \in Numbers : k # 0 => e[k] = d[k] /\ Places(e, k) = Places(d, k)
    /\ \A i \in Places(e, 0) : i # s => i \in Places(d, 0) /\ e[0][i] = d[0][i]
    /\ x \in Pieces => s \in Places(e, 0) /\ e[0][s] = x
    /\ x \notin Pieces => OnlyLoses(d, e)
    /\ (\A i \in Places(d, 0) : i <= o) => \A i \in Places(e, 0) : i <= s
    /\ o = Len(d[0]) => \A i \in Places(d, 0) : i \in Places(e, 0) /\ e[0][i] = d[0][i]

LEMMA WritePlaces ==
    ASSUME NEW d \in Disks, d[0] # Missing, NEW o \in Nat, NEW x \in Unit,
           NEW e, e = Wrote(d, o, x)
    PROVE  Puts(d, e, o, Spot(d[0], o), x)
<1> DEFINE s == Spot(d[0], o)
<1>0. Missing \notin Seq(Unit)
  BY LogAssumption DEF Unit, Pieces
<1>1. 0 \in Numbers /\ d[0] \in Seq(Unit)
  BY FileNumberTypes DEF Disks
<1>2. e[0] = WriteAt(d[0], o, x) /\ \A k \in Numbers : k # 0 => e[k] = d[k]
  BY <1>1 DEF Wrote, Disks
<1>3. /\ e[0] \in Seq(Unit) /\ Len(e[0]) \in Nat /\ Len(d[0]) \in Nat
      /\ s \in 1 .. Len(e[0]) /\ s <= o + 1 /\ e[0][s] = x
      /\ \A i \in 1 .. Len(e[0]) : i # s => i \in 1 .. Len(d[0]) /\ e[0][i] = d[0][i]
      /\ \A i \in 1 .. Len(e[0]) : i <= o => i <= s
      /\ o = Len(d[0]) => Len(e[0]) = Len(d[0]) + 1 /\ \A i \in 1 .. Len(d[0]) : e[0][i] = d[0][i]
  <2> DEFINE b == e[0]
  <2> DEFINE c == d[0]
  <2>1. c \in Seq(Unit) /\ b = WriteAt(c, o, x) /\ s = Spot(c, o)
    BY <1>1, <1>2
  <2> HIDE DEF b, c, s
  <2>2. /\ b \in Seq(Unit) /\ Len(b) \in Nat /\ Len(c) \in Nat
        /\ s \in 1 .. Len(b) /\ s <= o + 1 /\ b[s] = x
        /\ \A i \in 1 .. Len(b) : i # s => i \in 1 .. Len(c) /\ b[i] = c[i]
        /\ \A i \in 1 .. Len(b) : i <= o => i <= s
        /\ o = Len(c) => Len(b) = Len(c) + 1 /\ \A i \in 1 .. Len(c) : b[i] = c[i]
    <3>1. /\ b \in Seq(Unit) /\ Len(b) \in Nat /\ Len(c) \in Nat
          /\ s \in 1 .. Len(b) /\ s <= o + 1
      BY <2>1, WriteAtSpot
    <3>2. \A i \in 1 .. Len(b) : i # s => i \in 1 .. Len(c) /\ b[i] = c[i]
      BY <2>1, WriteAtSpot
    <3>3. \A i \in 1 .. Len(b) : i <= o => i <= s
      BY <2>1, WriteAtSpot
    <3>4. o = Len(c) => Len(b) = Len(c) + 1 /\ \A i \in 1 .. Len(c) : b[i] = c[i]
      BY <2>1, WriteAtSpot
    <3>5. WriteAt(c, o, x)[Spot(c, o)] = x
      BY <2>1, WriteAtSpot
    <3>6. b[s] = x
      BY <2>1, <3>5
    <3> QED BY <3>1, <3>2, <3>3, <3>4, <3>6
  <2> QED BY <2>2 DEF b, c
<1> HIDE DEF s
<1>4. e \in Disks /\ e[0] # Missing
  BY <1>0, <1>1, <1>2, <1>3 DEF Wrote, Disks
<1>5. \A k \in Numbers : k # 0 => e[k] = d[k] /\ Places(e, k) = Places(d, k)
  BY <1>2 DEF Places
<1>6. \A i \in Places(e, 0) : i \in 1 .. Len(e[0]) /\ (i # s => i \in Places(d, 0) /\ e[0][i] = d[0][i])
  BY <1>3 DEF Places
<1>7. x \in Pieces => s \in Places(e, 0) /\ e[0][s] = x
  BY <1>3, <1>4 DEF Places
<1>8. ASSUME x \notin Pieces PROVE OnlyLoses(d, e)
  <2>1. s \notin Places(e, 0)
    BY <1>3, <1>8 DEF Places
  <2> QED BY <1>5, <1>6, <2>1 DEF OnlyLoses
<1>9. ASSUME \A i \in Places(d, 0) : i <= o, NEW i \in Places(e, 0) PROVE i <= s
  BY <1>3, <1>6, <1>9
<1>10. ASSUME o = Len(d[0]), NEW i \in Places(d, 0) PROVE i \in Places(e, 0) /\ e[0][i] = d[0][i]
  <2>1. i \in 1 .. Len(d[0]) /\ d[0][i] \in Pieces
    BY DEF Places
  <2> QED BY <1>3, <1>4, <1>10, <2>1 DEF Places
<1>11. s \in Nat /\ s <= o + 1
  BY <1>3
<1>12. Puts(d, e, o, s, x)
  BY <1>4, <1>5, <1>6, <1>7, <1>8, <1>9, <1>10, <1>11 DEF Puts
<1> QED BY <1>12 DEF s

(* The piece that is written last is behind all the others, on disk as in  *)
(* what has been written.                                                  *)
LEMMA AppendedLast ==
    ASSUME NEW S, NEW w \in Seq(S), NEW x \in S, NEW v, v = Append(w, x)
    PROVE  /\ v \in Seq(S) /\ Len(w) \in Nat /\ Len(v) = Len(w) + 1 /\ v[Len(v)] = x
           /\ \A n \in 1 .. Len(w) : n \in 1 .. Len(v) /\ n < Len(v) /\ v[n] = w[n]
<1>1. Len(w) \in Nat
  BY LenProperties
<1>2. v \in Seq(S) /\ Len(v) = Len(w) + 1 /\ v[Len(w) + 1] = x /\ \A n \in 1 .. Len(w) : v[n] = w[n]
  BY AppendProperties
<1> QED BY <1>1, <1>2

LEMMA WritingKeepsOrder ==
    ASSUME NEW d \in Disks, d[0] # Missing, NEW o \in Nat, NEW x \in Pieces,
           \A i \in Places(d, 0) : i <= o,
           NEW w \in Seq(Pieces), OnlyWritten(d, w), Ordered(d, w),
           NEW e, e = Wrote(d, o, x)
    PROVE  OnlyWritten(e, Append(w, x)) /\ Ordered(e, Append(w, x))
<1> DEFINE s == Spot(d[0], o)
<1> DEFINE v == Append(w, x)
<1>0. Puts(d, e, o, s, x)
  <2>1. x \in Unit
    BY DEF Unit
  <2> QED BY <2>1, WritePlaces
<1>1. /\ \A k \in Numbers : k # 0 => e[k] = d[k] /\ Places(e, k) = Places(d, k)
      /\ \A i \in Places(e, 0) : i # s => i \in Places(d, 0) /\ e[0][i] = d[0][i]
      /\ s \in Places(e, 0) /\ e[0][s] = x
      /\ \A i \in Places(e, 0) : i <= s
  BY <1>0 DEF Puts
<1>2. /\ Len(w) \in Nat /\ Len(v) = Len(w) + 1 /\ v[Len(v)] = x
      /\ \A n \in 1 .. Len(w) : n \in 1 .. Len(v) /\ n < Len(v) /\ v[n] = w[n]
  BY AppendedLast
<1>3. s \in Nat /\ e \in Disks
  BY <1>0 DEF Puts
<1> HIDE DEF s, v
<1>4. ASSUME NEW k \in Numbers, NEW i \in Places(e, k), ~(k = 0 /\ i = s)
      PROVE  /\ i \in Places(d, k) /\ e[k][i] = d[k][i]
             /\ \E n \in 1 .. Len(w) : w[n] = e[k][i]
  <2>1. i \in Places(d, k) /\ e[k][i] = d[k][i]
    BY <1>1, <1>4
  <2> QED BY <2>1 DEF OnlyWritten
<1>5. OnlyWritten(e, v)
  <2> SUFFICES ASSUME NEW k \in Numbers, NEW i \in Places(e, k)
               PROVE  \E n \in 1 .. Len(v) : v[n] = e[k][i]
    BY DEF OnlyWritten
  <2>1. CASE k = 0 /\ i = s
    BY <1>1, <1>2, <2>1
  <2>2. CASE ~(k = 0 /\ i = s)
    BY <1>2, <1>4, <2>2
  <2> QED BY <2>1, <2>2
<1>6. Ordered(e, v)
  <2> SUFFICES ASSUME NEW k \in Numbers, NEW l \in Numbers, NEW i \in Places(e, k), NEW j \in Places(e, l),
                      k > l \/ (k = l /\ i < j)
               PROVE  Precedes(v, e[k][i], e[l][j])
    BY DEF Ordered
  <2>1. i \in Nat /\ j \in Nat /\ k \in Nat /\ l \in Nat
    BY <1>3, PlaceTypes, FileNumberTypes
  <2>2. ~(k = 0 /\ i = s)
    BY <1>1, <1>3, <2>1
  <2>3. CASE l = 0 /\ j = s
    <3>1. PICK n \in 1 .. Len(w) : w[n] = e[k][i]
      BY <1>4, <2>2
    <3>2. n \in 1 .. Len(v) /\ n < Len(v) /\ v[n] = e[k][i] /\ Len(v) \in 1 .. Len(v)
      BY <1>2, <3>1
    <3>3. v[Len(v)] = e[l][j]
      BY <1>1, <1>2, <2>3
    <3> QED BY <3>2, <3>3 DEF Precedes
  <2>4. CASE ~(l = 0 /\ j = s)
    <3>1. /\ i \in Places(d, k) /\ e[k][i] = d[k][i]
          /\ j \in Places(d, l) /\ e[l][j] = d[l][j]
      BY <1>4, <2>2, <2>4
    <3>2. Precedes(w, e[k][i], e[l][j])
      BY <3>1 DEF Ordered
    <3>3. PICK m \in 1 .. Len(w), n \in 1 .. Len(w) : m < n /\ w[m] = e[k][i] /\ w[n] = e[l][j]
      BY <3>2 DEF Precedes
    <3> QED BY <1>2, <3>3 DEF Precedes
  <2> QED BY <2>3, <2>4
<1> QED BY <1>5, <1>6 DEF v

-----------------------------------------------------------------------------
(* What was written or shown is of the records of their threads, of none   *)
(* newer than the one the thread logs now, and of that one only the pieces *)
(* before the next; it is shown at most once.  So no two written pieces are*)
(* the same.                                                               *)
LineInv ==
    /\ \A t \in Threads : record[t].by = t
    /\ \A n \in 1 .. Len(written) :
          \/ written[n].no < record[written[n].by].no
          \/ /\ written[n].no = record[written[n].by].no
             /\ written[n].part < part[written[n].by]
    /\ \A m, n \in 1 .. Len(written) : m < n => written[m] # written[n]
    /\ \A n \in 1 .. Len(console) :
          \/ console[n].no < record[console[n].by].no
          \/ console[n] = record[console[n].by] /\ at[console[n].by] = "idle"
    /\ \A m, n \in 1 .. Len(console) :
          m < n /\ console[m].by = console[n].by => console[m].no < console[n].no

LEMMA LineTypes ==
    ASSUME LogTypeOK
    PROVE  /\ Len(written) \in Nat /\ Len(console) \in Nat
           /\ \A n \in 1 .. Len(written) :
                /\ written[n] \in Pieces /\ written[n].by \in Threads
                /\ written[n].no \in Nat /\ written[n].part \in Nat
           /\ \A n \in 1 .. Len(console) :
                console[n] \in Records /\ console[n].by \in Threads /\ console[n].no \in Nat
           /\ \A t \in Threads : record[t] \in Records /\ record[t].by \in Threads /\ record[t].no \in Nat
<1>1. /\ \A r \in Records : r.by \in Threads /\ r.no \in Nat
      /\ \A p \in Pieces : p.by \in Threads /\ p.no \in Nat /\ p.part \in Nat
  BY DEF Records, Pieces
<1>2. Len(written) \in Nat /\ \A n \in 1 .. Len(written) : written[n] \in Pieces
  BY LenProperties, ElementOfSeq DEF LogTypeOK
<1>3. Len(console) \in Nat /\ \A n \in 1 .. Len(console) : console[n] \in Records
  BY LenProperties, ElementOfSeq DEF LogTypeOK
<1>4. \A t \in Threads : record[t] \in Records
  BY DEF LogTypeOK
<1> QED BY <1>1, <1>2, <1>3, <1>4

(* The piece that is about to be written has not been written before.      *)
LEMMA WritesNewPiece ==
    ASSUME LogTypeOK, LineInv, NEW t \in Threads, NEW n \in 1 .. Len(written)
    PROVE  written[n] # Piece(t)
<1> SUFFICES ASSUME written[n] = Piece(t) PROVE FALSE
  OBVIOUS
<1>1. /\ written[n].by = t /\ written[n].no = record[t].no /\ written[n].part = part[t]
      /\ record[t].no \in Nat /\ part[t] \in Nat
  BY PieceTypes
<1> QED BY <1>1 DEF LineInv

LEMMA LineInvInit == Init => LineInv
<1> SUFFICES ASSUME Init PROVE LineInv
  OBVIOUS
<1>1. Len(written) = 0 /\ Len(console) = 0
  BY EmptySeq DEF Init
<1>2. \A t \in Threads : record[t].by = t
  BY DEF Init, NewRecord
<1> QED BY <1>1, <1>2 DEF LineInv

LEMMA LineInvMoves ==
    ASSUME LogTypeOK, LineInv, NEW t \in Threads, at[t] # "idle",
           NEW s, at' = [at EXCEPT ![t] = s], UNCHANGED <<record, part, written, console>>
    PROVE  LineInv'
<1>1. \A u \in Threads : at[u] = "idle" => at'[u] = at[u]
  BY DEF LogTypeOK
<1> QED BY <1>1, LineTypes DEF LineInv

LEMMA LineInvStep ==
    ASSUME LogInv, LineInv, [LogNext]_logVars
    PROVE  LineInv'
<1> USE DEF appender, statement, history, rest, Goto
<1>0. LogTypeOK
  BY DEF LogInv
<1>1. CASE UNCHANGED <<at, record, part, written, console>>
  BY <1>1 DEF LineInv
<1>2. CASE Kill
  <2>1. /\ \A u \in Threads : at'[u] = "idle"
        /\ UNCHANGED <<record, part, written>> /\ Len(console') = 0
    BY <1>2, EmptySeq DEF Kill
  <2> QED BY <1>0, <2>1, LineTypes DEF LineInv
<1>3. ASSUME NEW t \in Threads, Log(t) PROVE LineInv'
  <2>1. /\ at[t] = "idle" /\ record[t] \in Records
        /\ record' = [record EXCEPT ![t] = [record[t] EXCEPT !.no = @ + 1]]
        /\ part' = [part EXCEPT ![t] = 0]
        /\ UNCHANGED <<written, console>>
    BY <1>0, <1>3 DEF Log, LogTypeOK
  <2>2. /\ record'[t].by = record[t].by /\ record'[t].no = record[t].no + 1 /\ record[t].no \in Nat
    BY <1>0, <2>1 DEF LogTypeOK, Records
  <2>3. \A u \in Threads : u # t => record'[u] = record[u] /\ part'[u] = part[u] /\ at'[u] = at[u]
    BY <1>0, <1>3, <2>1 DEF Log, LogTypeOK
  <2>4. \A u \in Threads : record'[u].by = u
    BY <2>2, <2>3 DEF LineInv
  <2>5. ASSUME NEW n \in 1 .. Len(written)
        PROVE  \/ written[n].no < record'[written[n].by].no
               \/ /\ written[n].no = record'[written[n].by].no
                  /\ written[n].part < part'[written[n].by]
    <3>1. CASE written[n].by = t
      <4>1. written[n].no < record[t].no \/ written[n].no = record[t].no
        BY <3>1 DEF LineInv
      <4>2. written[n].no \in Nat
        BY <1>0, LineTypes
      <4> QED BY <2>2, <3>1, <4>1, <4>2
    <3>2. CASE written[n].by # t
      <4>1. written[n].by \in Threads
        BY <1>0, LineTypes
      <4> QED BY <2>3, <3>2, <4>1 DEF LineInv
    <3> QED BY <3>1, <3>2
  <2>6. ASSUME NEW n \in 1 .. Len(console)
        PROVE  \/ console[n].no < record'[console[n].by].no
               \/ console[n] = record'[console[n].by] /\ at'[console[n].by] = "idle"
    <3>1. CASE console[n].by = t
      <4>1. console[n].no < record[t].no \/ console[n] = record[t]
        BY <3>1 DEF LineInv
      <4>2. console[n].no \in Nat /\ record[t].no \in Nat
        BY <1>0, LineTypes
      <4> QED BY <2>2, <3>1, <4>1, <4>2
    <3>2. CASE console[n].by # t
      <4>1. console[n].by \in Threads
        BY <1>0, LineTypes
      <4> QED BY <2>3, <3>2, <4>1 DEF LineInv
    <3> QED BY <3>1, <3>2
  <2> QED BY <2>1, <2>4, <2>5, <2>6 DEF LineInv
<1>4. ASSUME NEW t \in Threads, BeginWrite(t) PROVE LineInv'
  BY <1>0, <1>4, LineInvMoves DEF BeginWrite
<1>5. ASSUME NEW t \in Threads, UnlinkLast(t) PROVE LineInv'
  BY <1>0, <1>5, LineInvMoves DEF UnlinkLast
<1>6. ASSUME NEW t \in Threads, RenameNext(t) PROVE LineInv'
  BY <1>0, <1>6, LineInvMoves DEF RenameNext
<1>7. ASSUME NEW t \in Threads, OpenFails(t) \/ OpenLogFile(t) PROVE LineInv'
  BY <1>0, <1>7, LineInvMoves DEF OpenFails, OpenLogFile
<1>8. ASSUME NEW t \in Threads, EndWrite(t) PROVE LineInv'
  BY <1>0, <1>8, LineInvMoves DEF EndWrite
<1>9. ASSUME NEW t \in Threads, WritePiece(t) PROVE LineInv'
  <2>1. /\ part' = [part EXCEPT ![t] = part[t] + 1] /\ written' = Append(written, Piece(t))
        /\ UNCHANGED <<at, record, console>>
    BY <1>9 DEF WritePiece
  <2>2. /\ part'[t] = part[t] + 1 /\ part[t] \in Nat
        /\ \A u \in Threads : u # t => part'[u] = part[u]
    BY <1>0, <2>1 DEF LogTypeOK
  <2>3. /\ written \in Seq(Pieces) /\ Piece(t) \in Pieces /\ Piece(t).by = t
        /\ Piece(t).no = record[t].no /\ Piece(t).part = part[t]
    BY <1>0, PieceTypes DEF LogTypeOK
  <2>4. /\ Len(written) \in Nat /\ Len(written') = Len(written) + 1 /\ written'[Len(written')] = Piece(t)
        /\ \A n \in 1 .. Len(written) : n < Len(written') /\ written'[n] = written[n]
    BY <2>1, <2>3, AppendedLast
  <2>5. ASSUME NEW n \in 1 .. Len(written')
        PROVE  \/ written'[n].no < record[written'[n].by].no
               \/ /\ written'[n].no = record[written'[n].by].no
                  /\ written'[n].part < part'[written'[n].by]
    <3>1. CASE n = Len(written')
      BY <2>2, <2>3, <2>4, <3>1
    <3>2. CASE n # Len(written')
      <4>1. n \in 1 .. Len(written) /\ written'[n] = written[n]
        BY <2>4, <3>2
      <4>2. written[n].by \in Threads /\ written[n].part \in Nat
        BY <1>0, <4>1, LineTypes
      <4>3. \/ written[n].no < record[written[n].by].no
            \/ written[n].no = record[written[n].by].no /\ written[n].part < part[written[n].by]
        BY <4>1 DEF LineInv
      <4>4. written[n].part < part[written[n].by] => written[n].part < part'[written[n].by]
        BY <2>2, <4>2
      <4> QED BY <4>1, <4>3, <4>4
    <3> QED BY <3>1, <3>2
  <2>6. ASSUME NEW m \in 1 .. Len(written'), NEW n \in 1 .. Len(written'), m < n
        PROVE  written'[m] # written'[n]
    <3>1. m \in 1 .. Len(written) /\ written'[m] = written[m]
      BY <2>4, <2>6
    <3>2. CASE n = Len(written')
      BY <1>0, <2>4, <3>1, <3>2, WritesNewPiece
    <3>3. CASE n # Len(written')
      <4>1. n \in 1 .. Len(written) /\ written'[n] = written[n]
        BY <2>4, <3>3
      <4> QED BY <2>6, <3>1, <4>1 DEF LineInv
    <3> QED BY <3>2, <3>3
  <2> QED BY <2>1, <2>5, <2>6 DEF LineInv
<1>10. ASSUME NEW t \in Threads, WriteConsole(t) PROVE LineInv'
  <2>1. /\ at[t] = "console" /\ at' = [at EXCEPT ![t] = "idle"]
        /\ UNCHANGED <<record, part, written>> /\ console' = Append(console, record[t])
    BY <1>10 DEF WriteConsole
  <2>2. at'[t] = "idle" /\ \A u \in Threads : u # t => at'[u] = at[u]
    BY <1>0, <2>1 DEF LogTypeOK
  <2>3. console \in Seq(Records) /\ record[t] \in Records /\ record[t].by = t
    BY <1>0 DEF LogTypeOK, LineInv
  <2>4. /\ Len(console) \in Nat /\ Len(console') = Len(console) + 1 /\ console'[Len(console')] = record[t]
        /\ \A n \in 1 .. Len(console) : n < Len(console') /\ console'[n] = console[n]
    BY <2>1, <2>3, AppendedLast
  <2>5. ASSUME NEW n \in 1 .. Len(console')
        PROVE  \/ console'[n].no < record[console'[n].by].no
               \/ console'[n] = record[console'[n].by] /\ at'[console'[n].by] = "idle"
    <3>1. CASE n = Len(console')
      BY <2>2, <2>3, <2>4, <3>1
    <3>2. CASE n # Len(console')
      <4>1. n \in 1 .. Len(console) /\ console'[n] = console[n]
        BY <2>4, <3>2
      <4> QED BY <1>0, <2>2, <4>1, LineTypes DEF LineInv
    <3> QED BY <3>1, <3>2
  <2>6. ASSUME NEW m \in 1 .. Len(console'), NEW n \in 1 .. Len(console'), m < n,
               console'[m].by = console'[n].by
        PROVE  console'[m].no < console'[n].no
    <3>1. m \in 1 .. Len(console) /\ console'[m] = console[m]
      BY <2>4, <2>6
    <3>2. CASE n = Len(console')
      <4>1. console[m].by = t /\ at[t] # "idle"
        BY <2>1, <2>3, <2>4, <2>6, <3>1, <3>2
      <4>2. console[m].no < record[t].no
        BY <3>1, <4>1 DEF LineInv
      <4> QED BY <2>4, <3>1, <3>2, <4>2
    <3>3. CASE n # Len(console')
      <4>1. n \in 1 .. Len(console) /\ console'[n] = console[n]
        BY <2>4, <3>3
      <4> QED BY <2>6, <3>1, <4>1 DEF LineInv
    <3> QED BY <3>2, <3>3
  <2> QED BY <2>1, <2>5, <2>6 DEF LineInv
<1>11. CASE InitLogger \/ OtherOpens \/ OtherWrites
  BY <1>1, <1>11 DEF InitLogger, OtherOpens, OtherWrites
<1> QED BY <1>1, <1>2, <1>3, <1>4, <1>5, <1>6, <1>7, <1>8, <1>9, <1>10, <1>11
    DEF LogNext, Thread, logVars

-----------------------------------------------------------------------------
(* What the actions that touch the files do to them.                       *)

LEMMA DiskTypes == LogTypeOK => disk \in Disks
BY DEF LogTypeOK, Disks, Unit

LEMMA NextDiskTypes == LogTypeOK' => disk' \in Disks
BY DEF LogTypeOK, Disks, Unit

(* Opening the file changes no line: it may only begin an empty file.      *)
LEMMA OpenKeepsLines ==
    ASSUME LogInv, LogTypeOK', NEW t \in Threads, OpenLogFile(t)
    PROVE  /\ disk'[0] # Missing /\ \A k \in Numbers : k # 0 => disk'[k] = disk[k]
           /\ disk'[0] = Contents(0) \/ (Contents(0) = <<>> /\ disk'[0] \in Headers)
           /\ OnlyLoses(disk, disk') /\ \A x : Has(disk, x) => Has(disk', x)
<1>0. disk \in Disks /\ disk' \in Disks /\ 0 \in Numbers /\ Missing \notin Seq(Unit)
  BY DiskTypes, NextDiskTypes, FileNumberTypes, LogAssumption DEF LogInv, Unit, Pieces
<1>1. PICK c : c \in {Contents(0)} \cup Headers /\ (c # Contents(0) => Contents(0) = <<>>) /\ disk' = [disk EXCEPT ![0] = c]
  BY DEF OpenLogFile
<1>2. disk'[0] = c /\ \A k \in Numbers : k # 0 => disk'[k] = disk[k]
  BY <1>0, <1>1 DEF Disks
<1>3. c \in Seq(Unit) /\ c # Missing
  <2>1. <<Mark>> \in Seq(Unit) /\ <<>> \in Seq(Unit)
    BY EmptySeq DEF Unit
  <2>2. Contents(0) \in Seq(Unit)
    BY <1>0, <2>1 DEF Contents, Exists, Disks
  <2> QED BY <1>0, <1>1, <2>1, <2>2 DEF Headers
<1>4. ASSUME c # Contents(0) PROVE Places(disk, 0) = {} /\ Places(disk', 0) = {}
  <2>1. Contents(0) = <<>> /\ c \in Headers
    BY <1>1, <1>4
  <2>2. Places(disk, 0) = {}
    BY <2>1 DEF Contents, Exists, Places
  <2>3. \A i \in 1 .. Len(c) : c[i] = Mark
    BY <2>1 DEF Headers
  <2> QED BY <1>2, <2>2, <2>3, LineAssumption DEF Places, Pieces
<1>5. ASSUME c = Contents(0) PROVE Places(disk', 0) = Places(disk, 0) /\ \A i \in Places(disk, 0) : disk'[0][i] = disk[0][i]
  <2>1. CASE disk[0] = Missing
    BY <1>2, <1>5, <2>1, EmptySeq DEF Contents, Exists, Places
  <2>2. CASE disk[0] # Missing
    BY <1>2, <1>5, <2>2 DEF Contents, Exists, Places
  <2> QED BY <2>1, <2>2
<1>6. \A k \in Numbers : Places(disk', k) = Places(disk, k) /\ \A i \in Places(disk, k) : disk'[k][i] = disk[k][i]
  BY <1>2, <1>4, <1>5 DEF Places
<1>7. OnlyLoses(disk, disk') /\ \A x : Has(disk, x) => Has(disk', x)
  BY <1>6 DEF OnlyLoses, Has
<1>8. disk'[0] = Contents(0) \/ (Contents(0) = <<>> /\ disk'[0] \in Headers)
  BY <1>1, <1>2
<1> QED BY <1>2, <1>3, <1>7, <1>8

(* The last file, which there is at most, is removed, or nothing happens.  *)
LEMMA UnlinkDisk ==
    ASSUME LogInv, NEW t \in Threads, UnlinkLast(t)
    PROVE  /\ maxFiles - 1 \in Numbers /\ maxFiles > 0 /\ maxFiles \in Nat /\ mutex = t /\ other = NoFile
           /\ disk' = disk \/ disk' = [disk EXCEPT ![maxFiles - 1] = Missing]
           /\ OnlyLoses(disk, disk')
<1>1. maxFiles > 0 /\ maxFiles \in Nat /\ mutex = t /\ other = NoFile
  BY FileNumbers DEF LogInv, LogTypeOK, HolderInv, FileInv, UnlinkLast, Goto
<1>2. maxFiles - 1 \in Numbers
  BY <1>1, FileNumbers DEF LogInv, LogTypeOK
<1>3. disk' = disk \/ disk' = [disk EXCEPT ![maxFiles - 1] = Missing]
  BY DEF UnlinkLast, Unlink
<1>4. disk \in Disks
  BY DiskTypes DEF LogInv
<1>5. OnlyLoses(disk, disk)
  BY DEF OnlyLoses
<1> QED BY <1>1, <1>2, <1>3, <1>4, <1>5, UnlinkLoses

(* A file is renamed, or nothing happens.                                  *)
LEMMA RenameDisk ==
    ASSUME LogInv, NEW t \in Threads, RenameNext(t)
    PROVE  /\ fileNumber \in Numbers /\ fileNumber + 1 \in Numbers /\ fileNumber \in 0 .. maxFiles - 2
           /\ maxFiles \in Nat /\ mutex = t /\ other = NoFile /\ file = NoFile
           /\ \/ disk' = disk
              \/ disk[fileNumber] # Missing /\ disk' = Renamed(disk, fileNumber, fileNumber + 1)
<1>1. /\ fileNumber \in 0 .. maxFiles - 2 /\ maxFiles \in Nat /\ mutex = t /\ file = NoFile
  BY FileNumbers DEF LogInv, LogTypeOK, HolderInv, RenameNext, Goto
<1>2. other = NoFile
  BY <1>1 DEF LogInv, FileInv
<1>3. fileNumber \in Numbers /\ fileNumber + 1 \in Numbers
  BY <1>1, FileNumbers DEF LogInv, LogTypeOK
<1>4. Rename(fileNumber, fileNumber + 1)
  BY DEF RenameNext
<1> QED BY <1>1, <1>2, <1>3, <1>4 DEF Rename, Exists, Renamed

(* A piece is written by a thread at the place of the descriptor.          *)
LEMMA WritePieceDisk ==
    ASSUME LogInv, NEW t \in Threads, WritePiece(t)
    PROVE  /\ disk' = Wrote(disk, file, Piece(t)) /\ disk[0] # Missing /\ file \in Nat
           /\ Piece(t) \in Pieces /\ Piece(t) \in Unit /\ file' = file + 1
           /\ written' = Append(written, Piece(t)) /\ written \in Seq(Pieces)
           /\ Alone => file = Len(disk[0])
<1>1. disk' = Wrote(disk, file, Piece(t))
  BY DEF WritePiece, Wrote
<1>2. file \in Nat /\ disk[0] # Missing /\ (Alone => file = Len(disk[0]))
  BY DEF WritePiece, LogInv, FileInv, Exists
<1>3. Piece(t) \in Pieces /\ Piece(t) \in Unit /\ written \in Seq(Pieces)
  BY PieceTypes DEF LogInv, LogTypeOK, Unit
<1> QED BY <1>1, <1>2, <1>3 DEF WritePiece

(* The other process overwrites pieces, or writes behind them.             *)
LEMMA OtherWritesDisk ==
    ASSUME LogInv, OtherWrites
    PROVE  /\ OnlyLoses(disk, disk') /\ disk[0] # Missing
           /\ \A k \in Numbers : k # 0 => disk'[k] = disk[k]
<1>1. disk' = Wrote(disk, other, Foreign) /\ disk[0] # Missing /\ other \in Nat
  BY DEF OtherWrites, Wrote, LogInv, FileInv, Exists
<1>2. Foreign \in Unit /\ Foreign \notin Pieces /\ disk \in Disks
  BY LineAssumption, DiskTypes DEF Unit, Pieces, LogInv
<1>3. Puts(disk, disk', other, Spot(disk[0], other), Foreign)
  BY <1>1, <1>2, WritePlaces
<1> QED BY <1>1, <1>2, <1>3 DEF Puts

-----------------------------------------------------------------------------
(* The files are numbered below maxFiles, and no line of the process is    *)
(* behind the descriptor.                                                  *)
PlaceInv ==
    /\ \A k \in Numbers : k >= 1 /\ k >= maxFiles => disk[k] = Missing
    /\ file # NoFile => \A i \in Places(disk, 0) : i <= file

OrderInv == OnlyWritten(disk, written) /\ Ordered(disk, written)

LEMMA PlaceOrderInit == Init => PlaceInv /\ OrderInv
<1> SUFFICES ASSUME Init PROVE PlaceInv /\ OrderInv
  OBVIOUS
<1>1. file = NoFile /\ \A k \in Numbers : disk[k] = Missing
  BY DEF Init
<1>2. \A k \in Numbers : Places(disk, k) = {}
  BY <1>1 DEF Places
<1> QED BY <1>1, <1>2 DEF PlaceInv, OrderInv, OnlyWritten, Ordered

LEMMA PlaceOrderStep ==
    ASSUME LogInv, LogInv', PlaceInv, OrderInv, [LogNext]_logVars
    PROVE  PlaceInv' /\ OrderInv'
<1> USE DEF appender, statement, history, rest
<1>0. /\ LogTypeOK /\ LogTypeOK' /\ disk \in Disks /\ disk' \in Disks
      /\ 0 \in Numbers /\ Numbers \subseteq Nat
  BY DiskTypes, NextDiskTypes, FileNumberTypes DEF LogInv
<1>1. CASE UNCHANGED <<maxFiles, file, disk, written>>
  BY <1>1 DEF PlaceInv, OrderInv
<1>2. CASE Kill
  BY <1>2 DEF Kill, PlaceInv, OrderInv
<1>3. CASE OtherWrites
  <2>1. OnlyLoses(disk, disk') /\ \A k \in Numbers : k # 0 => disk'[k] = disk[k]
    BY <1>3, OtherWritesDisk
  <2>2. UNCHANGED <<maxFiles, file, written>>
    BY <1>3 DEF OtherWrites
  <2>3. OrderInv'
    BY <1>0, <2>1, <2>2, LosingKeepsOrder DEF OrderInv
  <2>4. \A k \in Numbers : k >= 1 /\ k >= maxFiles => disk'[k] = Missing
    BY <1>0, <2>1 DEF PlaceInv
  <2>5. file # NoFile => \A i \in Places(disk', 0) : i <= file
    BY <1>0, <2>1 DEF PlaceInv, OnlyLoses
  <2> QED BY <2>2, <2>3, <2>4, <2>5 DEF PlaceInv
<1>4. ASSUME NEW t \in Threads, UnlinkLast(t) PROVE PlaceInv' /\ OrderInv'
  <2>1. /\ maxFiles - 1 \in Numbers /\ OnlyLoses(disk, disk')
        /\ disk' = disk \/ disk' = [disk EXCEPT ![maxFiles - 1] = Missing]
    BY <1>4, UnlinkDisk
  <2>2. file' = NoFile /\ UNCHANGED <<maxFiles, written>>
    BY <1>4 DEF UnlinkLast, CloseFile
  <2>3. OrderInv'
    BY <1>0, <2>1, <2>2, LosingKeepsOrder DEF OrderInv
  <2>4. \A k \in Numbers : disk'[k] = disk[k] \/ disk'[k] = Missing
    BY <1>0, <2>1 DEF Disks
  <2> QED BY <2>2, <2>3, <2>4 DEF PlaceInv
<1>5. ASSUME NEW t \in Threads, RenameNext(t) PROVE PlaceInv' /\ OrderInv'
  <2>1. /\ fileNumber \in Numbers /\ fileNumber + 1 \in Numbers /\ fileNumber \in 0 .. maxFiles - 2
        /\ maxFiles \in Nat /\ file = NoFile
        /\ disk' = disk \/ disk' = Renamed(disk, fileNumber, fileNumber + 1)
    BY <1>5, RenameDisk
  <2>2. UNCHANGED <<maxFiles, file, written>>
    BY <1>5 DEF RenameNext
  <2>3. CASE disk' = disk
    BY <1>1, <2>2, <2>3
  <2>4. CASE disk' = Renamed(disk, fileNumber, fileNumber + 1)
    <3>1. OrderInv'
      BY <1>0, <2>1, <2>2, <2>4, RenamingKeepsOrder DEF OrderInv
    <3>2. /\ disk'[fileNumber] = Missing
          /\ \A l \in Numbers \ {fileNumber, fileNumber + 1} : disk'[l] = disk[l]
      BY <1>0, <2>1, <2>4 DEF Disks, Renamed
    <3>3. \A k \in Numbers : k >= maxFiles => k # fileNumber + 1
      BY <1>0, <2>1
    <3>4. \A k \in Numbers : k >= 1 /\ k >= maxFiles => disk'[k] = Missing
      BY <3>2, <3>3 DEF PlaceInv
    <3> QED BY <2>1, <2>2, <3>1, <3>4 DEF PlaceInv
  <2> QED BY <2>1, <2>3, <2>4
<1>6. ASSUME NEW t \in Threads, OpenLogFile(t) PROVE PlaceInv' /\ OrderInv'
  <2>1. /\ OnlyLoses(disk, disk') /\ \A k \in Numbers : k # 0 => disk'[k] = disk[k]
    BY <1>0, <1>6, OpenKeepsLines
  <2>2. UNCHANGED <<maxFiles, written>> /\ file' = Len(disk'[0])
    BY <1>6 DEF OpenLogFile
  <2>3. OrderInv'
    BY <1>0, <2>1, <2>2, LosingKeepsOrder DEF OrderInv
  <2>4. \A i \in Places(disk', 0) : i <= file'
    BY <1>0, <2>2, PlaceTypes
  <2>5. \A k \in Numbers : k >= 1 /\ k >= maxFiles => disk'[k] = Missing
    BY <1>0, <2>1 DEF PlaceInv
  <2> QED BY <2>2, <2>3, <2>4, <2>5 DEF PlaceInv
<1>7. ASSUME NEW t \in Threads, WritePiece(t) PROVE PlaceInv' /\ OrderInv'
  <2>1. /\ disk' = Wrote(disk, file, Piece(t)) /\ disk[0] # Missing /\ file \in Nat
        /\ Piece(t) \in Pieces /\ Piece(t) \in Unit /\ file' = file + 1
        /\ written' = Append(written, Piece(t)) /\ written \in Seq(Pieces)
    BY <1>7, WritePieceDisk
  <2>2. \A i \in Places(disk, 0) : i <= file
    BY <2>1 DEF PlaceInv, NoFile
  <2>8. Puts(disk, disk', file, Spot(disk[0], file), Piece(t))
    BY <1>0, <2>1, WritePlaces
  <2>3. OrderInv'
    BY <1>0, <2>1, <2>2, WritingKeepsOrder DEF OrderInv
  <2>4. \A k \in Numbers : k # 0 => disk'[k] = disk[k]
    BY <2>8 DEF Puts
  <2>5. maxFiles' = maxFiles
    BY <1>7 DEF WritePiece
  <2>6. \A k \in Numbers : k >= 1 /\ k >= maxFiles => disk'[k] = Missing
    BY <1>0, <2>4 DEF PlaceInv
  <2>7. ASSUME NEW i \in Places(disk', 0) PROVE i <= file'
    <3>1. i <= Spot(disk[0], file) /\ Spot(disk[0], file) <= file + 1 /\ Spot(disk[0], file) \in Nat
      BY <2>2, <2>8 DEF Puts
    <3>2. i \in Nat
      BY <1>0, PlaceTypes
    <3> QED BY <2>1, <3>1, <3>2
  <2> QED BY <2>3, <2>5, <2>6, <2>7 DEF PlaceInv
<1>8. ASSUME NEW t \in Threads, OpenFails(t) PROVE PlaceInv' /\ OrderInv'
  BY <1>8 DEF OpenFails, PlaceInv, OrderInv
<1>9. ASSUME NEW t \in Threads, Log(t) \/ BeginWrite(t) \/ EndWrite(t) \/ WriteConsole(t)
      PROVE  PlaceInv' /\ OrderInv'
  BY <1>1, <1>9 DEF Log, BeginWrite, EndWrite, WriteConsole
<1>10. CASE InitLogger \/ OtherOpens
  BY <1>1, <1>10 DEF InitLogger, OtherOpens
<1> QED BY <1>1, <1>2, <1>3, <1>4, <1>5, <1>6, <1>7, <1>8, <1>9, <1>10
    DEF LogNext, Thread, logVars

-----------------------------------------------------------------------------
(* Whoever rolls does so because file 0 is full, and it is still there     *)
(* until its turn comes; unless a call failed, each rename finds its new   *)
(* name free.  A size that is counted is that of an open file, except      *)
(* while the file is being rolled.                                         *)
RollInv ==
    /\ \A t \in Threads :
          at[t] \in {"unlinking", "renaming"} => disk[0] # Missing /\ Len(disk[0]) > MaxFileSize
    /\ ~stuck => \A t \in Threads : at[t] = "renaming" => disk[fileNumber + 1] = Missing
    /\ file = NoFile /\ fileSize > 0 => \E t \in Threads : at[t] \in {"opening", "renaming"}

Holding == {"opening", "unlinking", "renaming", "writing"}

LEMMA OneHolds ==
    ASSUME LogInv, NEW t \in Threads, at[t] \in Holding
    PROVE  /\ mutex = t /\ mutex # NoThread
           /\ \A u \in Threads : at[u] \in Holding => u = t
BY LogAssumption DEF LogInv, HolderInv, Holding

LEMMA RollInvInit == Init => RollInv
BY DEF Init, RollInv

LEMMA RollInvStep ==
    ASSUME LogInv, RollInv, [LogNext]_logVars
    PROVE  RollInv'
<1> USE DEF appender, statement, history, rest, Goto
<1>0. /\ LogTypeOK /\ disk \in Disks /\ 0 \in Numbers /\ Numbers \subseteq Nat
      /\ at \in [Threads -> Steps] /\ fileSize \in Int /\ MaxFileSize \in Nat \ {0}
  BY DiskTypes, FileNumberTypes, LogAssumption DEF LogInv, LogTypeOK
<1>1. CASE UNCHANGED <<at, disk, stuck, fileNumber, file, fileSize>>
  BY <1>1 DEF RollInv
<1>2. CASE Kill
  BY <1>2 DEF Kill, RollInv
<1>3. CASE OtherWrites
  <2>1. other # NoFile /\ UNCHANGED <<at, stuck, fileNumber, file, fileSize, maxFiles>>
    BY <1>3 DEF OtherWrites
  <2>2. maxFiles = 0
    BY <2>1 DEF LogInv, FileInv
  <2>3. \A t \in Threads : at[t] \notin {"unlinking", "renaming"}
    BY <2>2 DEF LogInv, HolderInv
  <2> QED BY <2>1, <2>3 DEF RollInv
<1>4. ASSUME NEW t \in Threads, Log(t) PROVE RollInv'
  BY <1>0, <1>4 DEF Log, RollInv
<1>5. ASSUME NEW t \in Threads, BeginWrite(t) PROVE RollInv'
  <2>1. /\ mutex = NoThread /\ UNCHANGED <<disk, stuck, fileNumber, file, fileSize>>
        /\ at' = [at EXCEPT ![t] = IF firstWrite THEN "opening" ELSE IF MustRoll THEN "unlinking" ELSE "writing"]
    BY <1>5 DEF BeginWrite, Lock
  <2>2. \A u \in Threads : at[u] \notin Holding
    BY <2>1, OneHolds
  <2>3. file = NoFile => ~(fileSize > 0)
    BY <2>2 DEF RollInv, Holding
  <2>4. \A u \in Threads : at'[u] # "renaming" /\ (at'[u] = "unlinking" => MustRoll)
    BY <1>0, <2>1, <2>2 DEF Holding
  <2>5. ASSUME MustRoll PROVE disk[0] # Missing /\ Len(disk[0]) > MaxFileSize
    <3>1. maxFiles > 0 /\ fileSize > MaxFileSize
      BY <2>5 DEF MustRoll
    <3>2. other = NoFile
      BY <3>1 DEF LogInv, FileInv
    <3>3. file # NoFile
      BY <1>0, <2>3, <3>1
    <3> QED BY <3>1, <3>2, <3>3 DEF LogInv, FileInv, Alone, Exists
  <2> QED BY <2>1, <2>3, <2>4, <2>5 DEF RollInv
<1>6. ASSUME NEW t \in Threads, UnlinkLast(t) PROVE RollInv'
  <2>1. /\ maxFiles - 1 \in Numbers /\ maxFiles > 0 /\ maxFiles \in Nat
        /\ disk' = disk \/ disk' = [disk EXCEPT ![maxFiles - 1] = Missing]
    BY <1>6, UnlinkDisk
  <2>2. /\ at[t] = "unlinking" /\ fileNumber' = maxFiles - 2
        /\ at' = [at EXCEPT ![t] = IF maxFiles = 1 THEN "opening" ELSE "renaming"]
        /\ ~stuck' => disk'[maxFiles - 1] = Missing
    BY <1>6 DEF UnlinkLast
  <2>3. \A u \in Threads : u # t => at[u] \notin Holding /\ at'[u] = at[u]
    BY <1>0, <2>2, OneHolds DEF Holding
  <2>4. at'[t] \in {"opening", "renaming"} /\ (at'[t] = "renaming" => maxFiles # 1)
    BY <1>0, <2>2
  <2>5. maxFiles # 1 => disk'[0] = disk[0]
    BY <1>0, <2>1 DEF Disks
  <2>6. disk[0] # Missing /\ Len(disk[0]) > MaxFileSize
    BY <2>2 DEF RollInv
  <2>7. \A u \in Threads : at'[u] \in {"unlinking", "renaming"} => disk'[0] # Missing /\ Len(disk'[0]) > MaxFileSize
    BY <2>3, <2>4, <2>5, <2>6 DEF Holding
  <2>8. fileNumber' + 1 = maxFiles - 1
    BY <2>1, <2>2
  <2> QED BY <2>2, <2>4, <2>7, <2>8 DEF RollInv
<1>7. ASSUME NEW t \in Threads, RenameNext(t) PROVE RollInv'
  <2>1. /\ fileNumber \in Numbers /\ fileNumber + 1 \in Numbers /\ fileNumber \in Nat
        /\ disk' = disk \/ disk' = Renamed(disk, fileNumber, fileNumber + 1)
    BY <1>0, <1>7, RenameDisk
  <2>2. /\ at[t] = "renaming" /\ fileNumber' = fileNumber - 1
        /\ at' = [at EXCEPT ![t] = IF fileNumber = 0 THEN "opening" ELSE "renaming"]
        /\ ~stuck' => disk'[fileNumber] = Missing
    BY <1>7 DEF RenameNext
  <2>3. \A u \in Threads : u # t => at[u] \notin Holding /\ at'[u] = at[u]
    BY <1>0, <2>2, OneHolds DEF Holding
  <2>4. at'[t] \in {"opening", "renaming"} /\ (at'[t] = "renaming" => fileNumber # 0)
    BY <1>0, <2>2
  <2>5. fileNumber # 0 => disk'[0] = disk[0]
    BY <1>0, <2>1 DEF Disks, Renamed
  <2>6. disk[0] # Missing /\ Len(disk[0]) > MaxFileSize
    BY <2>2 DEF RollInv
  <2>7. \A u \in Threads : at'[u] \in {"unlinking", "renaming"} => disk'[0] # Missing /\ Len(disk'[0]) > MaxFileSize
    BY <2>3, <2>4, <2>5, <2>6 DEF Holding
  <2>8. fileNumber' + 1 = fileNumber
    BY <2>1, <2>2
  <2> QED BY <2>2, <2>4, <2>7, <2>8 DEF RollInv
<1>8. ASSUME NEW t \in Threads, OpenFails(t) \/ OpenLogFile(t) \/ WritePiece(t) PROVE RollInv'
  <2>1. at[t] \in Holding /\ \E s \in {"writing", "console"} : at' = [at EXCEPT ![t] = s]
    BY <1>0, <1>8 DEF OpenFails, OpenLogFile, WritePiece, Holding
  <2>2. \A u \in Threads : at'[u] \notin {"unlinking", "renaming"}
    BY <1>0, <2>1, OneHolds DEF Holding
  <2>3. file' # NoFile \/ ~(fileSize' > 0)
    <3>1. CASE OpenFails(t)
      BY <3>1 DEF OpenFails, NoFile
    <3>2. CASE OpenLogFile(t)
      <4>1. LogInv'
        BY <3>2, LogInvStep DEF LogNext, Thread
      <4>2. disk'[0] \in Seq(Unit)
        BY <1>0, <3>2, <4>1, OpenKeepsLines, NextDiskTypes DEF LogInv, Disks
      <4> QED BY <3>2, <4>2, LenProperties DEF OpenLogFile, NoFile
    <3>3. CASE WritePiece(t)
      BY <3>3, WritePieceDisk DEF NoFile
    <3> QED BY <1>8, <3>1, <3>2, <3>3
  <2> QED BY <2>2, <2>3 DEF RollInv
<1>9. ASSUME NEW t \in Threads, EndWrite(t) \/ WriteConsole(t) PROVE RollInv'
  BY <1>0, <1>9 DEF EndWrite, WriteConsole, RollInv
<1>10. CASE InitLogger \/ OtherOpens
  BY <1>1, <1>10 DEF InitLogger, OtherOpens
<1> QED BY <1>1, <1>2, <1>3, <1>4, <1>5, <1>6, <1>7, <1>8, <1>9, <1>10
    DEF LogNext, Thread, logVars

-----------------------------------------------------------------------------
(* File 0 is a header, if it could be written, and the newest pieces.      *)
EndsWith(c, w) ==
    \A i \in 1 .. Len(c) :
        \/ i = 1 /\ c[i] = Mark
        \/ Len(w) - Len(c) + i \in 1 .. Len(w) /\ c[i] = w[Len(w) - Len(c) + i]
EndInv == other = NoFile /\ disk[0] # Missing => EndsWith(disk[0], written)

LEMMA AppendingEnds ==
    ASSUME NEW c \in Seq(Unit), NEW w \in Seq(Pieces), EndsWith(c, w), NEW x \in Pieces
    PROVE  EndsWith(Append(c, x), Append(w, x))
<1> DEFINE b == Append(c, x)
<1> DEFINE v == Append(w, x)
<1>1. x \in Unit
  BY DEF Unit
<1>2. Len(c) \in Nat /\ Len(b) = Len(c) + 1 /\ b[Len(c) + 1] = x /\ \A i \in 1 .. Len(c) : b[i] = c[i]
  BY <1>1, LenProperties, AppendProperties
<1>3. Len(w) \in Nat /\ Len(v) = Len(w) + 1 /\ v[Len(w) + 1] = x /\ \A i \in 1 .. Len(w) : v[i] = w[i]
  BY LenProperties, AppendProperties
<1> HIDE DEF b, v
<1>4. ASSUME NEW i \in 1 .. Len(b)
      PROVE  \/ i = 1 /\ b[i] = Mark
             \/ Len(v) - Len(b) + i \in 1 .. Len(v) /\ b[i] = v[Len(v) - Len(b) + i]
  <2>1. Len(v) - Len(b) + i = Len(w) - Len(c) + i
    BY <1>2, <1>3
  <2>2. CASE i = Len(c) + 1
    BY <1>2, <1>3, <2>1, <2>2
  <2>3. CASE i # Len(c) + 1
    <3>1. i \in 1 .. Len(c) /\ b[i] = c[i]
      BY <1>2, <2>3
    <3>2. CASE i = 1 /\ c[i] = Mark
      BY <3>1, <3>2
    <3>3. CASE Len(w) - Len(c) + i \in 1 .. Len(w) /\ c[i] = w[Len(w) - Len(c) + i]
      BY <1>3, <2>1, <3>1, <3>3
    <3> QED BY <3>1, <3>2, <3>3 DEF EndsWith
  <2> QED BY <2>2, <2>3
<1> QED BY <1>4 DEF EndsWith, b, v

LEMMA EndInvInit == Init => EndInv
<1> SUFFICES ASSUME Init PROVE EndInv
  OBVIOUS
<1> QED BY FileNumberTypes DEF Init, EndInv

LEMMA EndInvStep ==
    ASSUME LogInv, LogInv', EndInv, [LogNext]_logVars
    PROVE  EndInv'
<1> USE DEF appender, statement, history, rest
<1>0. /\ LogTypeOK /\ LogTypeOK' /\ disk \in Disks /\ 0 \in Numbers /\ Numbers \subseteq Nat
  BY DiskTypes, FileNumberTypes DEF LogInv
<1>1. CASE UNCHANGED <<disk, written, other>>
  BY <1>1 DEF EndInv
<1>2. CASE OtherOpens
  <2>1. disk[0] \in Seq(Unit)
    BY <1>0, <1>2 DEF OtherOpens, Exists, Disks
  <2>2. other' # NoFile
    BY <1>2, <2>1, LenProperties DEF OtherOpens, NoFile
  <2> QED BY <2>2 DEF EndInv
<1>3. CASE OtherWrites
  <2>1. other \in Nat /\ other' = other + 1
    BY <1>3 DEF OtherWrites, LogInv, FileInv
  <2> QED BY <2>1 DEF EndInv, NoFile
<1>4. ASSUME NEW t \in Threads, UnlinkLast(t) PROVE EndInv'
  <2>1. disk' = disk \/ disk' = [disk EXCEPT ![maxFiles - 1] = Missing]
    BY <1>4, UnlinkDisk
  <2>2. UNCHANGED <<written, other>>
    BY <1>4 DEF UnlinkLast
  <2>3. disk'[0] = disk[0] \/ disk'[0] = Missing
    BY <1>0, <2>1 DEF Disks
  <2> QED BY <2>2, <2>3 DEF EndInv
<1>5. ASSUME NEW t \in Threads, RenameNext(t) PROVE EndInv'
  <2>1. /\ fileNumber \in Numbers /\ fileNumber + 1 \in Numbers /\ fileNumber \in Nat
        /\ disk' = disk \/ disk' = Renamed(disk, fileNumber, fileNumber + 1)
    BY <1>0, <1>5, RenameDisk
  <2>2. UNCHANGED <<written, other>>
    BY <1>5 DEF RenameNext
  <2>3. disk'[0] = disk[0] \/ disk'[0] = Missing
    BY <1>0, <2>1 DEF Disks, Renamed
  <2> QED BY <2>2, <2>3 DEF EndInv
<1>6. ASSUME NEW t \in Threads, OpenLogFile(t) PROVE EndInv'
  <2>1. disk'[0] = Contents(0) \/ disk'[0] \in Headers
    BY <1>0, <1>6, OpenKeepsLines
  <2>2. UNCHANGED <<written, other>>
    BY <1>6 DEF OpenLogFile
  <2>3. \A c \in Headers : EndsWith(c, written)
    BY DEF Headers, EndsWith
  <2>4. EndsWith(<<>>, written)
    BY DEF EndsWith
  <2>5. CASE disk'[0] = Contents(0)
    BY <2>2, <2>4, <2>5 DEF EndInv, Contents, Exists
  <2>6. CASE disk'[0] \in Headers
    BY <2>2, <2>3, <2>6 DEF EndInv
  <2> QED BY <2>1, <2>5, <2>6
<1>7. ASSUME NEW t \in Threads, WritePiece(t) PROVE EndInv'
  <2>1. /\ disk' = Wrote(disk, file, Piece(t)) /\ disk[0] # Missing
        /\ Piece(t) \in Pieces /\ written' = Append(written, Piece(t)) /\ written \in Seq(Pieces)
        /\ Alone => file = Len(disk[0])
    BY <1>7, WritePieceDisk
  <2>2. other' = other
    BY <1>7 DEF WritePiece
  <2>3. CASE other = NoFile
    <3>1. disk'[0] = Append(disk[0], Piece(t))
      <4>1. disk'[0] = WriteAt(disk[0], file, Piece(t))
        BY <1>0, <2>1 DEF Wrote, Disks
      <4>2. disk[0] \in Seq(Unit) /\ ~(Len(disk[0]) < Len(disk[0]))
        BY <1>0, <2>1, LenProperties DEF Disks
      <4> QED BY <2>1, <2>3, <4>1, <4>2 DEF WriteAt, Alone
    <3>2. disk[0] \in Seq(Unit) /\ EndsWith(disk[0], written)
      BY <1>0, <2>1, <2>3 DEF Disks, EndInv
    <3>3. EndsWith(disk'[0], written')
      BY <2>1, <3>1, <3>2, AppendingEnds
    <3> QED BY <3>3 DEF EndInv
  <2> QED BY <2>2, <2>3 DEF EndInv
<1>8. ASSUME NEW t \in Threads,
             \/ Log(t) \/ BeginWrite(t) \/ OpenFails(t) \/ EndWrite(t) \/ WriteConsole(t)
      PROVE  EndInv'
  BY <1>1, <1>8 DEF Log, BeginWrite, OpenFails, EndWrite, WriteConsole
<1>9. CASE InitLogger \/ Kill
  BY <1>1, <1>9 DEF InitLogger, Kill
<1> QED BY <1>1, <1>2, <1>3, <1>4, <1>5, <1>6, <1>7, <1>8, <1>9
    DEF LogNext, Thread, logVars

-----------------------------------------------------------------------------
(* The newest pieces are on disk, and nothing is missing between them.     *)
Newest(d, w, n) == \A m \in 1 .. Len(w) : m > Len(w) - n => Has(d, w[m])
NoGap(d, w) == \A m, n \in 1 .. Len(w) : m < n /\ Has(d, w[m]) => Has(d, w[n])
KeepInv ==
    other = NoFile => Newest(disk, written, Surely) /\ (stuck \/ NoGap(disk, written))

(* The place in a file of length c of what was written as n of w, if both  *)
(* end with the same and more than s of it is in the file.                 *)
LEMMA PlaceFromEnd ==
    ASSUME NEW w \in Nat, NEW c \in Nat, NEW s \in Nat \ {0}, NEW n \in Nat,
           n <= w, n > w - s, c > s
    PROVE  n - w + c \in 1 .. c /\ n - w + c # 1 /\ w - c + (n - w + c) = n
OBVIOUS

(* A file that is rolled holds all the pieces that surely are kept.        *)
LEMMA FullFileHasNewest ==
    ASSUME LogInv, EndInv, other = NoFile, disk[0] # Missing, Len(disk[0]) > MaxFileSize, maxFiles > 0,
           NEW n \in 1 .. Len(written), n > Len(written) - Surely
    PROVE  \E i \in Places(disk, 0) : disk[0][i] = written[n]
<1>1. disk[0] \in Seq(Unit) /\ MaxFileSize \in Nat \ {0}
  BY DiskTypes, FileNumberTypes, LogAssumption DEF LogInv, Disks
<1>2. Len(disk[0]) \in Nat /\ Len(written) \in Nat /\ written[n] \in Pieces
  BY <1>1, LenProperties, LineTypes DEF LogInv
<1>3. Surely <= MaxFileSize /\ Surely \in Nat
  <2>1. maxFiles # 0
    BY FileNumbers DEF LogInv, LogTypeOK
  <2> QED BY <1>1, <1>2, <2>1 DEF Surely
<1> DEFINE c == Len(disk[0])
<1> DEFINE w == Len(written)
<1> DEFINE i == n - w + c
<1>4. i \in 1 .. c /\ i # 1 /\ w - c + i = n
  <2>1. n \in Nat /\ n <= w /\ n > w - MaxFileSize
    BY <1>1, <1>2, <1>3
  <2>2. w \in Nat /\ c \in Nat /\ c > MaxFileSize /\ MaxFileSize \in Nat \ {0}
    BY <1>1, <1>2
  <2> HIDE DEF c, w
  <2> QED BY <2>1, <2>2, PlaceFromEnd
<1> HIDE DEF i
<1>5. disk[0][i] = written[n]
  BY <1>4 DEF EndInv, EndsWith
<1> QED BY <1>2, <1>4, <1>5 DEF Places

(* What was written before is on disk in an older place.                   *)
LEMMA OlderBehind ==
    ASSUME LineInv, OrderInv, NEW m \in 1 .. Len(written), NEW n \in 1 .. Len(written), m < n,
           Len(written) \in Nat,
           NEW k \in Numbers, NEW i \in Places(disk, k), disk[k][i] = written[m],
           NEW l \in Numbers, NEW j \in Places(disk, l), disk[l][j] = written[n]
    PROVE  k >= l
<1> SUFFICES ASSUME ~(k >= l) PROVE FALSE
  OBVIOUS
<1>1. l > k
  BY FileNumberTypes
<1>2. Precedes(written, disk[l][j], disk[k][i])
  BY <1>1 DEF OrderInv, Ordered
<1>3. PICK p \in 1 .. Len(written), q \in 1 .. Len(written) :
          p < q /\ written[p] = written[n] /\ written[q] = written[m]
  BY <1>2 DEF Precedes
<1>4. p = n /\ q = m
  <2>1. \A a, b \in 1 .. Len(written) : a < b => written[a] # written[b]
    BY DEF LineInv
  <2>2. ~(p < n) /\ ~(n < p) /\ ~(q < m) /\ ~(m < q)
    BY <1>3, <2>1
  <2> QED BY <2>2
<1> QED BY <1>3, <1>4

LEMMA KeepInvInit == Init => KeepInv
<1> SUFFICES ASSUME Init PROVE KeepInv
  OBVIOUS
<1>1. Len(written) = 0
  BY EmptySeq DEF Init
<1> QED BY <1>1 DEF KeepInv, Newest, NoGap

LEMMA KeepInvSame ==
    ASSUME LogTypeOK, KeepInv, UNCHANGED <<maxFiles, written, other>>, ~stuck' => ~stuck,
           \A x : Has(disk, x) => Has(disk', x),
           ~stuck' => \A x : Has(disk', x) => Has(disk, x)
    PROVE  KeepInv'
<1>1. Surely' = Surely
  BY DEF Surely
<1>2. Newest(disk, written, Surely) => Newest(disk', written, Surely)
  BY DEF Newest
<1>3. ~stuck' /\ NoGap(disk, written) => NoGap(disk', written)
  BY DEF NoGap
<1> QED BY <1>1, <1>2, <1>3 DEF KeepInv

LEMMA KeepInvStep ==
    ASSUME LogInv, LogInv', LineInv, PlaceInv, OrderInv, RollInv, EndInv, KeepInv, [LogNext]_logVars
    PROVE  KeepInv'
<1> USE DEF appender, statement, history, rest, Goto
<1>0. /\ LogTypeOK /\ LogTypeOK' /\ disk \in Disks /\ disk' \in Disks
      /\ 0 \in Numbers /\ Numbers \subseteq Nat /\ Len(written) \in Nat /\ maxFiles \in Nat
  BY DiskTypes, NextDiskTypes, FileNumberTypes, LineTypes, FileNumbers DEF LogInv, LogTypeOK
<1>1. CASE UNCHANGED <<maxFiles, disk, written, stuck, other>>
  BY <1>0, <1>1, KeepInvSame
<1>2. CASE OtherOpens
  <2>1. disk[0] \in Seq(Unit)
    BY <1>0, <1>2 DEF OtherOpens, Exists, Disks
  <2>2. other' # NoFile
    BY <1>2, <2>1, LenProperties DEF OtherOpens, NoFile
  <2> QED BY <2>2 DEF KeepInv
<1>3. CASE OtherWrites
  <2>1. other \in Nat /\ other' = other + 1
    BY <1>3 DEF OtherWrites, LogInv, FileInv
  <2> QED BY <2>1 DEF KeepInv, NoFile
<1>4. ASSUME NEW t \in Threads, UnlinkLast(t) PROVE KeepInv'
  <2>1. /\ maxFiles - 1 \in Numbers /\ maxFiles > 0 /\ other = NoFile
        /\ disk' = disk \/ disk' = [disk EXCEPT ![maxFiles - 1] = Missing]
    BY <1>4, UnlinkDisk
  <2>2. /\ at[t] = "unlinking" /\ UNCHANGED <<maxFiles, written, other>>
        /\ ~stuck' => ~stuck
    BY <1>4 DEF UnlinkLast
  <2>3. CASE disk' = disk
    BY <1>0, <2>2, <2>3, KeepInvSame
  <2>4. CASE disk' = [disk EXCEPT ![maxFiles - 1] = Missing]
    <3>1. \A k \in Numbers : k # maxFiles - 1 => disk'[k] = disk[k] /\ Places(disk', k) = Places(disk, k)
      BY <1>0, <2>1, <2>4 DEF Disks, Places
    <3>2. \A k \in Numbers : k # maxFiles - 1 => \A i \in Places(disk, k) : Has(disk', disk[k][i])
      BY <3>1 DEF Has
    <3>3. disk[0] # Missing /\ Len(disk[0]) > MaxFileSize
      BY <2>2 DEF RollInv
    <3>4. ASSUME NEW n \in 1 .. Len(written), n > Len(written) - Surely
          PROVE  Has(disk', written[n])
      <4>1. PICK i \in Places(disk, 0) : disk[0][i] = written[n]
        BY <2>1, <3>3, <3>4, FullFileHasNewest
      <4>2. 0 # maxFiles - 1
        <5>1. maxFiles # 1
          BY <1>0, <3>4 DEF Surely
        <5> QED BY <1>0, <5>1
      <4> QED BY <1>0, <3>2, <4>1, <4>2
    <3>5. ASSUME ~stuck, NEW m \in 1 .. Len(written), NEW n \in 1 .. Len(written), m < n,
                 Has(disk', written[m])
          PROVE  Has(disk', written[n])
      <4>1. PICK k \in Numbers : \E i \in Places(disk', k) : disk'[k][i] = written[m]
        BY <3>5 DEF Has
      <4>2. k # maxFiles - 1
        BY <1>0, <2>1, <2>4, <4>1 DEF Places, Disks
      <4>3. PICK i \in Places(disk, k) : disk[k][i] = written[m]
        BY <3>1, <4>1, <4>2
      <4>4. Has(disk, written[m])
        BY <4>1, <4>3 DEF Has
      <4>5. Has(disk, written[n])
        BY <2>1, <3>5, <4>4 DEF KeepInv, NoGap
      <4>6. PICK l \in Numbers : \E j \in Places(disk, l) : disk[l][j] = written[n]
        BY <4>5 DEF Has
      <4>7. PICK j \in Places(disk, l) : disk[l][j] = written[n]
        BY <4>6
      <4>8. k >= l
        BY <1>0, <3>5, <4>1, <4>3, <4>6, <4>7, OlderBehind
      <4>9. disk[k] # Missing
        BY <4>3 DEF Places
      <4>10. ~(k >= 1 /\ k >= maxFiles)
        BY <4>1, <4>9 DEF PlaceInv
      <4>11. l # maxFiles - 1
        BY <1>0, <2>1, <4>1, <4>2, <4>6, <4>8, <4>10
      <4> QED BY <3>2, <4>6, <4>7, <4>11
    <3>6. Surely' = Surely
      BY <2>2 DEF Surely
    <3>7. Newest(disk', written, Surely)
      BY <3>4 DEF Newest
    <3>8. stuck' \/ NoGap(disk', written)
      BY <2>2, <3>5 DEF NoGap
    <3> QED BY <2>2, <3>6, <3>7, <3>8 DEF KeepInv
  <2> QED BY <2>1, <2>3, <2>4
<1>5. ASSUME NEW t \in Threads, RenameNext(t) PROVE KeepInv'
  <2>1. /\ fileNumber \in Numbers /\ fileNumber + 1 \in Numbers /\ other = NoFile
        /\ fileNumber \in 0 .. maxFiles - 2
        /\ \/ disk' = disk
           \/ disk[fileNumber] # Missing /\ disk' = Renamed(disk, fileNumber, fileNumber + 1)
    BY <1>5, RenameDisk
  <2>2. /\ at[t] = "renaming" /\ UNCHANGED <<maxFiles, written, other>>
        /\ ~stuck' => ~stuck
    BY <1>5 DEF RenameNext
  <2>3. CASE disk' = disk
    BY <1>0, <2>2, <2>3, KeepInvSame
  <2>4. CASE disk' = Renamed(disk, fileNumber, fileNumber + 1)
    <3>1. /\ \A x : Has(disk', x) => Has(disk, x)
          /\ disk[fileNumber + 1] = Missing => \A x : Has(disk, x) => Has(disk', x)
      BY <1>0, <2>1, <2>4, RenamingKeepsOrder DEF OrderInv
    <3>2. ~stuck => disk[fileNumber + 1] = Missing
      BY <2>2 DEF RollInv
    <3>3. CASE ~stuck
      BY <1>0, <2>2, <3>1, <3>2, <3>3, KeepInvSame
    <3>4. CASE stuck
      <4>1. stuck'
        BY <1>5, <3>4 DEF RenameNext
      <4>2. disk[0] # Missing /\ Len(disk[0]) > MaxFileSize /\ maxFiles > 0
        BY <1>0, <2>1, <2>2 DEF RollInv
      <4>3. \E k \in Numbers : Places(disk', k) = Places(disk, 0) /\ disk'[k] = disk[0]
        <5>1. /\ disk'[fileNumber + 1] = disk[fileNumber]
              /\ Places(disk', fileNumber + 1) = Places(disk, fileNumber)
              /\ \A l \in Numbers \ {fileNumber, fileNumber + 1} :
                    disk'[l] = disk[l] /\ Places(disk', l) = Places(disk, l)
          BY <1>0, <2>1, <2>4, RenameMoves
        <5>2. CASE fileNumber = 0
          BY <2>1, <5>1, <5>2
        <5>3. CASE fileNumber # 0
          BY <1>0, <2>1, <5>1, <5>3
        <5> QED BY <5>2, <5>3
      <4>4. ASSUME NEW n \in 1 .. Len(written), n > Len(written) - Surely
            PROVE  Has(disk', written[n])
        <5>1. PICK i \in Places(disk, 0) : disk[0][i] = written[n]
          BY <2>1, <4>2, <4>4, FullFileHasNewest
        <5> QED BY <4>3, <5>1 DEF Has
      <4>5. Surely' = Surely
        BY <2>2 DEF Surely
      <4>6. Newest(disk', written, Surely)
        BY <4>4 DEF Newest
      <4> QED BY <2>2, <4>1, <4>5, <4>6 DEF KeepInv
    <3> QED BY <3>3, <3>4
  <2> QED BY <2>1, <2>3, <2>4
<1>6. ASSUME NEW t \in Threads, OpenLogFile(t) PROVE KeepInv'
  <2>1. /\ UNCHANGED <<maxFiles, written, stuck, other>>
    BY <1>6 DEF OpenLogFile
  <2>2. OnlyLoses(disk, disk') /\ \A x : Has(disk, x) => Has(disk', x)
    BY <1>0, <1>6, OpenKeepsLines
  <2>3. \A x : Has(disk', x) => Has(disk, x)
    BY <2>2 DEF OnlyLoses, Has
  <2> QED BY <1>0, <2>1, <2>2, <2>3, KeepInvSame
<1>7. ASSUME NEW t \in Threads, WritePiece(t), other = NoFile PROVE KeepInv'
  <2>1. /\ disk' = Wrote(disk, file, Piece(t)) /\ disk[0] # Missing /\ file \in Nat
        /\ Piece(t) \in Pieces /\ Piece(t) \in Unit
        /\ written' = Append(written, Piece(t)) /\ written \in Seq(Pieces)
        /\ file = Len(disk[0])
    BY <1>7, WritePieceDisk DEF Alone
  <2>2. UNCHANGED <<maxFiles, stuck, other>> /\ at[t] = "writing"
    BY <1>7 DEF WritePiece
  <2>3. Puts(disk, disk', file, Spot(disk[0], file), Piece(t))
    BY <1>0, <2>1, WritePlaces
  <2>4. Has(disk', Piece(t))
    BY <1>0, <2>1, <2>3 DEF Puts, Has
  <2>5. ASSUME NEW x, Has(disk, x) PROVE Has(disk', x)
    <3>1. PICK k \in Numbers : \E i \in Places(disk, k) : disk[k][i] = x
      BY <2>5 DEF Has
    <3>2. PICK i \in Places(disk, k) : disk[k][i] = x
      BY <3>1
    <3>3. i \in Places(disk', k) /\ disk'[k][i] = x
      BY <2>1, <2>3, <3>1, <3>2 DEF Puts
    <3> QED BY <3>1, <3>3 DEF Has
  <2>6. ASSUME NEW x, Has(disk', x), x # Piece(t) PROVE Has(disk, x)
    <3>1. PICK k \in Numbers : \E i \in Places(disk', k) : disk'[k][i] = x
      BY <2>6 DEF Has
    <3>2. PICK i \in Places(disk', k) : disk'[k][i] = x
      BY <3>1
    <3>3. i \in Places(disk, k) /\ disk[k][i] = x
      BY <2>1, <2>3, <2>6, <3>1, <3>2 DEF Puts
    <3> QED BY <3>1, <3>3 DEF Has
  <2>7. /\ Len(written') = Len(written) + 1 /\ written'[Len(written')] = Piece(t)
        /\ \A n \in 1 .. Len(written) : n < Len(written') /\ written'[n] = written[n]
    BY <2>1, AppendedLast
  <2>8. Newest(disk, written, Surely) /\ (stuck \/ NoGap(disk, written))
    BY <1>7 DEF KeepInv
  <2>9. ASSUME NEW n \in 1 .. Len(written'), n > Len(written') - Surely'
        PROVE  Has(disk', written'[n])
    <3>1. CASE n = Len(written')
      BY <2>4, <2>7, <3>1
    <3>2. CASE n # Len(written')
      <4>1. n \in 1 .. Len(written) /\ written'[n] = written[n]
        BY <1>0, <2>7, <3>2
      <4>2. Surely' <= Surely + 1 /\ Surely' \in Nat /\ Surely \in Nat
        <5>1. MaxFileSize \in Nat
          BY LogAssumption
        <5> QED BY <1>0, <2>2, <2>7, <5>1 DEF Surely
      <4>3. n > Len(written) - Surely
        BY <1>0, <2>7, <2>9, <4>1, <4>2
      <4> QED BY <2>5, <2>8, <4>1, <4>3 DEF Newest
    <3> QED BY <3>1, <3>2
  <2>10. ASSUME ~stuck, NEW m \in 1 .. Len(written'), NEW n \in 1 .. Len(written'), m < n,
                Has(disk', written'[m])
         PROVE  Has(disk', written'[n])
    <3>1. CASE n = Len(written')
      BY <2>4, <2>7, <3>1
    <3>2. CASE n # Len(written')
      <4>1. m \in 1 .. Len(written) /\ n \in 1 .. Len(written) /\ written'[m] = written[m] /\ written'[n] = written[n]
        BY <1>0, <2>7, <2>10, <3>2
      <4>2. written[m] # Piece(t)
        BY <1>0, <4>1, WritesNewPiece
      <4>3. Has(disk, written[m])
        BY <2>6, <2>10, <4>1, <4>2
      <4>4. Has(disk, written[n])
        BY <2>8, <2>10, <4>1, <4>3 DEF NoGap
      <4> QED BY <2>5, <4>1, <4>4
    <3> QED BY <3>1, <3>2
  <2>11. Newest(disk', written', Surely')
    BY <2>9 DEF Newest
  <2>12. stuck' \/ NoGap(disk', written')
    BY <2>2, <2>10 DEF NoGap
  <2> QED BY <2>11, <2>12 DEF KeepInv
<1>8. ASSUME NEW t \in Threads,
             \/ Log(t) \/ BeginWrite(t) \/ OpenFails(t) \/ EndWrite(t) \/ WriteConsole(t)
      PROVE  KeepInv'
  BY <1>1, <1>8 DEF Log, BeginWrite, OpenFails, EndWrite, WriteConsole
<1>9. CASE InitLogger \/ Kill
  BY <1>1, <1>9 DEF InitLogger, Kill
<1>10. ASSUME NEW t \in Threads, WritePiece(t), other # NoFile PROVE KeepInv'
  BY <1>10 DEF WritePiece, KeepInv
<1> QED BY <1>1, <1>2, <1>3, <1>4, <1>5, <1>6, <1>7, <1>8, <1>9, <1>10
    DEF LogNext, Thread, logVars

-----------------------------------------------------------------------------
LogKeptInv ==
    LogInv /\ LineInv /\ PlaceInv /\ OrderInv /\ RollInv /\ EndInv /\ KeepInv

LEMMA LogKeptInvCorrect == LogSpec => []LogKeptInv
<1>1. Init => LogKeptInv
  BY LogInvInit, LineInvInit, PlaceOrderInit, RollInvInit, EndInvInit, KeepInvInit DEF LogKeptInv
<1>2. LogKeptInv /\ [LogNext]_logVars => LogKeptInv'
  <2> SUFFICES ASSUME LogKeptInv, [LogNext]_logVars PROVE LogKeptInv'
    OBVIOUS
  <2> USE DEF LogKeptInv
  <2>1. LogInv'
    BY LogInvStep
  <2>2. LineInv'
    BY LineInvStep
  <2>3. PlaceInv' /\ OrderInv'
    BY <2>1, PlaceOrderStep
  <2>4. RollInv'
    BY RollInvStep
  <2>5. EndInv'
    BY <2>1, EndInvStep
  <2>6. KeepInv'
    BY <2>1, KeepInvStep
  <2> QED BY <2>1, <2>2, <2>3, <2>4, <2>5, <2>6
<1> QED BY <1>1, <1>2, PTL DEF LogSpec

(* The places where the property sees pieces are those of the proof.       *)
LEMMA LinesArePlaces ==
    ASSUME LogTypeOK
    PROVE  /\ \A k \in Numbers : PiecesOf(k) = Places(disk, k)
           /\ DOMAIN written = 1 .. Len(written) /\ DOMAIN console = 1 .. Len(console)
<1>1. DOMAIN written = 1 .. Len(written) /\ DOMAIN console = 1 .. Len(console)
  BY LenProperties DEF LogTypeOK
<1>2. ASSUME NEW k \in Numbers PROVE PiecesOf(k) = Places(disk, k)
  <2>1. CASE disk[k] = Missing
    <3>1. DOMAIN Contents(k) = {}
      BY <2>1 DEF Contents, Exists
    <3> QED BY <2>1, <3>1 DEF PiecesOf, Places
  <2>2. CASE disk[k] # Missing
    <3>1. Contents(k) = disk[k] /\ disk[k] \in Seq(Unit)
      BY <2>2, DiskTypes DEF Contents, Exists, Disks
    <3>2. DOMAIN Contents(k) = 1 .. Len(disk[k])
      BY <3>1, LenProperties
    <3> QED BY <2>2, <3>2 DEF PiecesOf, Places
  <2> QED BY <2>1, <2>2
<1> QED BY <1>1, <1>2

(* The files show what was written, each piece of a line once and in the   *)
(* order in which they were written, and the console each thread's lines in*)
(* the order it logged them, whatever calls fail and whenever the process  *)
(* is killed.  Where a second process writes the same file, pieces of a    *)
(* line may be overwritten; those that remain are in order                 *)
(* (RollingFileAppender.h:28-106, Util.h:271).                             *)
THEOREM LinesInOrderCorrect == LogSpec => []LinesInOrder
<1>1. ASSUME LogKeptInv PROVE LinesInOrder
  <2>1. LogTypeOK /\ LineInv /\ OnlyWritten(disk, written) /\ Ordered(disk, written)
    BY <1>1 DEF LogKeptInv, LogInv, OrderInv
  <2>2. /\ \A k \in Numbers : PiecesOf(k) = Places(disk, k)
        /\ DOMAIN written = 1 .. Len(written) /\ DOMAIN console = 1 .. Len(console)
    BY <2>1, LinesArePlaces
  <2>3. \A k \in Numbers : \A i \in PiecesOf(k) : disk[k][i] \in ToSet(written)
    BY <2>1, <2>2 DEF OnlyWritten, ToSet
  <2>4. \A k, l \in Numbers : \A i \in PiecesOf(k), j \in PiecesOf(l) :
            k > l \/ (k = l /\ i < j) => WrittenBefore(disk[k][i], disk[l][j])
    BY <2>1, <2>2 DEF Ordered, Precedes, WrittenBefore
  <2>5. \A i, j \in DOMAIN console :
            i < j /\ console[i].by = console[j].by => console[i].no < console[j].no
    BY <2>1, <2>2 DEF LineInv
  <2> QED BY <2>3, <2>4, <2>5 DEF LinesInOrder
<1> QED BY <1>1, LogKeptInvCorrect, PTL

(* As long as no second process opened the file: everything stays on disk  *)
(* if the files are not rolled, and if there are two of them or more, as   *)
(* much of the newest as fills a file stays when they are rolled.  Nothing *)
(* is missing in between unless a file could not be removed or renamed.  Of*)
(* a single file only this last part is said: a roll removes all of it     *)
(* (RollingFileAppender.h:55-72).                                          *)
THEOREM NewestLinesAreKeptCorrect == LogSpec => []NewestLinesAreKept
<1>1. ASSUME LogKeptInv, Alone
      PROVE  /\ \A i \in DOMAIN written : i > Len(written) - Surely => OnDisk(written[i])
             /\ stuck \/ \A i, j \in DOMAIN written : i < j /\ OnDisk(written[i]) => OnDisk(written[j])
  <2>1. LogTypeOK /\ Newest(disk, written, Surely) /\ (stuck \/ NoGap(disk, written))
    BY <1>1 DEF LogKeptInv, LogInv, KeepInv, Alone
  <2>2. /\ \A k \in Numbers : PiecesOf(k) = Places(disk, k)
        /\ DOMAIN written = 1 .. Len(written)
    BY <2>1, LinesArePlaces
  <2>3. \A x : OnDisk(x) <=> Has(disk, x)
    BY <2>2 DEF OnDisk, Has
  <2> QED BY <2>1, <2>2, <2>3 DEF Newest, NoGap
<1>2. LogKeptInv => NewestLinesAreKept
  BY <1>1 DEF NewestLinesAreKept
<1> QED BY <1>2, LogKeptInvCorrect, PTL

=============================================================================
