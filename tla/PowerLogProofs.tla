--------------------------- MODULE PowerLogProofs ---------------------------
(***************************************************************************)
(* What holds of powerd's log for every number of rows, size of the files, *)
(* failing call and death.  A file is taken apart in its three places: the *)
(* rows of log.csv.1, those of log.csv, and those that a flush under way   *)
(* has not brought there yet (Unwritten).  How often a row occurs is summed*)
(* over them, and their order is that of their concatenation.              *)
(***************************************************************************)
EXTENDS PowerLog, SequenceTheorems, FiniteSetTheorems, TLAPS

\* The rows made so far, and a torn one.
Lines == 0 .. made

\* Complete rows, each younger than the one before.
Sorted(f) == \A i, j \in DOMAIN f : i < j => f[i] < f[j]
Clean(f) == Torn \notin ToSet(f) /\ Sorted(f)
\* Everything in f is older than everything in h.
Before(f, h) == \A i \in DOMAIN f, j \in DOMAIN h : f[i] < h[j]

Procs(m) == [who : {"none", "powerd", "tool"},
             pc : {"start", "idle", "read", "write", "sync", "replace", "poweroff"},
             then : {"run", "poweroff", "exit"}, durable : BOOLEAN, failed : BOOLEAN,
             buf : Seq(0 .. m), off : Nat, checked : BOOLEAN, due : BOOLEAN, shut : BOOLEAN,
             logFailed : BOOLEAN, pendFailed : BOOLEAN]

Heads == {"none", "ours", "other"}

\* Types, as far as the steps need them.
Typed ==
    /\ pend \in Seq(Lines) /\ Len(pend) <= PendingMax
    /\ log \in [head : Heads, rows : Seq(Lines)] /\ Len(log.rows) <= LogMax
    /\ log.head # "ours" => log.rows = <<>>
    /\ old \in Seq(Lines) /\ Len(old) <= LogMax
    /\ safe \in SUBSET (1 .. made) /\ gone \in SUBSET (1 .. made)
    /\ p \in Procs(made)
    /\ sys \in {"up", "stopping", "off"} /\ left \in BOOLEAN
    /\ made \in 0 .. MaxRows /\ cuts \in Nat /\ faults \in Nat /\ kills \in Nat

\* The batch that a flush works on is what log.pending holds; what is left of it is known.
Batching == p.pc \in {"write", "sync", "replace"}
BatchIsPending ==
    /\ Batching => p.buf = Whole(pend) /\ p.off <= Len(p.buf)
    /\ ~Batching => p.buf = <<>> /\ p.off = 0
    /\ p.pc = "write" => p.off < Len(p.buf)
    /\ p.pc = "sync" \/ (p.pc = "replace" /\ ~p.failed) => p.off = Len(p.buf)
    /\ \A i \in 1 .. p.off : p.buf[i] \in Logged \cup gone

\* A pending file that this process has checked is not torn; the shutdown command runs with
\* nothing pending unless the flush failed; and with no process nothing is under way.
ProcessOk ==
    /\ p.checked => pend = Whole(pend)
    /\ p.pc = "poweroff" /\ ~p.logFailed => pend = <<>>
    /\ p.who = "none" => p = Nobody
    /\ sys = "off" => p.who = "none"

\* How often a row is in the three places: log.csv.1 (o), log.csv (l), unwritten (u).
Occurs(r, o, l, u) == Times(r, o) + Times(r, l) + Times(r, u)
\* With c cuts and m rows made: each row once and once more for each cut, and no cut, no
\* disorder.
Repeated(o, l, u, c, m) ==
    /\ \A r \in 1 .. m : Occurs(r, o, l, u) <= 1 + c
    /\ Occurs(Torn, o, l, u) <= c
    /\ c = 0 => Sorted(o) /\ Sorted(l) /\ Before(o, l) /\ Before(o, u) /\ Before(l, u)

\* The three files together.
FilesOk ==
    /\ Clean(Whole(pend)) /\ Accounted
    /\ Repeated(old, log.rows, Unwritten, cuts, made)

IInv == Typed /\ BatchIsPending /\ ProcessOk /\ FilesOk /\ StopKeepsRows

-----------------------------------------------------------------------------
(* Files.                                                                   *)

\* A file without its torn end.
LEMMA WholeIs ==
    ASSUME NEW S, NEW f \in Seq(S)
    PROVE  /\ Whole(f) \in Seq(S) /\ Len(Whole(f)) <= Len(f)
           /\ \A i \in 1 .. Len(Whole(f)) : Whole(f)[i] = f[i]
           /\ Whole(f) = f \/ (Len(Whole(f)) = Len(f) - 1 /\ f # <<>> /\ f[Len(f)] = Torn)
<1>1. CASE f # <<>> /\ Last(f) = Torn
  <2>1. Whole(f) = SubSeq(f, 1, Len(f) - 1) /\ Len(f) \in Nat \ {0} /\ f[Len(f)] = Torn
    BY <1>1, EmptySeq DEF Whole, Front, Last
  <2>2. \A i \in 1 .. Len(f) - 1 : f[i] \in S
    BY ElementOfSeq
  <2> DEFINE h == SubSeq(f, 1, Len(f) - 1)
  <2>3. /\ h \in Seq(S) /\ Len(h) = (IF 1 <= Len(f) - 1 THEN Len(f) - 1 - 1 + 1 ELSE 0)
        /\ \A i \in 1 .. Len(f) - 1 - 1 + 1 : h[i] = f[1 + i - 1]
    BY <2>1, <2>2, SubSeqProperties
  <2> HIDE DEF h
  <2>4. Len(h) = Len(f) - 1
    <3>1. Len(f) \in Nat \ {0}
      BY <2>1
    <3>2. /\ 1 <= Len(f) - 1 => Len(h) = Len(f) - 1 - 1 + 1
          /\ ~(1 <= Len(f) - 1) => Len(h) = 0
      BY <2>3, ZenonT(30)
    <3> QED
      BY <3>1, <3>2
  <2>5. ASSUME NEW i \in 1 .. Len(f) - 1
        PROVE  h[i] = f[i]
    <3>1. i \in 1 .. Len(f) - 1 - 1 + 1 /\ 1 + i - 1 = i
      BY <2>1
    <3> QED
      BY <2>3, <3>1
  <2> QED
    BY <1>1, <2>1, <2>3, <2>4, <2>5 DEF h
<1>2. CASE ~(f # <<>> /\ Last(f) = Torn)
  BY <1>2, LenProperties DEF Whole
<1> QED
  BY <1>1, <1>2

\* A file that holds no torn row has no torn end.
LEMMA CleanIsWhole ==
    ASSUME NEW S, NEW f \in Seq(S), Torn \notin ToSet(f)
    PROVE  Whole(f) = f
<1>1. f # <<>> => Len(f) \in DOMAIN f
  BY EmptySeq, LenProperties
<1>2. f # <<>> => f[Len(f)] # Torn
  BY <1>1 DEF ToSet
<1> QED
  BY <1>2 DEF Whole, Last

\* A row cut short is cut off again.
LEMMA TornEnd ==
    ASSUME NEW S, NEW f \in Seq(S), Torn \in S
    PROVE  Whole(Append(f, Torn)) = f
<1> DEFINE h == Append(f, Torn)
<1>1. /\ h \in Seq(S) /\ h # <<>> /\ Len(h) = Len(f) + 1 /\ h[Len(f) + 1] = Torn
      /\ \A i \in 1 .. Len(f) : h[i] = f[i]
  BY AppendProperties
<1>2. Len(f) \in Nat
  BY LenProperties
<1> HIDE DEF h
<1>3. Whole(h) = SubSeq(h, 1, Len(f))
  BY <1>1, <1>2 DEF Whole, Last, Front
<1>4. \A i \in 1 .. Len(f) : h[i] \in S
  BY <1>1, ElementOfSeq
<1>5. /\ SubSeq(h, 1, Len(f)) \in Seq(S) /\ Len(SubSeq(h, 1, Len(f))) = Len(f)
      /\ \A i \in 1 .. Len(f) : SubSeq(h, 1, Len(f))[i] = h[i]
  BY <1>2, <1>4, SubSeqProperties
<1> QED
  BY <1>1, <1>3, <1>5, SeqEqual DEF h

\* A part of a file in its own right.
LEMMA PartIs ==
    ASSUME NEW S, NEW f \in Seq(S), NEW m \in Nat, NEW n \in Nat, n <= Len(f)
    PROVE  LET h == SubSeq(f, m + 1, n)
           IN  /\ h \in Seq(S) /\ Len(h) = IF m <= n THEN n - m ELSE 0
               /\ \A i \in 1 .. n - m : h[i] = f[m + i]
               /\ DOMAIN h = 1 .. Len(h)
<1>1. \A i \in m + 1 .. n : f[i] \in S
  BY ElementOfSeq, LenProperties
<1>2. LET h == SubSeq(f, m + 1, n)
      IN  /\ h \in Seq(S) /\ Len(h) = IF m + 1 <= n THEN n - (m + 1) + 1 ELSE 0
          /\ \A i \in 1 .. n - (m + 1) + 1 : h[i] = f[(m + 1) + i - 1]
  BY <1>1, SubSeqProperties
<1> QED
  BY <1>2, LenProperties

\* A part of a clean file is clean.
LEMMA PartIsClean ==
    ASSUME NEW S, NEW f \in Seq(S), NEW m \in Nat, NEW n \in Nat, n <= Len(f), Clean(f)
    PROVE  LET h == SubSeq(f, m + 1, n)
           IN  Clean(h) /\ ToSet(h) \subseteq ToSet(f)
<1> DEFINE h == SubSeq(f, m + 1, n)
<1>1. /\ h \in Seq(S) /\ Len(h) = IF m <= n THEN n - m ELSE 0
      /\ \A i \in 1 .. n - m : h[i] = f[m + i]
      /\ DOMAIN h = 1 .. Len(h)
  BY PartIs
<1> HIDE DEF h
<1>2. \A i \in DOMAIN h : m + i \in DOMAIN f /\ h[i] = f[m + i]
  BY <1>1, LenProperties
<1>3. ToSet(h) \subseteq ToSet(f)
  BY <1>2 DEF ToSet
<1>4. Sorted(h)
  <2> SUFFICES ASSUME NEW i \in DOMAIN h, NEW j \in DOMAIN h, i < j
               PROVE  h[i] < h[j]
    BY DEF Sorted
  <2>1. m + i < m + j
    BY <1>1
  <2> QED
    BY <1>2, <2>1 DEF Clean, Sorted
<1> QED
  BY <1>3, <1>4 DEF Clean, h

\* A younger row behind a clean file.
LEMMA RowBehind ==
    ASSUME NEW S \in SUBSET Nat, NEW f \in Seq(S), Clean(f), NEW r \in S, r # Torn,
           \A i \in DOMAIN f : f[i] < r
    PROVE  LET h == Append(f, r)
           IN  Clean(h) /\ ToSet(h) = ToSet(f) \cup {r}
<1> DEFINE h == Append(f, r)
<1>1. /\ h \in Seq(S) /\ Len(h) = Len(f) + 1 /\ h[Len(f) + 1] = r
      /\ \A i \in 1 .. Len(f) : h[i] = f[i]
  BY AppendProperties
<1>2. DOMAIN h = 1 .. Len(f) + 1 /\ DOMAIN f = 1 .. Len(f) /\ Len(f) \in Nat
  BY <1>1, LenProperties
<1> HIDE DEF h
<1>3. ToSet(h) = ToSet(f) \cup {r}
  BY <1>1, <1>2 DEF ToSet
<1>4. Sorted(h)
  <2> SUFFICES ASSUME NEW i \in DOMAIN h, NEW j \in DOMAIN h, i < j
               PROVE  h[i] < h[j]
    BY DEF Sorted
  <2>1. i \in 1 .. Len(f) /\ h[i] = f[i]
    BY <1>1, <1>2
  <2>2. CASE j = Len(f) + 1
    BY <1>1, <1>2, <2>1, <2>2
  <2>3. CASE j \in 1 .. Len(f)
    BY <1>1, <1>2, <2>1, <2>3 DEF Clean, Sorted
  <2> QED
    BY <1>2, <2>2, <2>3
<1> QED
  BY <1>3, <1>4 DEF Clean, h

\* All of a clean file can be read, but for its torn end.
LEMMA ReadableIs ==
    ASSUME NEW S, NEW f \in Seq(S), Clean(Whole(f))
    PROVE  Readable(f) = ToSet(Whole(f))
<1> DEFINE h == Whole(f)
<1>1. /\ h \in Seq(S) /\ Len(h) <= Len(f) /\ \A i \in 1 .. Len(h) : h[i] = f[i]
      /\ h = f \/ (Len(h) = Len(f) - 1 /\ f[Len(f)] = Torn)
  BY WholeIs
<1>2. DOMAIN h = 1 .. Len(h) /\ DOMAIN f = 1 .. Len(f) /\ Len(f) \in Nat /\ Len(h) \in Nat
  BY <1>1, LenProperties
<1>3. \A i \in 1 .. Len(h) : h[i] # Torn
  BY <1>2 DEF Clean, ToSet
<1> HIDE DEF h
<1>4. {j \in DOMAIN f : f[j] # Torn /\ (j > 1 => f[j - 1] # Torn)} = 1 .. Len(h)
  <2>1. ASSUME NEW j \in 1 .. Len(h)
        PROVE  j \in DOMAIN f /\ f[j] # Torn /\ (j > 1 => f[j - 1] # Torn)
    <3>3. j \in DOMAIN f
      <4>1. h \in Seq(S) /\ Len(h) <= Len(f)
        BY <1>1
      <4> QED
        BY <1>2, <4>1
    <3>4. h[j] # Torn /\ h[j] = f[j]
      BY <1>1, <1>3
    <3>1. j \in DOMAIN f /\ f[j] # Torn
      BY <3>3, <3>4
    <3>2. ASSUME j > 1 PROVE f[j - 1] # Torn
      <4>1. j - 1 \in 1 .. Len(h)
        BY <1>2, <3>2
      <4> QED
        BY <1>1, <1>3, <4>1
    <3> QED
      BY <3>1, <3>2
  <2>2. ASSUME NEW j \in DOMAIN f, f[j] # Torn PROVE j \in 1 .. Len(h)
    <3>1. CASE h = f
      BY <1>2, <3>1
    <3>2. CASE Len(h) = Len(f) - 1 /\ f[Len(f)] = Torn
      <4>1. j # Len(f)
        BY <2>2, <3>2
      <4> QED
        BY <1>2, <3>2, <4>1
    <3> QED
      BY <1>1, <3>1, <3>2
  <2> QED
    BY <2>1, <2>2
<1>5. Readable(f) = {f[i] : i \in 1 .. Len(h)}
  BY <1>4 DEF Readable
<1> QED
  BY <1>1, <1>2, <1>5 DEF ToSet, h

\* What can be read is in the file and is no torn row.
LEMMA ReadableIsIn ==
    ASSUME NEW S, NEW f \in Seq(S)
    PROVE  Readable(f) \subseteq S \ {Torn}
BY ElementOfSeq, LenProperties DEF Readable

\* Rows written behind a file.  What could be read still can, and so can the rows, unless the
\* first runs into a torn one.
LEMMA ReadableBehind ==
    ASSUME NEW S, NEW f \in Seq(S), NEW h \in Seq(S)
    PROVE  /\ Readable(f) \subseteq Readable(f \o h)
           /\ Clean(h) => ToSet(h) \subseteq Readable(f \o h) \cup Glued(f, h)
<1> DEFINE all == f \o h
<1>1. /\ all \in Seq(S) /\ Len(all) = Len(f) + Len(h)
      /\ \A i \in 1 .. Len(f) + Len(h) : all[i] = IF i <= Len(f) THEN f[i] ELSE h[i - Len(f)]
  BY ConcatProperties
<1>2. /\ DOMAIN all = 1 .. Len(f) + Len(h) /\ DOMAIN f = 1 .. Len(f) /\ DOMAIN h = 1 .. Len(h)
      /\ Len(f) \in Nat /\ Len(h) \in Nat
  BY <1>1, LenProperties
<1> HIDE DEF all
<1>3. ASSUME NEW j \in DOMAIN all, all[j] # Torn, j > 1 => all[j - 1] # Torn
      PROVE  all[j] \in Readable(all)
  BY <1>3 DEF Readable
<1>4. Readable(f) \subseteq Readable(all)
  <2> SUFFICES ASSUME NEW j \in DOMAIN f, f[j] # Torn, j > 1 => f[j - 1] # Torn
               PROVE  f[j] \in Readable(all)
    BY DEF Readable
  <2>1. j \in DOMAIN all /\ all[j] = f[j] /\ (j > 1 => all[j - 1] = f[j - 1])
    BY <1>1, <1>2
  <2> QED
    BY <1>3, <2>1
<1>5. ASSUME Clean(h), NEW i \in DOMAIN h
      PROVE  h[i] \in Readable(all) \cup Glued(f, h)
  <2>1. /\ Len(f) + i \in DOMAIN all /\ all[Len(f) + i] = h[i] /\ h[i] # Torn
        /\ i > 1 => all[Len(f) + i - 1] = h[i - 1] /\ h[i - 1] # Torn
    BY <1>1, <1>2, <1>5 DEF Clean, ToSet
  <2>2. CASE i > 1
    BY <1>2, <1>3, <2>1, <2>2
  <2>3. CASE i = 1 /\ f = Whole(f)
    <3>1. Len(f) > 0 => f[Len(f)] # Torn
      <4>1. ASSUME Len(f) > 0, f[Len(f)] = Torn
            PROVE  FALSE
        <5>1. f # <<>>
          BY <4>1, EmptySeq
        <5>2. Whole(f) = SubSeq(f, 1, Len(f) - 1)
          BY <4>1, <5>1 DEF Whole, Last, Front
        <5>3. Len(Whole(f)) = Len(f) - 1
          BY <4>1, <5>1, <5>2, PartIs, <1>2, \A x \in Nat : x > 0 => x - 1 \in Nat
        <5> QED
          BY <1>2, <2>3, <5>3
      <4> QED
        BY <4>1
    <3>2. Len(f) + i > 1 => all[Len(f) + i - 1] # Torn
      BY <1>1, <1>2, <2>3, <3>1
    <3> QED
      BY <1>3, <2>1, <3>2
  <2>4. CASE i = 1 /\ f # Whole(f)
    BY <1>2, <2>4 DEF Glued
  <2> QED
    BY <1>2, <2>2, <2>3, <2>4
<1> QED
  BY <1>4, <1>5 DEF ToSet, all

-----------------------------------------------------------------------------
(* Counting.                                                                *)

\* A count is a number, 0 in an empty file.
LEMMA TimesIsNat ==
    ASSUME NEW S, NEW f \in Seq(S), NEW r
    PROVE  Times(r, f) \in Nat /\ IsFiniteSet({i \in DOMAIN f : f[i] = r}) /\ (f = <<>> => Times(r, f) = 0)
<1> DEFINE at == {i \in DOMAIN f : f[i] = r}
<1>1. DOMAIN f = 1 .. Len(f) /\ Len(f) \in Nat
  BY LenProperties
<1>2. IsFiniteSet(1 .. Len(f))
  BY <1>1, FS_Interval
<1>3. at \subseteq 1 .. Len(f)
  BY <1>1
<1>4. f = <<>> => at = {}
  BY EmptySeq, <1>1
<1> HIDE DEF at
<1>5. IsFiniteSet(at)
  BY <1>2, <1>3, FS_Subset
<1>6. Cardinality(at) \in Nat /\ (at = {} => Cardinality(at) = 0)
  BY <1>5, FS_CardinalityType, FS_EmptySet
<1> QED
  BY <1>4, <1>5, <1>6 DEF at, Times

\* The rows of two files together.
LEMMA TimesOfBoth ==
    ASSUME NEW S, NEW f \in Seq(S), NEW h \in Seq(S), NEW r
    PROVE  Times(r, f \o h) = Times(r, f) + Times(r, h)
<1> DEFINE all == f \o h
<1> DEFINE A == {i \in DOMAIN f : f[i] = r}
<1> DEFINE B == {i \in DOMAIN h : h[i] = r}
<1> DEFINE C == {Len(f) + i : i \in B}
<1> DEFINE D == {i \in DOMAIN all : all[i] = r}
<1> DEFINE shift == [i \in B |-> Len(f) + i]
<1>1. /\ all \in Seq(S) /\ Len(all) = Len(f) + Len(h)
      /\ \A i \in 1 .. Len(f) + Len(h) : all[i] = IF i <= Len(f) THEN f[i] ELSE h[i - Len(f)]
  BY ConcatProperties
<1>2. /\ DOMAIN all = 1 .. Len(f) + Len(h) /\ DOMAIN f = 1 .. Len(f) /\ DOMAIN h = 1 .. Len(h)
      /\ Len(f) \in Nat /\ Len(h) \in Nat
  BY <1>1, LenProperties
<1>3. IsFiniteSet(A) /\ IsFiniteSet(B) /\ Cardinality(A) \in Nat /\ Cardinality(B) \in Nat
  BY TimesIsNat, FS_CardinalityType
<1> HIDE DEF all
<1>4. A \cap C = {}
  BY <1>2
<1>5. D = A \cup C
  <2>1. ASSUME NEW i \in D PROVE i \in A \cup C
    <3>1. CASE i <= Len(f)
      BY <1>1, <1>2, <2>1, <3>1
    <3>2. CASE ~(i <= Len(f))
      <4>1. i - Len(f) \in B /\ i = Len(f) + (i - Len(f))
        BY <1>1, <1>2, <2>1, <3>2
      <4> QED
        BY <4>1
    <3> QED
      BY <3>1, <3>2
  <2>2. ASSUME NEW i \in A PROVE i \in D
    BY <1>1, <1>2, <2>2
  <2>3. ASSUME NEW i \in C PROVE i \in D
    <3>1. PICK k \in B : i = Len(f) + k
      BY <2>3
    <3>2. k \in 1 .. Len(h) /\ h[k] = r
      BY <1>2
    <3>3. i \in 1 .. Len(f) + Len(h) /\ ~(i <= Len(f)) /\ i - Len(f) = k
      BY <1>2, <3>1, <3>2
    <3>4. all[i] = h[i - Len(f)]
      BY <1>1, <3>3
    <3> QED
      BY <1>2, <3>2, <3>3, <3>4
  <2> QED
    BY <2>1, <2>2, <2>3
<1>6. B \subseteq Nat
  BY <1>2
<1> HIDE DEF A, B, D
<1>7. shift \in Bijection(B, C)
  <2>1. shift \in [B -> C] /\ \A i \in B : shift[i] = Len(f) + i
    OBVIOUS
  <2>2. \A i, j \in B : shift[i] = shift[j] => i = j
    BY <1>2, <1>6, <2>1
  <2>3. \A c \in C : \E i \in B : shift[i] = c
    OBVIOUS
  <2> QED
    BY <2>1, <2>2, <2>3 DEF Bijection, Injection, Surjection, IsInjective
<1> HIDE DEF C, shift
<1>8. IsFiniteSet(C) /\ Cardinality(C) = Cardinality(B)
  BY <1>3, <1>7, FS_Bijection DEF ExistsBijection
<1>9. Cardinality(D) = Cardinality(A) + Cardinality(C) - Cardinality({})
  BY <1>3, <1>4, <1>5, <1>8, FS_Union
<1>10. Cardinality(D) = Cardinality(A) + Cardinality(B)
  BY <1>3, <1>8, <1>9, FS_EmptySet
<1> QED
  BY <1>10 DEF A, B, D, Times, all

\* A clean file holds each row once at most, and no torn one.
LEMMA TimesInClean ==
    ASSUME NEW S \in SUBSET Nat, NEW f \in Seq(S), Clean(f), NEW r
    PROVE  /\ Times(r, f) <= 1 /\ Times(Torn, f) = 0
           /\ r \notin ToSet(f) => Times(r, f) = 0
<1>1. ASSUME NEW x PROVE x \notin ToSet(f) => Times(x, f) = 0
  <2>1. x \notin ToSet(f) => {i \in DOMAIN f : f[i] = x} = {}
    BY DEF ToSet
  <2> QED
    BY <2>1, FS_EmptySet DEF Times
<1>2. Times(Torn, f) = 0
  BY <1>1 DEF Clean
<1>3. Times(r, f) <= 1
  <2> DEFINE at == {i \in DOMAIN f : f[i] = r}
  <2>1. DOMAIN f = 1 .. Len(f) /\ Len(f) \in Nat /\ \A i \in DOMAIN f : f[i] \in Nat
    BY LenProperties, ElementOfSeq
  <2>2. \A i, j \in at : i = j
    <3>1. ASSUME NEW i \in at, NEW j \in at, i < j PROVE FALSE
      <4>1. f[i] < f[j]
        BY <3>1 DEF Clean, Sorted
      <4> QED
        BY <2>1, <4>1
    <3>2. ASSUME NEW i \in at, NEW j \in at PROVE i = j
      <4>1. i \in Nat /\ j \in Nat
        BY <2>1
      <4>2. ~(i < j)
        BY <3>1
      <4>3. ~(j < i)
        BY <3>1
      <4> HIDE DEF at
      <4> QED
        BY <4>1, <4>2, <4>3
    <3> QED
      BY <3>2
  <2>5. Times(r, f) = Cardinality(at)
    BY DEF Times
  <2> HIDE DEF at
  <2>3. CASE at = {}
    BY <2>3, <2>5, FS_EmptySet
  <2>4. CASE at # {}
    <3>1. PICK i : i \in at
      BY <2>4
    <3>2. at = {i}
      BY <2>2, <3>1
    <3>3. Cardinality(at) = 1
      BY <3>2, FS_Singleton
    <3> QED
      BY <2>5, <3>3
  <2> QED
    BY <2>3, <2>4
<1> QED
  BY <1>1, <1>2, <1>3

\* One row behind a file.
LEMMA TimesBehind ==
    ASSUME NEW S, NEW f \in Seq(S), NEW x \in S, NEW r
    PROVE  Times(r, Append(f, x)) = Times(r, f) + (IF r = x THEN 1 ELSE 0)
<1> DEFINE h == <<x>>
<1>1. Append(f, x) = f \o h /\ h \in Seq(S)
  BY AppendIsConcat
<1>2. DOMAIN h = {1} /\ h[1] = x
  OBVIOUS
<1> HIDE DEF h
<1>3. {i \in DOMAIN h : h[i] = r} = IF r = x THEN {1} ELSE {}
  BY <1>2
<1>4. Times(r, h) = IF r = x THEN 1 ELSE 0
  BY <1>3, FS_Singleton, FS_EmptySet DEF Times
<1> QED
  BY <1>1, <1>4, TimesOfBoth

\* A file cut in two.
LEMMA TimesOfParts ==
    ASSUME NEW S, NEW f \in Seq(S), NEW m \in Nat, NEW n \in Nat, m <= n, n <= Len(f), NEW r
    PROVE  /\ SubSeq(f, 1, n) = SubSeq(f, 1, m) \o SubSeq(f, m + 1, n)
           /\ Times(r, SubSeq(f, 1, n)) = Times(r, SubSeq(f, 1, m)) + Times(r, SubSeq(f, m + 1, n))
           /\ Times(r, SubSeq(f, m + 1, n)) <= Times(r, f)
           /\ Times(r, SubSeq(f, 1, n)) <= Times(r, f)
<1>1. Len(f) \in Nat
  BY LenProperties
<1>2. ASSUME NEW a \in Nat, NEW b \in Nat, a <= b, b <= Len(f)
      PROVE  /\ SubSeq(f, 1, a) \o SubSeq(f, a + 1, b) = SubSeq(f, 1, b)
             /\ SubSeq(f, 1, a) \in Seq(S) /\ SubSeq(f, a + 1, b) \in Seq(S)
  <2>1. 1 \in 1 .. Len(f) + 1 /\ a \in 1 - 1 .. Len(f) /\ b \in a .. Len(f)
    BY <1>1, <1>2
  <2>2. SubSeq(f, 1, a) \in Seq(S)
    <3>1. \A i \in 1 .. a : f[i] \in S
      BY <1>1, <1>2, ElementOfSeq
    <3> QED
      BY <3>1, SubSeqProperties
  <2>3. SubSeq(f, a + 1, b) \in Seq(S)
    BY <1>2, PartIs
  <2> QED
    BY <2>1, <2>2, <2>3, ConcatAdjacentSubSeq
<1>3. ASSUME NEW a \in Nat, NEW b \in Nat, a <= b, b <= Len(f)
      PROVE  /\ Times(r, SubSeq(f, 1, b)) = Times(r, SubSeq(f, 1, a)) + Times(r, SubSeq(f, a + 1, b))
             /\ Times(r, SubSeq(f, 1, a)) \in Nat /\ Times(r, SubSeq(f, a + 1, b)) \in Nat
  <2> DEFINE x == SubSeq(f, 1, a)
  <2> DEFINE y == SubSeq(f, a + 1, b)
  <2>1. x \o y = SubSeq(f, 1, b) /\ x \in Seq(S) /\ y \in Seq(S)
    BY <1>2, <1>3
  <2> HIDE DEF x, y
  <2>2. Times(r, x \o y) = Times(r, x) + Times(r, y)
    BY <2>1, TimesOfBoth
  <2>3. Times(r, x) \in Nat /\ Times(r, y) \in Nat
    BY <2>1, TimesIsNat
  <2> QED
    BY <2>1, <2>2, <2>3 DEF x, y
<1>4. SubSeq(f, 1, Len(f)) = f
  BY SubSeqFull
<1> DEFINE k == Len(f)
<1> DEFINE T(h) == Times(r, h)
<1>5. /\ T(SubSeq(f, 1, k)) = T(SubSeq(f, 1, n)) + T(SubSeq(f, n + 1, k))
      /\ T(SubSeq(f, 1, n)) \in Nat /\ T(SubSeq(f, n + 1, k)) \in Nat
  <2>1. k \in Nat /\ n <= k /\ k <= Len(f)
    BY <1>1
  <2> HIDE DEF k
  <2> QED
    BY <2>1, <1>3
<1>6. /\ T(SubSeq(f, 1, n)) = T(SubSeq(f, 1, m)) + T(SubSeq(f, m + 1, n))
      /\ T(SubSeq(f, 1, m)) \in Nat /\ T(SubSeq(f, m + 1, n)) \in Nat
  BY <1>3
<1>7. SubSeq(f, 1, n) = SubSeq(f, 1, m) \o SubSeq(f, m + 1, n)
  BY <1>2
<1>8. T(SubSeq(f, 1, k)) = T(f)
  BY <1>4, ZenonT(30)
<1> HIDE DEF k, T
<1>9. /\ T(SubSeq(f, m + 1, n)) <= T(f)
      /\ T(SubSeq(f, 1, n)) <= T(f)
  BY <1>5, <1>6, <1>8
<1> QED
  BY <1>6, <1>7, <1>9 DEF T

-----------------------------------------------------------------------------
(* Repetitions, step by step.                                               *)

\* log.csv becomes log.csv.1.
LEMMA RotateRepeats ==
    ASSUME NEW m \in Nat, NEW c \in Nat, NEW o \in Seq(0 .. m), NEW l \in Seq(0 .. m),
           NEW u \in Seq(0 .. m), Repeated(o, l, u, c, m)
    PROVE  Repeated(l, <<>>, u, c, m)
<1> DEFINE e == <<>>
<1>1. e \in Seq(0 .. m) /\ e = <<>> /\ DOMAIN e = {}
  BY EmptySeq
<1> HIDE DEF e
<1>2. ASSUME NEW r PROVE Occurs(r, l, e, u) <= Occurs(r, o, l, u) /\ Occurs(r, o, l, u) \in Nat
  <2> DEFINE a == Times(r, o)
  <2> DEFINE b == Times(r, l)
  <2> DEFINE d == Times(r, u)
  <2>1. a \in Nat /\ b \in Nat /\ d \in Nat /\ Times(r, e) = 0
    BY <1>1, TimesIsNat
  <2>2. Occurs(r, l, e, u) = b + 0 + d /\ Occurs(r, o, l, u) = a + b + d
    BY <2>1 DEF Occurs
  <2> HIDE DEF a, b, d
  <2> QED
    BY <2>1, <2>2
<1>3. ASSUME NEW r, NEW n \in Nat, Occurs(r, o, l, u) <= n PROVE Occurs(r, l, e, u) <= n
  <2> DEFINE a == Occurs(r, l, e, u)
  <2> DEFINE b == Occurs(r, o, l, u)
  <2>1. a <= b /\ b \in Nat /\ b <= n /\ a \in Nat
    <3>1. Times(r, l) \in Nat /\ Times(r, e) \in Nat /\ Times(r, u) \in Nat
      BY <1>1, TimesIsNat
    <3>2. Occurs(r, l, e, u) \in Nat
      BY <3>1 DEF Occurs
    <3> QED
      BY <1>2, <1>3, <3>2
  <2> HIDE DEF a, b
  <2>2. a <= n
    BY <2>1
  <2> QED
    BY <2>2 DEF a
<1>4. \A r \in 1 .. m : Occurs(r, l, e, u) <= 1 + c
  BY <1>3 DEF Repeated
<1>5. Occurs(Torn, l, e, u) <= c
  BY <1>3 DEF Repeated
<1>6. c = 0 => Sorted(l) /\ Sorted(e) /\ Before(l, e) /\ Before(l, u) /\ Before(e, u)
  BY <1>1 DEF Repeated, Sorted, Before
<1> QED
  BY <1>1, <1>4, <1>5, <1>6 DEF Repeated

\* The rows of two files together, place by place.
LEMMA BothIs ==
    ASSUME NEW S, NEW f \in Seq(S), NEW h \in Seq(S)
    PROVE  LET all == f \o h
           IN  /\ Len(f) \in Nat /\ DOMAIN f \subseteq 1 .. Len(f) /\ DOMAIN h \subseteq Nat
               /\ all \in Seq(S) /\ DOMAIN all \subseteq Nat
               /\ \A i \in DOMAIN f : i \in DOMAIN all /\ all[i] = f[i]
               /\ \A i \in DOMAIN h : Len(f) + i \in DOMAIN all /\ all[Len(f) + i] = h[i] /\ i > 0
               /\ \A i \in DOMAIN all :
                     \/ i \in DOMAIN f /\ all[i] = f[i]
                     \/ i - Len(f) \in DOMAIN h /\ all[i] = h[i - Len(f)] /\ i > Len(f)
<1> DEFINE all == f \o h
<1>1. /\ all \in Seq(S) /\ Len(all) = Len(f) + Len(h)
      /\ \A i \in 1 .. Len(f) + Len(h) : all[i] = IF i <= Len(f) THEN f[i] ELSE h[i - Len(f)]
  BY ConcatProperties
<1>2. /\ DOMAIN all = 1 .. Len(f) + Len(h) /\ DOMAIN f = 1 .. Len(f) /\ DOMAIN h = 1 .. Len(h)
      /\ Len(f) \in Nat /\ Len(h) \in Nat
  BY <1>1, LenProperties
<1> HIDE DEF all
<1>3. \A i \in DOMAIN f : i \in DOMAIN all /\ all[i] = f[i]
  BY <1>1, <1>2
<1>4. ASSUME NEW i \in DOMAIN h
      PROVE  Len(f) + i \in DOMAIN all /\ all[Len(f) + i] = h[i]
  <2>1. Len(f) + i \in 1 .. Len(f) + Len(h) /\ ~(Len(f) + i <= Len(f)) /\ Len(f) + i - Len(f) = i
    BY <1>2
  <2>2. all[Len(f) + i] = h[Len(f) + i - Len(f)]
    BY <1>1, <2>1
  <2> QED
    BY <1>2, <2>1, <2>2
<1>5. ASSUME NEW i \in DOMAIN all
      PROVE  \/ i \in DOMAIN f /\ all[i] = f[i]
             \/ i - Len(f) \in DOMAIN h /\ all[i] = h[i - Len(f)] /\ i > Len(f)
  BY <1>1, <1>2
<1> QED
  BY <1>1, <1>2, <1>3, <1>4, <1>5 DEF all

\* The order of two files together is that of each and of the two.
LEMMA OrderOfBoth ==
    ASSUME NEW S \in SUBSET Nat, NEW f \in Seq(S), NEW h \in Seq(S)
    PROVE  Sorted(f \o h) <=> Sorted(f) /\ Sorted(h) /\ Before(f, h)
<1> DEFINE all == f \o h
<1>1. /\ Len(f) \in Nat /\ DOMAIN f \subseteq 1 .. Len(f) /\ DOMAIN h \subseteq Nat
      /\ DOMAIN all \subseteq Nat
  BY BothIs
<1>2. \A i \in DOMAIN f : i \in DOMAIN all /\ all[i] = f[i]
  BY BothIs
<1>3. \A i \in DOMAIN h : Len(f) + i \in DOMAIN all /\ all[Len(f) + i] = h[i] /\ i > 0
  BY BothIs
<1>4. \A i \in DOMAIN all :
          \/ i \in DOMAIN f /\ all[i] = f[i]
          \/ i - Len(f) \in DOMAIN h /\ all[i] = h[i - Len(f)] /\ i > Len(f)
  BY BothIs
<1> HIDE DEF all
<1>6. ASSUME Sorted(all) PROVE Sorted(f) /\ Sorted(h) /\ Before(f, h)
  <2>1. Sorted(f)
    BY <1>2, <1>6 DEF Sorted
  <2>2. Sorted(h)
    <3> SUFFICES ASSUME NEW i \in DOMAIN h, NEW j \in DOMAIN h, i < j
                 PROVE  h[i] < h[j]
      BY DEF Sorted
    <3>1. Len(f) + i < Len(f) + j
      BY <1>1
    <3>2. all[Len(f) + i] < all[Len(f) + j]
      BY <1>3, <1>6, <3>1 DEF Sorted
    <3> QED
      BY <1>3, <3>2
  <2>3. Before(f, h)
    <3> SUFFICES ASSUME NEW i \in DOMAIN f, NEW j \in DOMAIN h
                 PROVE  f[i] < h[j]
      BY DEF Before
    <3>1. i < Len(f) + j
      BY <1>1
    <3>2. all[i] < all[Len(f) + j]
      BY <1>2, <1>3, <1>6, <3>1 DEF Sorted
    <3> QED
      BY <1>2, <1>3, <3>2
  <2> QED
    BY <2>1, <2>2, <2>3
<1>7. ASSUME Sorted(f), Sorted(h), Before(f, h) PROVE Sorted(all)
  <2> SUFFICES ASSUME NEW i \in DOMAIN all, NEW j \in DOMAIN all, i < j
               PROVE  all[i] < all[j]
    BY DEF Sorted
  <2>1. CASE i \in DOMAIN f /\ j \in DOMAIN f
    BY <1>2, <1>7, <2>1 DEF Sorted
  <2>2. CASE i \in DOMAIN f /\ j - Len(f) \in DOMAIN h /\ all[j] = h[j - Len(f)]
    BY <1>2, <1>7, <2>2 DEF Before
  <2>3. CASE /\ i - Len(f) \in DOMAIN h /\ all[i] = h[i - Len(f)]
             /\ j - Len(f) \in DOMAIN h /\ all[j] = h[j - Len(f)]
    <3>1. i - Len(f) < j - Len(f)
      BY <1>1
    <3> QED
      BY <1>7, <2>3, <3>1 DEF Sorted
  <2>4. ~(i > Len(f) /\ j \in DOMAIN f)
    BY <1>1
  <2> QED
    BY <1>4, <2>1, <2>2, <2>3, <2>4
<1> QED
  BY <1>6, <1>7 DEF all

\* The same, of a third file before or behind them.
LEMMA BeforeBoth ==
    ASSUME NEW S \in SUBSET Nat, NEW f \in Seq(S), NEW h \in Seq(S), NEW k \in Seq(S)
    PROVE  /\ Before(k, f \o h) <=> Before(k, f) /\ Before(k, h)
           /\ Before(f \o h, k) <=> Before(f, k) /\ Before(h, k)
<1> DEFINE all == f \o h
<1>1. /\ Len(f) \in Nat /\ DOMAIN f \subseteq 1 .. Len(f) /\ DOMAIN h \subseteq Nat
      /\ DOMAIN all \subseteq Nat
  BY BothIs
<1>2. \A i \in DOMAIN f : i \in DOMAIN all /\ all[i] = f[i]
  BY BothIs
<1>3. \A i \in DOMAIN h : Len(f) + i \in DOMAIN all /\ all[Len(f) + i] = h[i] /\ i > 0
  BY BothIs
<1>4. \A i \in DOMAIN all :
          \/ i \in DOMAIN f /\ all[i] = f[i]
          \/ i - Len(f) \in DOMAIN h /\ all[i] = h[i - Len(f)] /\ i > Len(f)
  BY BothIs
<1> HIDE DEF all
<1>6. Before(k, all) => Before(k, f) /\ Before(k, h)
  BY <1>2, <1>3 DEF Before
<1>7. Before(k, f) /\ Before(k, h) => Before(k, all)
  BY <1>4 DEF Before
<1>8. Before(all, k) => Before(f, k) /\ Before(h, k)
  BY <1>2, <1>3 DEF Before
<1>9. Before(f, k) /\ Before(h, k) => Before(all, k)
  BY <1>4 DEF Before
<1> QED
  BY <1>6, <1>7, <1>8, <1>9 DEF all

\* A clean file cut behind its rows up to b, where its rows up to a are gone already.
LEMMA CutInParts ==
    ASSUME NEW S \in SUBSET Nat, NEW w \in Seq(S), NEW a \in Nat, NEW b \in Nat,
           a <= b, b <= Len(w)
    PROVE  LET x == SubSeq(w, a + 1, b)
               y == SubSeq(w, b + 1, Len(w))
           IN  /\ x \in Seq(S) /\ y \in Seq(S)
               /\ SubSeq(w, a + 1, Len(w)) = x \o y
<1>1. Len(w) \in Nat
  BY LenProperties
<1>2. SubSeq(w, a + 1, b) \in Seq(S) /\ SubSeq(w, b + 1, Len(w)) \in Seq(S)
  BY <1>1, PartIs
<1> DEFINE n == a + 1
<1>3. n \in 1 .. Len(w) + 1 /\ b \in n - 1 .. Len(w) /\ Len(w) \in b .. Len(w)
  BY <1>1
<1> HIDE DEF n
<1>4. SubSeq(w, n, b) \o SubSeq(w, b + 1, Len(w)) = SubSeq(w, n, Len(w))
  BY <1>3, ConcatAdjacentSubSeq
<1>5. SubSeq(w, a + 1, Len(w)) = SubSeq(w, a + 1, b) \o SubSeq(w, b + 1, Len(w))
  BY <1>4, ZenonT(30) DEF n
<1> QED
  BY <1>2, <1>5

\* A chunk of the batch is written to log.csv.
LEMMA WriteRepeats ==
    ASSUME NEW m \in Nat, NEW c \in Nat, NEW o \in Seq(0 .. m), NEW l \in Seq(0 .. m),
           NEW w \in Seq(0 .. m), NEW a \in Nat, NEW b \in Nat, a <= b, b <= Len(w), Clean(w),
           Repeated(o, l, SubSeq(w, a + 1, Len(w)), c, m)
    PROVE  Repeated(o, l \o SubSeq(w, a + 1, b), SubSeq(w, b + 1, Len(w)), c, m)
<1> DEFINE x == SubSeq(w, a + 1, b)
<1> DEFINE y == SubSeq(w, b + 1, Len(w))
<1> DEFINE u == SubSeq(w, a + 1, Len(w))
<1>1. x \in Seq(0 .. m) /\ y \in Seq(0 .. m) /\ u = x \o y
  BY CutInParts, 0 .. m \in SUBSET Nat
<1>8. 0 .. m \in SUBSET Nat
  OBVIOUS
<1>2. Clean(u)
  <2>1. Len(w) \in Nat
    BY LenProperties
  <2> QED
    BY <2>1, PartIsClean
<1> HIDE DEF x, y, u
<1>3. ASSUME NEW r PROVE Occurs(r, o, l \o x, y) = Occurs(r, o, l, u)
  <2>1. Times(r, l \o x) = Times(r, l) + Times(r, x)
    BY <1>1, TimesOfBoth
  <2>2. Times(r, u) = Times(r, x) + Times(r, y)
    BY <1>1, TimesOfBoth
  <2>3. Times(r, o) \in Nat
    BY TimesIsNat
  <2>4. Times(r, l) \in Nat
    BY TimesIsNat
  <2>5. Times(r, x) \in Nat
    BY <1>1, TimesIsNat
  <2>6. Times(r, y) \in Nat
    BY <1>1, TimesIsNat
  <2> QED
    BY <2>1, <2>2, <2>3, <2>4, <2>5, <2>6 DEF Occurs
<1>4. Sorted(x) /\ Sorted(y) /\ Before(x, y)
  BY <1>1, <1>2, <1>8, OrderOfBoth DEF Clean
<1>5. ASSUME c = 0
      PROVE  Sorted(o) /\ Sorted(l \o x) /\ Before(o, l \o x) /\ Before(o, y) /\ Before(l \o x, y)
  <2>1. Sorted(o) /\ Sorted(l) /\ Before(o, l) /\ Before(o, x \o y) /\ Before(l, x \o y)
    BY <1>1, <1>5 DEF Repeated, u
  <2>2. Before(o, x) /\ Before(o, y)
    BY <1>1, <1>8, <2>1, BeforeBoth
  <2>3. Before(l, x) /\ Before(l, y)
    BY <1>1, <1>8, <2>1, BeforeBoth
  <2>4. Sorted(l \o x)
    BY <1>1, <1>4, <1>8, <2>1, <2>3, OrderOfBoth
  <2>5. Before(o, l \o x)
    BY <1>1, <1>8, <2>1, <2>2, BeforeBoth
  <2>6. Before(l \o x, y)
    BY <1>1, <1>4, <1>8, <2>3, BeforeBoth
  <2> QED
    BY <2>1, <2>2, <2>4, <2>5, <2>6
<1>6. \A r : Occurs(r, o, l \o x, y) = Occurs(r, o, l, u)
  BY <1>3
<1>7. Repeated(o, l, u, c, m)
  BY DEF u
<1> QED
  BY <1>5, <1>6, <1>7 DEF Repeated, x, y

\* What CutRepeats adds up: a row of the batch is counted once in its n pending copies, and
\* its written ones (g before, x by the cut write, t for a torn row) are at most one.
LEMMA CutSum ==
    ASSUME NEW o \in Nat, NEW l \in Nat, NEW x \in Nat, NEW u \in Nat, NEW w \in Nat,
           NEW g \in Nat, NEW t \in {0, 1}, NEW l2, NEW u2,
           l2 = l + x + t, u2 = u \/ u2 = w, w = g + u, x + t <= 1, g + x + t <= 1
    PROVE  /\ o + l2 + u2 <= o + l + u + 1
           /\ o + l2 + u2 \in Nat /\ o + l + u \in Nat
OBVIOUS

\* A flush that ends with rows both logged, up to b, and pending, from k: those it had
\* written before (a), those of a write that was cut short, and maybe the start of a row.
LEMMA CutRepeats ==
    ASSUME NEW m \in Nat, NEW c \in Nat, NEW o \in Seq(0 .. m), NEW l \in Seq(0 .. m),
           NEW w \in Seq(0 .. m), NEW a \in Nat, NEW b \in Nat, a <= b, b <= Len(w), Clean(w),
           NEW k \in {0, a}, NEW torn \in BOOLEAN,
           Repeated(o, l, SubSeq(w, a + 1, Len(w)), c, m)
    PROVE  LET x == l \o SubSeq(w, a + 1, b)
           IN  Repeated(o, IF torn THEN Append(x, Torn) ELSE x, SubSeq(w, k + 1, Len(w)), c + 1, m)
<1> DEFINE x == SubSeq(w, a + 1, b)
<1> DEFINE y == SubSeq(w, b + 1, Len(w))
<1> DEFINE u == SubSeq(w, a + 1, Len(w))
<1> DEFINE n == l \o x
<1> DEFINE l2 == IF torn THEN Append(n, Torn) ELSE n
<1> DEFINE u2 == SubSeq(w, k + 1, Len(w))
<1>1. 0 .. m \in SUBSET Nat /\ Torn \in 0 .. m /\ Len(w) \in Nat
  BY LenProperties DEF Torn
<1>2. x \in Seq(0 .. m) /\ y \in Seq(0 .. m) /\ u = x \o y
  BY <1>1, CutInParts
<1>3. n \in Seq(0 .. m)
  BY <1>2, ConcatProperties
<1>4. ASSUME NEW r
      PROVE  /\ Times(r, SubSeq(w, 1, b)) = Times(r, SubSeq(w, 1, a)) + Times(r, x)
             /\ Times(r, SubSeq(w, 1, Len(w))) = Times(r, SubSeq(w, 1, a)) + Times(r, u)
             /\ Times(r, SubSeq(w, 1, b)) <= Times(r, w)
  <2> DEFINE e == Len(w)
  <2>1. e \in Nat /\ a <= e /\ e <= Len(w)
    BY <1>1
  <2>2. Times(r, SubSeq(w, 1, b)) = Times(r, SubSeq(w, 1, a)) + Times(r, SubSeq(w, a + 1, b))
    BY TimesOfParts
  <2>3. Times(r, SubSeq(w, 1, b)) <= Times(r, w)
    BY TimesOfParts
  <2> HIDE DEF e
  <2>4. Times(r, SubSeq(w, 1, e)) = Times(r, SubSeq(w, 1, a)) + Times(r, SubSeq(w, a + 1, e))
    BY <2>1, TimesOfParts
  <2> QED
    BY <2>2, <2>3, <2>4, ZenonT(30) DEF e
<1>5. SubSeq(w, 1, Len(w)) = w /\ SubSeq(w, 1, a) \in Seq(0 .. m) /\ SubSeq(w, 1, b) \in Seq(0 .. m)
  <2>1. SubSeq(w, 1, Len(w)) = w
    BY SubSeqFull
  <2>2. ASSUME NEW i \in Nat, i <= Len(w) PROVE SubSeq(w, 1, i) \in Seq(0 .. m)
    <3>1. \A z \in 1 .. i : w[z] \in 0 .. m
      BY <1>1, <2>2, ElementOfSeq
    <3> QED
      BY <3>1, SubSeqProperties
  <2> QED
    BY <1>1, <2>1, <2>2
<1>6. ASSUME NEW r
      PROVE  /\ Occurs(r, o, l2, u2) <= Occurs(r, o, l, u) + 1
             /\ Occurs(r, o, l2, u2) \in Nat /\ Occurs(r, o, l, u) \in Nat
  <2> DEFINE T(h) == Times(r, h)
  <2> DEFINE t == IF r = Torn /\ torn THEN 1 ELSE 0
  <2>1. T(l2) = T(l) + T(x) + t
    <3>1. T(n) = T(l) + T(x)
      BY <1>2, TimesOfBoth
    <3>2. T(Append(n, Torn)) = T(n) + (IF r = Torn THEN 1 ELSE 0)
      BY <1>1, <1>3, TimesBehind
    <3>3. T(n) \in Nat
      BY <1>3, TimesIsNat
    <3> HIDE DEF n
    <3>4. CASE torn
      BY <3>1, <3>2, <3>4
    <3>5. CASE ~torn
      BY <3>1, <3>3, <3>5
    <3> QED
      BY <3>4, <3>5
  <2>2. T(o) \in Nat
    BY TimesIsNat
  <2>3. T(l) \in Nat
    BY TimesIsNat
  <2>4. T(x) \in Nat
    BY <1>2, TimesIsNat
  <2>5. T(u) \in Nat /\ T(w) \in Nat
    <3>1. u \in Seq(0 .. m)
      BY <1>1, PartIs
    <3> QED
      BY <3>1, TimesIsNat
  <2>6. T(SubSeq(w, 1, a)) \in Nat
    BY <1>5, TimesIsNat
  <2>7. T(w) <= 1 /\ (r = Torn => T(w) = 0)
    BY <1>1, TimesInClean
  <2> DEFINE before == T(SubSeq(w, 1, a))
  <2>8. before + T(x) <= T(w) /\ T(w) = before + T(u)
    BY <1>4, <1>5
  <2>9. T(u2) = T(u) \/ T(u2) = T(w)
    <3>1. CASE k = a
      BY <3>1
    <3>2. CASE k = 0
      <4>1. SubSeq(w, 0 + 1, Len(w)) = w
        BY <1>5
      <4> QED
        BY <3>2, <4>1
    <3> QED
      BY <3>1, <3>2
  <2> HIDE DEF T, before, l2, u2, u, x
  <2>10. before \in Nat
    BY <2>6 DEF before
  <2>12. t \in {0, 1}
    OBVIOUS
  <2>14. t = 1 => r = Torn
    OBVIOUS
  <2> HIDE DEF t
  <2>11. T(x) + t <= 1 /\ before + T(x) + t <= 1
    <3>1. CASE r = Torn
      <4>1. T(x) = 0 /\ before = 0
        BY <2>4, <2>7, <2>8, <2>10, <3>1
      <4> QED
        BY <2>12, <4>1
    <3>2. CASE r # Torn
      <4>1. t = 0
        BY <2>12, <2>14, <3>2
      <4> QED
        BY <2>4, <2>5, <2>7, <2>8, <2>10, <4>1
    <3> QED
      BY <3>1, <3>2
  <2>13. Occurs(r, o, l2, u2) = T(o) + T(l2) + T(u2) /\ Occurs(r, o, l, u) = T(o) + T(l) + T(u)
    BY DEF T, Occurs
  <2> DEFINE no == T(o)
  <2> DEFINE nl == T(l)
  <2> DEFINE nx == T(x)
  <2> DEFINE nu == T(u)
  <2> DEFINE nw == T(w)
  <2> DEFINE nl2 == T(l2)
  <2> DEFINE nu2 == T(u2)
  <2>15. /\ no \in Nat /\ nl \in Nat /\ nx \in Nat /\ nu \in Nat /\ nw \in Nat
         /\ nl2 = nl + nx + t /\ (nu2 = nu \/ nu2 = nw) /\ nw = before + nu
         /\ nx + t <= 1 /\ before + nx + t <= 1
    BY <2>1, <2>2, <2>3, <2>4, <2>5, <2>8, <2>9, <2>11
  <2>16. Occurs(r, o, l2, u2) = no + nl2 + nu2 /\ Occurs(r, o, l, u) = no + nl + nu
    BY <2>13
  <2> HIDE DEF no, nl, nx, nu, nw, nl2, nu2
  <2>17. no + nl2 + nu2 <= no + nl + nu + 1 /\ no + nl2 + nu2 \in Nat /\ no + nl + nu \in Nat
    BY <2>10, <2>12, <2>15, CutSum
  <2> QED
    BY <2>16, <2>17
<1>7. Repeated(o, l, u, c, m)
  OBVIOUS
<1> HIDE DEF l2, u2, u
<1>8. ASSUME NEW r, NEW d \in Nat, Occurs(r, o, l, u) <= d
      PROVE  Occurs(r, o, l2, u2) <= d + 1
  BY <1>6, <1>8
<1>9. \A r \in 1 .. m : Occurs(r, o, l2, u2) <= 1 + (c + 1)
  BY <1>7, <1>8 DEF Repeated
<1>10. Occurs(Torn, o, l2, u2) <= c + 1
  BY <1>7, <1>8 DEF Repeated
<1>11. Repeated(o, l2, u2, c + 1, m)
  BY <1>9, <1>10 DEF Repeated
<1> QED
  BY <1>11 DEF l2, u2


\* Rows that are given up on leave the others as they were.
LEMMA DropRepeats ==
    ASSUME NEW m \in Nat, NEW c \in Nat, NEW o \in Seq(0 .. m), NEW l \in Seq(0 .. m),
           NEW w \in Seq(0 .. m), NEW k \in Nat, k <= Len(w), Repeated(o, l, w, c, m)
    PROVE  Repeated(o, l, SubSeq(w, k + 1, Len(w)), c, m)
<1> DEFINE x == SubSeq(w, 0 + 1, k)
<1> DEFINE y == SubSeq(w, k + 1, Len(w))
<1>1. 0 .. m \in SUBSET Nat /\ 0 \in Nat /\ 0 <= k /\ Len(w) \in Nat
  BY LenProperties
<1>2. x \in Seq(0 .. m) /\ y \in Seq(0 .. m) /\ SubSeq(w, 0 + 1, Len(w)) = x \o y
  BY <1>1, CutInParts
<1>3. w = x \o y
  <2>1. SubSeq(w, 1, Len(w)) = w
    BY SubSeqFull
  <2>2. SubSeq(w, 0 + 1, Len(w)) = w
    BY <2>1
  <2> HIDE DEF x, y
  <2> QED
    BY <1>2, <2>2
<1> HIDE DEF x, y
<1>4. ASSUME NEW r, NEW d \in Nat, Occurs(r, o, l, w) <= d
      PROVE  Occurs(r, o, l, y) <= d
  <2> DEFINE no == Times(r, o)
  <2> DEFINE nl == Times(r, l)
  <2> DEFINE nx == Times(r, x)
  <2> DEFINE ny == Times(r, y)
  <2>1. no \in Nat
    BY TimesIsNat
  <2>2. nl \in Nat
    BY TimesIsNat
  <2>3. nx \in Nat
    BY <1>2, TimesIsNat
  <2>4. ny \in Nat
    BY <1>2, TimesIsNat
  <2>5. Times(r, w) = nx + ny
    BY <1>2, <1>3, TimesOfBoth
  <2>6. Occurs(r, o, l, w) = no + nl + Times(r, w) /\ Occurs(r, o, l, y) = no + nl + ny
    BY DEF Occurs
  <2> HIDE DEF no, nl, nx, ny
  <2> QED
    BY <1>4, <2>1, <2>2, <2>3, <2>4, <2>5, <2>6
<1>5. ASSUME c = 0
      PROVE  Sorted(o) /\ Sorted(l) /\ Before(o, l) /\ Before(o, y) /\ Before(l, y)
  <2>1. Sorted(o) /\ Sorted(l) /\ Before(o, l) /\ Before(o, x \o y) /\ Before(l, x \o y)
    BY <1>3, <1>5 DEF Repeated
  <2>2. Before(o, y)
    BY <1>1, <1>2, <2>1, BeforeBoth
  <2>3. Before(l, y)
    BY <1>1, <1>2, <2>1, BeforeBoth
  <2> QED
    BY <2>1, <2>2, <2>3
<1>6. \A r \in 1 .. m : Occurs(r, o, l, y) <= 1 + c
  BY <1>4 DEF Repeated
<1>7. Occurs(Torn, o, l, y) <= c
  BY <1>4 DEF Repeated
<1> QED
  BY <1>5, <1>6, <1>7 DEF Repeated, y

\* A row that is not made yet is nowhere.
LEMMA TimesOfNew ==
    ASSUME NEW m \in Nat, NEW f \in Seq(0 .. m), NEW r, r \notin 0 .. m
    PROVE  Times(r, f) = 0
<1>1. {i \in DOMAIN f : f[i] = r} = {}
  BY LenProperties, ElementOfSeq
<1> QED
  BY <1>1, FS_EmptySet DEF Times

\* A row is made and lost.
LEMMA LoseRepeats ==
    ASSUME NEW m \in Nat, NEW c \in Nat, NEW o \in Seq(0 .. m), NEW l \in Seq(0 .. m),
           NEW u \in Seq(0 .. m), Repeated(o, l, u, c, m)
    PROVE  Repeated(o, l, u, c, m + 1)
<1>1. Occurs(m + 1, o, l, u) = 0
  <2>1. m + 1 \notin 0 .. m
    OBVIOUS
  <2>2. Times(m + 1, o) = 0 /\ Times(m + 1, l) = 0 /\ Times(m + 1, u) = 0
    BY <2>1, TimesOfNew
  <2> QED
    BY <2>2 DEF Occurs
<1>2. ASSUME NEW r \in 1 .. m + 1 PROVE Occurs(r, o, l, u) <= 1 + c
  <2>1. CASE r = m + 1
    <3>1. Occurs(r, o, l, u) = 0
      BY <1>1, <2>1
    <3> QED
      BY <3>1
  <2>2. CASE r \in 1 .. m
    BY <2>2 DEF Repeated
  <2> QED
    BY <2>1, <2>2
<1> QED
  BY <1>2 DEF Repeated

\* A row is made and waits.
LEMMA AddRepeats ==
    ASSUME NEW m \in Nat, NEW c \in Nat, NEW o \in Seq(0 .. m), NEW l \in Seq(0 .. m),
           NEW u \in Seq(0 .. m), Repeated(o, l, u, c, m)
    PROVE  Repeated(o, l, Append(u, m + 1), c, m + 1)
<1> DEFINE n == Append(u, m + 1)
<1>1. m + 1 \notin 0 .. m /\ m + 1 # Torn /\ 0 .. m \in SUBSET (0 .. m + 1) /\ m + 1 \in 0 .. m + 1
  BY DEF Torn
<1>2. u \in Seq(0 .. m + 1)
  BY <1>1, SeqMonotonic
<1>3. ASSUME NEW r
      PROVE  Occurs(r, o, l, n) = Occurs(r, o, l, u) + (IF r = m + 1 THEN 1 ELSE 0)
  <2> DEFINE no == Times(r, o)
  <2> DEFINE nl == Times(r, l)
  <2> DEFINE nu == Times(r, u)
  <2> DEFINE one == IF r = m + 1 THEN 1 ELSE 0
  <2>1. no \in Nat
    BY TimesIsNat
  <2>2. nl \in Nat
    BY TimesIsNat
  <2>3. nu \in Nat
    BY TimesIsNat
  <2>4. Times(r, n) = nu + one
    BY <1>1, <1>2, TimesBehind
  <2>5. one \in Nat
    OBVIOUS
  <2>6. Occurs(r, o, l, u) = no + nl + nu /\ Occurs(r, o, l, n) = no + nl + Times(r, n)
    BY DEF Occurs
  <2>9. Occurs(r, o, l, n) = Occurs(r, o, l, u) + one
    <3> HIDE DEF no, nl, nu, one
    <3> QED
      BY <2>1, <2>2, <2>3, <2>4, <2>5, <2>6
  <2> QED
    BY <2>9
<1>4. Occurs(m + 1, o, l, u) = 0
  <2>2. Times(m + 1, o) = 0 /\ Times(m + 1, l) = 0 /\ Times(m + 1, u) = 0
    BY <1>1, TimesOfNew
  <2> QED
    BY <2>2 DEF Occurs
<1>5. Before(o, u) => Before(o, n)
  <2> SUFFICES ASSUME Before(o, u), NEW i \in DOMAIN o, NEW j \in DOMAIN n PROVE o[i] < n[j]
    BY DEF Before
  <2>1. o[i] \in 0 .. m
    BY ElementOfSeq, LenProperties
  <2>2. \/ j \in DOMAIN u /\ n[j] = u[j]
        \/ n[j] = m + 1
    BY AppendProperties, LenProperties
  <2> QED
    BY <2>1, <2>2 DEF Before
<1>6. Before(l, u) => Before(l, n)
  <2> SUFFICES ASSUME Before(l, u), NEW i \in DOMAIN l, NEW j \in DOMAIN n PROVE l[i] < n[j]
    BY DEF Before
  <2>1. l[i] \in 0 .. m
    BY ElementOfSeq, LenProperties
  <2>2. \/ j \in DOMAIN u /\ n[j] = u[j]
        \/ n[j] = m + 1
    BY AppendProperties, LenProperties
  <2> QED
    BY <2>1, <2>2 DEF Before
<1> HIDE DEF n
<1>7. ASSUME NEW r \in 1 .. m + 1 PROVE Occurs(r, o, l, n) <= 1 + c
  <2>1. CASE r = m + 1
    <3>1. Occurs(r, o, l, n) = 0 + 1
      BY <1>3, <1>4, <2>1
    <3> QED
      BY <3>1
  <2>2. CASE r \in 1 .. m
    <3>1. Occurs(r, o, l, u) <= 1 + c /\ r # m + 1
      BY <2>2 DEF Repeated
    <3>2. Occurs(r, o, l, u) \in Nat
      <4>1. Times(r, o) \in Nat /\ Times(r, l) \in Nat /\ Times(r, u) \in Nat
        BY TimesIsNat
      <4> QED
        BY <4>1 DEF Occurs
    <3>3. Occurs(r, o, l, n) = Occurs(r, o, l, u) + 0
      BY <1>3, <3>1
    <3> QED
      BY <3>1, <3>2, <3>3
  <2> QED
    BY <2>1, <2>2
<1>8. Occurs(Torn, o, l, n) <= c
  <2>1. Occurs(Torn, o, l, u) \in Nat
    <3>1. Times(Torn, o) \in Nat /\ Times(Torn, l) \in Nat /\ Times(Torn, u) \in Nat
      BY TimesIsNat
    <3> QED
      BY <3>1 DEF Occurs
  <2> QED
    BY <1>1, <1>3, <2>1 DEF Repeated
<1> QED
  BY <1>5, <1>6, <1>7, <1>8 DEF Repeated, n

-----------------------------------------------------------------------------
(* What the operations on files return.                                     *)

\* Making room keeps the younger rows of the file, in their order, and leaves room for one.
LEMMA MakeRoomIs ==
    ASSUME NEW S \in SUBSET Nat, NEW f \in Seq(S), NEW checked \in BOOLEAN, Clean(Whole(f)),
           checked => f = Whole(f)
    PROVE  LET w == Whole(f)
               room == MakeRoom(f, checked)
           IN  /\ \E k \in 0 .. Len(w) : room = SubSeq(w, k + 1, Len(w))
               /\ room \in Seq(S) /\ Len(room) + 1 <= PendingMax
               /\ Clean(room) /\ ToSet(room) \subseteq ToSet(w)
<1> DEFINE w == Whole(f)
<1> DEFINE room == MakeRoom(f, checked)
<1> DEFINE over == Len(w) + 1 - PendingMax
<1> DEFINE more == (PendingMax + 3) \div 4
<1>1. w \in Seq(S) /\ Len(w) \in Nat
  BY WholeIs, LenProperties
<1>2. PendingMax \in Nat \ {0} /\ more \in Nat
  BY BoundsAssumption
<1>3. (IF checked THEN f ELSE Whole(f)) = w
  OBVIOUS
<1>4. room = IF over > 0 THEN SubSeq(w, over + more + 1, Len(w)) ELSE w
  BY <1>3, ZenonT(30) DEF MakeRoom
<1>5. \E k \in 0 .. Len(w) : room = SubSeq(w, k + 1, Len(w)) /\ Len(w) - k + 1 <= PendingMax
  <2> HIDE DEF w, room, more
  <2>1. CASE over > 0 /\ over + more <= Len(w)
    <3>1. over + more \in 0 .. Len(w) /\ Len(w) - (over + more) + 1 <= PendingMax
      BY <1>1, <1>2, <2>1
    <3> QED
      BY <1>4, <2>1, <3>1
  <2>2. CASE over > 0 /\ ~(over + more <= Len(w))
    <3>1. /\ over + more + 1 \in Int /\ Len(w) \in Int /\ Len(w) + 1 \in Int
          /\ Len(w) < over + more + 1 /\ Len(w) < Len(w) + 1
      BY <1>1, <1>2, <2>2
    <3>2. SubSeq(w, over + more + 1, Len(w)) = <<>> /\ SubSeq(w, Len(w) + 1, Len(w)) = <<>>
      <4> HIDE DEF over
      <4>1. SubSeq(w, over + more + 1, Len(w)) = <<>>
        BY <3>1, SubSeqEmpty
      <4>2. SubSeq(w, Len(w) + 1, Len(w)) = <<>>
        BY <3>1, SubSeqEmpty
      <4> QED
        BY <4>1, <4>2
    <3>3. Len(w) \in 0 .. Len(w) /\ Len(w) - Len(w) + 1 <= PendingMax
      BY <1>1, <1>2
    <3> QED
      BY <1>4, <2>2, <3>2, <3>3
  <2>3. CASE ~(over > 0)
    <3>1. w = SubSeq(w, 0 + 1, Len(w))
      <4>1. w = SubSeq(w, 1, Len(w))
        BY <1>1, SubSeqFull
      <4> QED
        BY <4>1
    <3>2. 0 \in 0 .. Len(w) /\ Len(w) - 0 + 1 <= PendingMax
      BY <1>1, <1>2, <2>3
    <3> QED
      BY <1>4, <2>3, <3>1, <3>2
  <2> QED
    BY <2>1, <2>2, <2>3
<1>6. PICK k \in 0 .. Len(w) : room = SubSeq(w, k + 1, Len(w)) /\ Len(w) - k + 1 <= PendingMax
  BY <1>5
<1>7. room \in Seq(S) /\ Len(room) = Len(w) - k
  <2> DEFINE n == Len(w)
  <2>1. k \in Nat /\ n \in Nat /\ k <= n /\ n <= Len(w)
    BY <1>1
  <2> HIDE DEF n, w, room
  <2>2. SubSeq(w, k + 1, n) \in Seq(S) /\ Len(SubSeq(w, k + 1, n)) = n - k
    BY <1>1, <2>1, PartIs
  <2> QED
    BY <1>6, <2>2, ZenonT(30) DEF n
<1>8. Clean(room) /\ ToSet(room) \subseteq ToSet(w)
  <2> DEFINE n == Len(w)
  <2>1. k \in Nat /\ n \in Nat /\ n <= Len(w) /\ Clean(w)
    BY <1>1
  <2> HIDE DEF n, w, room
  <2>2. Clean(SubSeq(w, k + 1, n)) /\ ToSet(SubSeq(w, k + 1, n)) \subseteq ToSet(w)
    BY <1>1, <2>1, PartIsClean
  <2> QED
    BY <1>6, <2>2, ZenonT(30) DEF n
<1>9. Len(room) + 1 <= PendingMax
  <2> HIDE DEF w, room
  <2> QED
    BY <1>6, <1>7
<1> QED
  BY <1>6, <1>7, <1>8, <1>9

\* The file with room in it, with a row in it, and with the beginning of one in it.
LEMMA RoomIsClean ==
    ASSUME NEW S \in SUBSET Nat, NEW f \in Seq(S), Clean(f), Torn \in S
    PROVE  /\ Whole(f) = f /\ Readable(f) = ToSet(f)
           /\ Whole(Append(f, Torn)) = f /\ Append(f, Torn) \in Seq(S)
           /\ Len(Append(f, Torn)) = Len(f) + 1
<1>1. Whole(f) = f
  BY CleanIsWhole DEF Clean
<1>2. Readable(f) = ToSet(f)
  BY <1>1, ReadableIs
<1> QED
  BY <1>1, <1>2, TornEnd, AppendProperties

\* A torn row at the end of a chunk is at the end of the file.
LEMMA TornLine ==
    ASSUME NEW S, NEW l \in Seq(S), NEW x \in Seq(S), NEW t \in S
    PROVE  l \o Append(x, t) = Append(l \o x, t)
<1> DEFINE e == <<t>>
<1>1. Append(x, t) = x \o e /\ e \in Seq(S)
  BY AppendIsConcat
<1>2. l \o x \in Seq(S)
  BY ConcatProperties
<1>3. Append(l \o x, t) = (l \o x) \o e
  BY <1>2, AppendIsConcat
<1> HIDE DEF e
<1> QED
  BY <1>1, <1>3, ConcatAssociative

-----------------------------------------------------------------------------
(* What the operations on the process return.                               *)

\* A process with no flush under way, as seen by the invariant.
Resting(q) == q.pc \notin {"write", "sync", "replace"} /\ q.buf = <<>> /\ q.off = 0

\* A process that is not there is one, and is at rest.
LEMMA NobodyIs ==
    ASSUME NEW m
    PROVE  Nobody \in Procs(m) /\ Resting(Nobody) /\ Nobody.who = "none" /\ ~Nobody.checked
           /\ Nobody.pc = "idle"
<1>1. <<>> \in Seq(0 .. m)
  BY EmptySeq
<1> QED
  BY <1>1 DEF Nobody, Procs, Resting

\* A process stays one when more rows are made.
LEMMA ProcsGrow ==
    ASSUME NEW m \in Nat, NEW q \in Procs(m)
    PROVE  q \in Procs(m + 1)
<1>1. Seq(0 .. m) \subseteq Seq(0 .. m + 1)
  <2>1. 0 .. m \subseteq 0 .. m + 1
    OBVIOUS
  <2> QED
    BY <2>1, SeqMonotonic
<1> QED
  BY <1>1 DEF Procs

\* The process that begins a flush.
LEMMA FlushingIs ==
    ASSUME NEW m, NEW q \in Procs(m), NEW durable \in BOOLEAN,
           NEW then \in {"run", "poweroff", "exit"}, Resting(q)
    PROVE  LET r == Flushing(q, durable, then)
           IN  /\ r \in Procs(m) /\ Resting(r) /\ r.who = q.who /\ r.pc = "read"
               /\ r.checked = q.checked
BY DEF Flushing, Procs, Resting

\* The process after a row.
LEMMA AfterRowIs ==
    ASSUME NEW m, NEW q \in Procs(m), NEW urgent \in BOOLEAN, NEW last \in BOOLEAN, Resting(q)
    PROVE  LET r == AfterRow(q, urgent, last)
           IN  /\ r \in Procs(m) /\ Resting(r) /\ r.who = q.who /\ r.checked = q.checked
               /\ r.pc # "poweroff"
<1>1. CASE last
  <2>1. AfterRow(q, urgent, last) = Flushing(q, TRUE, "poweroff")
    BY <1>1 DEF AfterRow
  <2> QED
    BY <2>1, FlushingIs
<1>2. CASE urgent /\ ~last
  <2>1. AfterRow(q, urgent, last) = Flushing(q, FALSE, "run")
    BY <1>2 DEF AfterRow
  <2> QED
    BY <2>1, FlushingIs
<1>3. CASE ~last /\ ~urgent
  <2>1. AfterRow(q, urgent, last) = [q EXCEPT !.pc = "idle"]
    BY <1>3 DEF AfterRow
  <2> QED
    BY <2>1 DEF Procs, Resting
<1> QED
  BY <1>1, <1>2, <1>3

\* The process that has added a row, before it goes on.
LEMMA RowAddedIs ==
    ASSUME NEW m, NEW q \in Procs(m), NEW last \in BOOLEAN, Resting(q)
    PROVE  LET r == [q EXCEPT !.checked = TRUE, !.pendFailed = FALSE, !.due = TRUE,
                              !.shut = @ \/ last]
           IN  r \in Procs(m) /\ Resting(r) /\ r.who = q.who
BY DEF Procs, Resting

\* The process whose flush has ended.
LEMMA FlushedIs ==
    ASSUME NEW m, p \in Procs(m), NEW failed \in BOOLEAN
    PROVE  LET r == Flushed(failed)
           IN  /\ r \in Procs(m) /\ Resting(r)
               /\ r = Nobody \/ r.who = p.who
               /\ r = Nobody \/ (r.checked = p.checked /\ r.logFailed = failed)
<1> DEFINE q == [p EXCEPT !.buf = <<>>, !.off = 0, !.failed = FALSE, !.durable = FALSE,
                          !.logFailed = failed, !.due = failed]
<1>1. <<>> \in Seq(0 .. m)
  BY EmptySeq
<1>2. /\ q \in Procs(m) /\ q.buf = <<>> /\ q.off = 0 /\ q.who = p.who
      /\ q.checked = p.checked /\ q.logFailed = failed
  BY <1>1 DEF Procs
<1> HIDE DEF q
<1>3. Flushed(failed) \in {Nobody, [q EXCEPT !.pc = "poweroff", !.then = "run"],
                           [q EXCEPT !.pc = "idle", !.then = "run"]}
  BY Zenon DEF Flushed, q
<1>4. CASE Flushed(failed) = Nobody
  BY <1>4, NobodyIs
<1>5. CASE Flushed(failed) = [q EXCEPT !.pc = "poweroff", !.then = "run"]
  BY <1>2, <1>5 DEF Procs, Resting
<1>6. CASE Flushed(failed) = [q EXCEPT !.pc = "idle", !.then = "run"]
  BY <1>2, <1>6 DEF Procs, Resting
<1> QED
  BY <1>3, <1>4, <1>5, <1>6

\* Where the loop over a batch goes on.
LEMMA OnwardIs ==
    ASSUME NEW m \in Nat, NEW q \in Procs(m), q.off <= Len(q.buf)
    PROVE  LET r == Onward(q)
           IN  /\ r \in Procs(m) /\ r.buf = q.buf /\ r.off = q.off /\ r.who = q.who
               /\ r.checked = q.checked
               /\ \/ r.pc = "write" /\ q.off < Len(q.buf)
                  \/ r.pc \in {"sync", "replace"} /\ q.off = Len(q.buf)
<1>1. q.off \in Nat /\ Len(q.buf) \in Nat
  BY LenProperties DEF Procs
<1>2. CASE q.off < Len(q.buf)
  <2>1. Onward(q) = [q EXCEPT !.pc = "write"]
    BY <1>2 DEF Onward
  <2> QED
    BY <1>2, <2>1 DEF Procs
<1>3. CASE q.off = Len(q.buf)
  <2>1. ~(q.off < Len(q.buf))
    BY <1>1, <1>3
  <2>2. Onward(q) \in {[q EXCEPT !.pc = "sync"], [q EXCEPT !.pc = "replace"]}
    BY <1>3, <2>1, ZenonT(30) DEF Onward
  <2>3. CASE Onward(q) = [q EXCEPT !.pc = "sync"]
    BY <1>3, <2>3 DEF Procs
  <2>4. CASE Onward(q) = [q EXCEPT !.pc = "replace"]
    BY <1>3, <2>4 DEF Procs
  <2> QED
    BY <2>2, <2>3, <2>4
<1> QED
  BY <1>1, <1>2, <1>3

\* What of log.pending is unwritten when no flush has written any of it.
LEMMA NothingWritten ==
    ASSUME NEW S, NEW f \in Seq(S)
    PROVE  SubSeq(f, 0 + 1, Len(f)) = f
<1>1. SubSeq(f, 1, Len(f)) = f
  BY SubSeqFull
<1> QED
  BY <1>1

-----------------------------------------------------------------------------
(* Steps that have much in common.                                          *)

\* What the invariant says of the rows at hand, in the form the steps use.
LEMMA StateIs ==
    ASSUME IInv
    PROVE  /\ Lines \in SUBSET Nat /\ Torn \in Lines /\ made \in Nat
           /\ Whole(pend) \in Seq(Lines) /\ Len(Whole(pend)) \in Nat
           /\ Readable(pend) = ToSet(Whole(pend)) /\ p.off \in Nat
           /\ p.off = 0 => Unwritten = Whole(pend)
           /\ sys = "off" => p = Nobody
<1>1. pend \in Seq(Lines) /\ made \in Nat /\ p.off \in Nat
  BY BoundsAssumption DEF IInv, Typed, Procs
<1>2. Lines \in SUBSET Nat /\ Torn \in Lines
  BY <1>1 DEF Lines, Torn
<1>3. Whole(pend) \in Seq(Lines)
  BY <1>1, WholeIs
<1>4. Readable(pend) = ToSet(Whole(pend))
  BY <1>1, ReadableIs DEF IInv, FilesOk
<1>5. SubSeq(Whole(pend), 0 + 1, Len(Whole(pend))) = Whole(pend)
  BY <1>3, NothingWritten
<1> QED
  BY <1>1, <1>2, <1>3, <1>4, <1>5, LenProperties DEF Unwritten, IInv, ProcessOk

\* Only rows that were made can be read in a file.
LEMMA ReadableMade ==
    ASSUME NEW f \in Seq(Lines), made \in Nat
    PROVE  Readable(f) \subseteq 1 .. made
<1>1. Readable(f) \subseteq Lines \ {Torn}
  BY ReadableIsIn
<1> QED
  BY <1>1 DEF Lines, Torn

\* While no file changes, and a flush neither goes on nor is given up on, what the files owe
\* to the rows stays.
LEMMA FilesStay ==
    ASSUME IInv, UNCHANGED <<pend, log, old, made, gone, cuts>>, p'.off = p.off
    PROVE  FilesOk'
<1>1. Unwritten' = Unwritten
  BY DEF Unwritten
<1>2. Accounted'
  BY DEF IInv, FilesOk, Accounted, Waiting, Logged
<1> QED
  BY <1>1, <1>2 DEF IInv, FilesOk

\* A step that leaves the files alone, from and to a process with no row of a flush written.
LEMMA RestingStep ==
    ASSUME IInv, UNCHANGED <<pend, log, old, made, gone, cuts>>, p.off = 0,
           p' \in Procs(made), Resting(p'), p'.checked => p.checked,
           p'.pc = "poweroff" /\ ~p'.logFailed => pend = <<>>,
           p'.who = "none" => p' = Nobody, sys' = "off" => p'.who = "none",
           safe' \in SUBSET (1 .. made), sys' \in {"up", "stopping", "off"}, left' \in BOOLEAN,
           faults' \in Nat, kills' \in Nat, StopKeepsRows'
    PROVE  IInv'
<1>1. FilesOk'
  BY FilesStay DEF Resting
<1>2. Typed'
  BY DEF IInv, Typed, Lines
<1>3. BatchIsPending'
  BY DEF BatchIsPending, Batching, Resting
<1>4. ProcessOk'
  BY DEF IInv, ProcessOk
<1> QED
  BY <1>1, <1>2, <1>3, <1>4 DEF IInv

\* A step that leaves the files alone and goes on with a flush.
LEMMA RunningStep ==
    ASSUME IInv, UNCHANGED <<pend, log, old, made, gone, cuts, sys, kills>>,
           p' \in Procs(made), p'.buf = Whole(pend), p'.off = p.off,
           p.off <= Len(Whole(pend)),
           \/ p'.pc = "write" /\ p.off < Len(Whole(pend))
           \/ p'.pc \in {"sync", "replace"} /\ p.off = Len(Whole(pend))
           \/ p'.pc = "replace" /\ p'.failed,
           p'.checked = p.checked, p'.who = p.who, p.who # "none",
           safe' \in SUBSET (1 .. made), left' \in BOOLEAN, faults' \in Nat
    PROVE  IInv'
<1>1. FilesOk'
  BY FilesStay
<1>2. Typed'
  BY DEF IInv, Typed, Lines
<1>3. BatchIsPending'
  <2>1. \A i \in 1 .. p.off : Whole(pend)[i] \in Logged \cup gone
    <3>1. CASE Batching
      BY <3>1 DEF IInv, BatchIsPending
    <3>2. CASE ~Batching
      <4>1. p.off = 0
        BY <3>2 DEF IInv, BatchIsPending
      <4> QED
        BY <4>1
    <3> QED
      BY <3>1, <3>2
  <2>2. (Logged \cup gone)' = Logged \cup gone
    BY DEF Logged
  <2>3. \A i \in 1 .. p'.off : p'.buf[i] \in Logged' \cup gone'
    BY <2>1, <2>2
  <2>4. p'.off <= Len(p'.buf) /\ p'.buf = Whole(pend)' /\ Batching'
    BY DEF Batching
  <2> QED
    BY <2>3, <2>4 DEF BatchIsPending, Batching
<1>4. sys # "off"
  BY DEF IInv, ProcessOk
<1>5. ProcessOk'
  BY <1>4 DEF IInv, ProcessOk
<1>6. StopKeepsRows'
  BY <1>4 DEF StopKeepsRows
<1> QED
  BY <1>1, <1>2, <1>3, <1>5, <1>6 DEF IInv

\* A flush ends, or its write, with rows up to b logged and still pending, and maybe a torn
\* one behind them.
LEMMA CutFiles ==
    ASSUME IInv, Batching, NEW b \in Nat, p.off <= b, b <= Len(Whole(pend)),
           NEW torn \in BOOLEAN, UNCHANGED <<pend, old, made, gone>>, cuts' = cuts + 1,
           p'.off \in {0, p.off},
           log'.rows = LET x == log.rows \o SubSeq(Whole(pend), p.off + 1, b)
                       IN  IF torn THEN Append(x, Torn) ELSE x
    PROVE  /\ FilesOk' /\ log'.rows \in Seq(Lines)
           /\ Logged \cup gone \subseteq (Logged \cup gone)'
           /\ Len(log'.rows) = Len(log.rows) + (b - p.off) + (IF torn THEN 1 ELSE 0)
<1> DEFINE w == Whole(pend)
<1> DEFINE x == SubSeq(w, p.off + 1, b)
<1>1. /\ Lines \in SUBSET Nat /\ Torn \in Lines /\ made \in Nat
      /\ w \in Seq(Lines) /\ Len(w) \in Nat /\ p.off \in Nat
  BY StateIs
<1>2. /\ old \in Seq(Lines) /\ log.rows \in Seq(Lines) /\ cuts \in Nat /\ Clean(w)
      /\ Repeated(old, log.rows, Unwritten, cuts, made) /\ Accounted
  BY DEF IInv, Typed, FilesOk
<1>3. x \in Seq(Lines) /\ Len(x) = b - p.off
  <2> DEFINE a == p.off
  <2>1. a \in Nat /\ a <= b /\ b <= Len(w)
    BY <1>1
  <2> HIDE DEF w, a
  <2>2. SubSeq(w, a + 1, b) \in Seq(Lines) /\ Len(SubSeq(w, a + 1, b)) = b - a
    BY <1>1, <2>1, PartIs
  <2> QED
    BY <2>2, ZenonT(30) DEF a
<1>4. log.rows \o x \in Seq(Lines) /\ Len(log.rows \o x) = Len(log.rows) + Len(x)
  BY <1>2, <1>3, ConcatProperties
<1>5. log'.rows = IF torn THEN Append(log.rows \o x, Torn) ELSE log.rows \o x
  OBVIOUS
<1>6. Repeated(old, log.rows, SubSeq(w, p.off + 1, Len(w)), cuts, made)
  BY <1>2 DEF Unwritten
<1>7. Repeated(old, log'.rows, SubSeq(w, p'.off + 1, Len(w)), cuts + 1, made)
  <2> DEFINE a == p.off
  <2> DEFINE k == p'.off
  <2>1. a \in Nat /\ k \in {0, a} /\ a <= b /\ b <= Len(w)
    BY <1>1
  <2>2. Repeated(old, log.rows, SubSeq(w, a + 1, Len(w)), cuts, made)
    BY <1>6
  <2>3. log'.rows = IF torn THEN Append(log.rows \o SubSeq(w, a + 1, b), Torn)
                            ELSE log.rows \o SubSeq(w, a + 1, b)
    BY <1>5
  <2> HIDE DEF a, k, w, x
  <2>4. Repeated(old, IF torn THEN Append(log.rows \o SubSeq(w, a + 1, b), Torn)
                              ELSE log.rows \o SubSeq(w, a + 1, b),
                 SubSeq(w, k + 1, Len(w)), cuts + 1, made)
    BY <1>1, <1>2, <2>1, <2>2, CutRepeats DEF Lines
  <2> QED
    BY <2>3, <2>4, ZenonT(30) DEF k
<1>8. Repeated(old, log.rows, Unwritten, cuts, made)'
  BY <1>7 DEF Unwritten
<1> HIDE DEF x, w
<1>9. /\ log'.rows \in Seq(Lines) /\ Readable(log.rows) \subseteq Readable(log'.rows)
      /\ Len(log'.rows) = Len(log.rows \o x) + (IF torn THEN 1 ELSE 0)
  <2> DEFINE n == log.rows \o x
  <2>1. Readable(log.rows) \subseteq Readable(n)
    BY <1>2, <1>3, ReadableBehind
  <2>2. n \in Seq(Lines)
    BY <1>4
  <2>3. log'.rows = IF torn THEN Append(n, Torn) ELSE n
    BY <1>5
  <2> HIDE DEF n
  <2>4. /\ Append(n, Torn) \in Seq(Lines) /\ Len(Append(n, Torn)) = Len(n) + 1
        /\ Append(n, Torn) = n \o <<Torn>> /\ <<Torn>> \in Seq(Lines)
    BY <1>1, <2>2, AppendProperties, AppendIsConcat
  <2>5. Readable(n) \subseteq Readable(Append(n, Torn))
    BY <2>2, <2>4, ReadableBehind
  <2>6. Len(n) \in Nat
    BY <2>2, LenProperties
  <2>7. CASE torn
    BY <2>1, <2>3, <2>4, <2>5, <2>7 DEF n
  <2>8. CASE ~torn
    <3>1. log'.rows = n
      BY <2>3, <2>8, ZenonT(30)
    <3>4. Len(n) = Len(n) + 0
      BY <2>6
    <3>2. /\ log'.rows \in Seq(Lines) /\ Readable(log.rows) \subseteq Readable(log'.rows)
      BY <2>1, <2>2, <3>1
    <3>3. Len(log'.rows) = Len(n) + (IF torn THEN 1 ELSE 0)
      BY <2>8, <3>1, <3>4, ZenonT(30)
    <3> QED
      BY <3>2, <3>3 DEF n
  <2> QED
    BY <2>7, <2>8
<1>10. Logged \cup gone \subseteq (Logged \cup gone)'
  BY <1>9 DEF Logged
<1>11. Accounted'
  BY <1>2, <1>10 DEF Accounted, Waiting
<1>12. Clean(Whole(pend))'
  BY <1>2 DEF w
<1>13. Len(log'.rows) = Len(log.rows) + (b - p.off) + (IF torn THEN 1 ELSE 0)
  BY <1>3, <1>4, <1>9
<1> QED
  BY <1>8, <1>9, <1>10, <1>11, <1>12, <1>13 DEF FilesOk

-----------------------------------------------------------------------------
(* The steps that change no file.                                           *)

\* A process that is in no flush has written nothing of one.
LEMMA AtRest ==
    ASSUME IInv, ~Batching
    PROVE  Resting(p) /\ p.off = 0 /\ p \in Procs(made)
BY DEF IInv, Typed, BatchIsPending, Batching, Resting

\* An unfinished system stays owed its rows.
LEMMA NotOff ==
    ASSUME IInv, p.who # "none" \/ p.pc # "idle" \/ sys # "off", sys' # "off" \/ sys' = sys
    PROVE  sys # "off" /\ sys' # "off" /\ StopKeepsRows'
<1>1. sys # "off"
  BY NobodyIs DEF IInv, ProcessOk
<1> QED
  BY <1>1 DEF StopKeepsRows

\* The supervisor starts powerd.
LEMMA StepStart ==
    ASSUME IInv, Start
    PROVE  IInv'
<1> DEFINE q == [Nobody EXCEPT !.who = "powerd", !.pc = "start"]
<1>1. p = Nobody /\ sys = "up" /\ p.off = 0
  BY NobodyIs DEF IInv, ProcessOk, Start, Resting
<1>2. q \in Procs(made) /\ Resting(q) /\ q.who = "powerd" /\ ~q.checked /\ q.pc = "start"
  <2>1. Nobody \in Procs(made) /\ Resting(Nobody) /\ ~Nobody.checked
    BY NobodyIs
  <2> QED
    BY <2>1 DEF Procs, Resting
<1>3. p' \in {q, Flushing(q, FALSE, "run")}
  BY Zenon DEF Start
<1> HIDE DEF q
<1>4. /\ p' \in Procs(made) /\ Resting(p') /\ p'.who = "powerd" /\ ~p'.checked
      /\ p'.pc # "poweroff"
  <2>1. CASE p' = q
    BY <1>2, <2>1
  <2>2. CASE p' = Flushing(q, FALSE, "run")
    <3> DEFINE r == Flushing(q, FALSE, "run")
    <3>1. /\ r \in Procs(made) /\ Resting(r) /\ r.who = q.who /\ r.pc = "read"
          /\ r.checked = q.checked
      BY <1>2, FlushingIs
    <3> HIDE DEF r
    <3>2. p' = r
      BY <2>2 DEF r
    <3> QED
      BY <1>2, <3>1, <3>2
  <2> QED
    BY <1>3, <2>1, <2>2
<1>5. StopKeepsRows'
  BY <1>1, NotOff DEF Start
<1>6. /\ UNCHANGED <<pend, log, old, made, gone, cuts, sys, safe, left, faults, kills>>
      /\ safe \in SUBSET (1 .. made) /\ left \in BOOLEAN /\ faults \in Nat /\ kills \in Nat
      /\ sys # "off" /\ sys \in {"up", "stopping", "off"}
  BY <1>1 DEF Start, files, history, IInv, Typed
<1> QED
  BY <1>1, <1>4, <1>5, <1>6, RestingStep

\* A flush begins, at a signal or when it is due.
LEMMA StepFlushing ==
    ASSUME IInv, p.who = "powerd", p.pc = "idle", NEW durable \in BOOLEAN,
           NEW then \in {"run", "poweroff", "exit"}, p' = Flushing(p, durable, then),
           UNCHANGED <<files, safe, sys, left, history, faults, kills>>
    PROVE  IInv'
<1>1. Resting(p) /\ p.off = 0 /\ p \in Procs(made)
  BY AtRest DEF Batching
<1>2. /\ p' \in Procs(made) /\ Resting(p') /\ p'.who = "powerd" /\ p'.checked = p.checked
      /\ p'.pc # "poweroff"
  BY <1>1, FlushingIs
<1>3. StopKeepsRows' /\ sys # "off"
  BY NotOff
<1>4. /\ UNCHANGED <<pend, log, old, made, gone, cuts, sys, safe, left, faults, kills>>
      /\ safe \in SUBSET (1 .. made) /\ left \in BOOLEAN /\ faults \in Nat /\ kills \in Nat
      /\ sys \in {"up", "stopping", "off"}
  BY DEF files, history, IInv, Typed
<1> QED
  BY <1>1, <1>2, <1>3, <1>4, RestingStep

\* The shutdown command runs: a sync, and init begins to stop the system.
LEMMA StepPowerOff ==
    ASSUME IInv, PowerOff
    PROVE  IInv'
<1>1. Resting(p) /\ p.off = 0 /\ p \in Procs(made) /\ p.pc = "poweroff"
  BY AtRest DEF Batching, PowerOff
<1>2. p.who # "none"
  BY <1>1, NobodyIs DEF IInv, ProcessOk
<1>3. /\ p' \in Procs(made) /\ Resting(p') /\ p'.who = p.who /\ p'.checked = p.checked
      /\ p'.pc = "idle"
  BY <1>1 DEF PowerOff, Procs, Resting
<1>4. StopKeepsRows' /\ sys' = "stopping"
  BY DEF PowerOff, StopKeepsRows
<1>5. /\ UNCHANGED <<pend, log, old, made, gone, cuts, left, faults, kills>>
      /\ left \in BOOLEAN /\ faults \in Nat /\ kills \in Nat
  BY DEF PowerOff, files, history, IInv, Typed
<1>6. safe' \in SUBSET (1 .. made)
  <2>1. log.rows \in Seq(Lines) /\ old \in Seq(Lines) /\ safe \in SUBSET (1 .. made)
    BY DEF IInv, Typed
  <2>2. Readable(log.rows) \subseteq 1 .. made /\ Readable(old) \subseteq 1 .. made
    BY <2>1, StateIs, ReadableMade
  <2> QED
    BY <2>1, <2>2 DEF PowerOff, history
<1> QED
  BY <1>1, <1>2, <1>3, <1>4, <1>5, <1>6, RestingStep

\* Somebody else shuts the system down; whatever powerd is doing, it goes on.
LEMMA StepStopping ==
    ASSUME IInv, Stopping
    PROVE  IInv'
<1>1. UNCHANGED <<pend, log, old, made, gone, cuts, p, safe, left, faults, kills>>
  BY DEF Stopping, files, history
<1>2. sys' = "stopping" /\ StopKeepsRows'
  BY DEF Stopping, StopKeepsRows
<1>3. FilesOk'
  BY <1>1, FilesStay
<1>4. Typed'
  BY <1>1, <1>2 DEF IInv, Typed, Lines
<1>5. BatchIsPending'
  BY <1>1 DEF IInv, BatchIsPending, Batching, Logged
<1>6. ProcessOk'
  BY <1>1, <1>2 DEF IInv, ProcessOk
<1> QED
  BY <1>2, <1>3, <1>4, <1>5, <1>6 DEF IInv

\* chef-state runs the flush of what is left.
LEMMA StepFlushTool ==
    ASSUME IInv, FlushTool
    PROVE  IInv'
<1> DEFINE q == [Nobody EXCEPT !.who = "tool"]
<1>1. p = Nobody /\ sys = "stopping" /\ p.off = 0
  BY NobodyIs DEF IInv, ProcessOk, FlushTool, ToolNeeded, Resting
<1>2. q \in Procs(made) /\ Resting(q) /\ q.who = "tool" /\ ~q.checked
  <2>1. Nobody \in Procs(made) /\ Resting(Nobody) /\ ~Nobody.checked
    BY NobodyIs
  <2> QED
    BY <2>1 DEF Procs, Resting
<1>3. p' = Flushing(q, TRUE, "exit")
  BY DEF FlushTool
<1> HIDE DEF q
<1>4. /\ p' \in Procs(made) /\ Resting(p') /\ p'.who = "tool" /\ ~p'.checked
      /\ p'.pc # "poweroff"
  <2> DEFINE r == Flushing(q, TRUE, "exit")
  <2>1. /\ r \in Procs(made) /\ Resting(r) /\ r.who = q.who /\ r.pc = "read"
        /\ r.checked = q.checked
    BY <1>2, FlushingIs
  <2> HIDE DEF r
  <2>2. p' = r
    BY <1>3 DEF r
  <2> QED
    BY <1>2, <2>1, <2>2
<1>5. /\ UNCHANGED <<pend, log, old, made, gone, cuts, sys, safe, left, faults, kills>>
      /\ safe \in SUBSET (1 .. made) /\ left \in BOOLEAN /\ faults \in Nat /\ kills \in Nat
      /\ sys \in {"up", "stopping", "off"}
  BY DEF FlushTool, files, history, IInv, Typed
<1>6. StopKeepsRows'
  BY <1>1, <1>5, NotOff
<1> QED
  BY <1>1, <1>4, <1>5, <1>6, RestingStep

-----------------------------------------------------------------------------
(* The steps that change log.pending, but for the end of a flush.           *)

\* A step of a process at rest that changes log.pending alone, where no row is lost unnoted.
LEMMA PendStep ==
    ASSUME IInv, p.off = 0, sys # "off", UNCHANGED <<log, old, safe, sys, cuts>>,
           made' \in {made, made + 1}, made' <= MaxRows,
           pend' \in Seq(0 .. made'), Len(pend') <= PendingMax, Clean(Whole(pend')),
           gone' \in SUBSET (1 .. made'), gone \subseteq gone',
           Readable(pend) \subseteq Readable(pend') \cup gone',
           1 .. made' \subseteq (1 .. made) \cup Readable(pend') \cup gone',
           Repeated(old, log.rows, Whole(pend'), cuts, made'),
           p' \in Procs(made'), Resting(p'), p'.pc # "poweroff",
           p'.who = "none" => p' = Nobody, p'.checked => pend' = Whole(pend'),
           left' \in BOOLEAN, faults' \in Nat, kills' \in Nat
    PROVE  IInv'
<1>1. made \in Nat /\ made' \in Nat /\ made' \in 0 .. MaxRows
  BY BoundsAssumption, StateIs
<1>2. Typed'
  <2>1. Lines \subseteq 0 .. made'
    BY <1>1 DEF Lines
  <2>2. /\ log.head \in Heads /\ log.rows \in Seq(Lines) /\ old \in Seq(Lines)
        /\ log = [head |-> log.head, rows |-> log.rows]
    BY DEF IInv, Typed
  <2>3. log.rows \in Seq(0 .. made') /\ old \in Seq(0 .. made')
    <3>1. log.rows \in Seq(0 .. made')
      BY <2>1, <2>2, SeqMonotonic
    <3>2. old \in Seq(0 .. made')
      BY <2>1, <2>2, SeqMonotonic
    <3> QED
      BY <3>1, <3>2
  <2>4. log \in [head : Heads, rows : Seq(0 .. made')]
    BY <2>2, <2>3
  <2>5. safe \in SUBSET (1 .. made')
    BY <1>1 DEF IInv, Typed
  <2> QED
    BY <1>1, <2>3, <2>4, <2>5 DEF IInv, Typed, Lines
<1>3. BatchIsPending'
  BY DEF BatchIsPending, Batching, Resting
<1>4. ProcessOk'
  BY DEF ProcessOk
<1>5. FilesOk'
  <2>1. SubSeq(Whole(pend'), 0 + 1, Len(Whole(pend'))) = Whole(pend')
    <3>1. Whole(pend') \in Seq(0 .. made')
      BY WholeIs
    <3> QED
      BY <3>1, NothingWritten
  <2>2. Unwritten' = Whole(pend')
    BY <2>1 DEF Unwritten, Resting
  <2>3. Accounted'
    BY DEF IInv, FilesOk, Accounted, Waiting, Logged
  <2> QED
    BY <2>2, <2>3 DEF FilesOk
<1>6. StopKeepsRows'
  BY DEF StopKeepsRows
<1> QED
  BY <1>2, <1>3, <1>4, <1>5, <1>6 DEF IInv

\* The file of a process at rest, with room in it.
LEMMA Room ==
    ASSUME IInv, p.off = 0, Torn \in Lines
    PROVE  LET room == MakeRoom(pend, p.checked)
           IN  /\ room \in Seq(Lines) /\ Len(room) + 1 <= PendingMax
               /\ Clean(room) /\ Readable(room) = ToSet(room) /\ Whole(room) = room
               /\ Repeated(old, log.rows, room, cuts, made)
               /\ Append(room, Torn) \in Seq(Lines) /\ Whole(Append(room, Torn)) = room
               /\ Len(Append(room, Torn)) = Len(room) + 1
<1> DEFINE w == Whole(pend)
<1> DEFINE room == MakeRoom(pend, p.checked)
<1>1. /\ Lines \in SUBSET Nat /\ pend \in Seq(Lines) /\ Clean(w) /\ p.checked \in BOOLEAN
      /\ p.checked => pend = w
  BY StateIs DEF IInv, Typed, FilesOk, ProcessOk, Procs
<1>2. /\ \E k \in 0 .. Len(w) : room = SubSeq(w, k + 1, Len(w))
      /\ room \in Seq(Lines) /\ Len(room) + 1 <= PendingMax
      /\ Clean(room) /\ ToSet(room) \subseteq ToSet(w)
  BY <1>1, MakeRoomIs
<1>3. PICK k \in 0 .. Len(w) : room = SubSeq(w, k + 1, Len(w))
  BY <1>2
<1>4. /\ old \in Seq(Lines) /\ log.rows \in Seq(Lines) /\ cuts \in Nat /\ made \in Nat
      /\ Repeated(old, log.rows, w, cuts, made) /\ w \in Seq(Lines) /\ Len(w) \in Nat
  BY StateIs DEF IInv, Typed, FilesOk
<1> HIDE DEF w, room
<1>5. Repeated(old, log.rows, room, cuts, made)
  <2>1. k \in Nat /\ k <= Len(w)
    BY <1>4
  <2>2. Repeated(old, log.rows, SubSeq(w, k + 1, Len(w)), cuts, made)
    BY <1>4, <2>1, DropRepeats DEF Lines
  <2> QED
    BY <1>3, <2>2
<1>6. /\ Whole(room) = room /\ Readable(room) = ToSet(room)
      /\ Whole(Append(room, Torn)) = room /\ Append(room, Torn) \in Seq(Lines)
      /\ Len(Append(room, Torn)) = Len(room) + 1
  BY <1>1, <1>2, RoomIsClean
<1> QED
  BY <1>2, <1>5, <1>6 DEF room

\* powerd makes a row, and adds it to log.pending or fails to.
LEMMA StepLogRow ==
    ASSUME IInv, NEW urgent \in BOOLEAN, NEW last \in BOOLEAN, LogRow(urgent, last)
    PROVE  IInv'
<1> DEFINE room == MakeRoom(pend, p.checked)
<1> DEFINE m == made + 1
<1>1. /\ Resting(p) /\ p.off = 0 /\ p \in Procs(made) /\ p.who = "powerd"
      /\ made' = m /\ made < MaxRows
      /\ UNCHANGED <<log, old, safe, sys, left, cuts, kills>>
  BY AtRest DEF LogRow, Batching
<1>2. sys # "off"
  BY <1>1, NotOff
<1>3. /\ Torn \in Lines /\ Lines \in SUBSET Nat /\ made \in Nat /\ pend \in Seq(Lines)
      /\ Whole(pend) \in Seq(Lines) /\ Clean(Whole(pend))
      /\ left \in BOOLEAN /\ faults \in Nat /\ kills \in Nat /\ gone \in SUBSET (1 .. made)
      /\ p.off = 0 => Unwritten = Whole(pend)
      /\ Len(pend) <= PendingMax /\ (p.checked => pend = Whole(pend))
      /\ old \in Seq(Lines) /\ log.rows \in Seq(Lines) /\ cuts \in Nat
      /\ Repeated(old, log.rows, Unwritten, cuts, made)
  BY StateIs DEF IInv, Typed, FilesOk, ProcessOk
<1>4. /\ room \in Seq(Lines) /\ Len(room) + 1 <= PendingMax
      /\ Clean(room) /\ Readable(room) = ToSet(room) /\ Whole(room) = room
      /\ Repeated(old, log.rows, room, cuts, made)
      /\ Append(room, Torn) \in Seq(Lines) /\ Whole(Append(room, Torn)) = room
      /\ Len(Append(room, Torn)) = Len(room) + 1
  BY <1>1, <1>3, Room
<1>5. p \in Procs(m)
  BY <1>1, <1>3, ProcsGrow
<1>6. /\ m \in Nat /\ m \notin Lines /\ m # Torn /\ m <= MaxRows
      /\ Lines \subseteq 0 .. m /\ 0 .. m \in SUBSET Nat /\ 1 .. made \subseteq 1 .. m
      /\ m \in 1 .. m /\ m \in 0 .. m /\ 1 .. m \subseteq (1 .. made) \cup {m}
      /\ Lines \ {Torn} \subseteq 1 .. m
  BY <1>1, <1>3, BoundsAssumption DEF Lines, Torn
<1>7. Readable(pend) \subseteq 1 .. m
  <2>1. Readable(pend) \subseteq Lines \ {Torn}
    BY <1>3, ReadableIsIn
  <2> QED
    BY <1>6, <2>1
<1> HIDE DEF room
<1>8. CASE /\ pend' = Append(room, made')
           /\ p' = AfterRow([p EXCEPT !.checked = TRUE, !.pendFailed = FALSE, !.due = TRUE,
                                      !.shut = @ \/ last], urgent, last)
           /\ gone' = gone \cup (Readable(pend) \ Readable(room))
           /\ UNCHANGED faults
  <2>1. pend' = Append(room, m)
    BY <1>1, <1>8
  <2> HIDE DEF m
  <2>2. room \in Seq(0 .. m) /\ \A i \in DOMAIN room : room[i] < m
    <3>1. room \in Seq(0 .. m)
      BY <1>4, <1>6, SeqMonotonic
    <3>2. ASSUME NEW i \in DOMAIN room PROVE room[i] < m
      <4>1. room[i] \in Lines
        BY <1>4, ElementOfSeq, LenProperties
      <4> QED
        BY <1>3, <4>1 DEF m, Lines
    <3> QED
      BY <3>1, <3>2
  <2>3. Clean(pend') /\ ToSet(pend') = ToSet(room) \cup {m}
    BY <1>4, <1>6, <2>1, <2>2, RowBehind
  <2>4. pend' \in Seq(0 .. m) /\ Len(pend') = Len(room) + 1
    BY <1>6, <2>1, <2>2, AppendProperties
  <2>5. Whole(pend') = pend' /\ Readable(pend') = ToSet(pend')
    <3>1. Whole(pend') = pend'
      BY <2>3, <2>4, CleanIsWhole DEF Clean
    <3> QED
      BY <2>3, <2>4, <3>1, ReadableIs
  <2>6. Repeated(old, log.rows, Append(room, m), cuts, m)
    BY <1>3, <1>4, AddRepeats DEF Lines, m
  <2>7. p' \in Procs(m) /\ Resting(p') /\ p'.pc # "poweroff" /\ p'.who = "powerd"
    <3> DEFINE q == [p EXCEPT !.checked = TRUE, !.pendFailed = FALSE, !.due = TRUE,
                              !.shut = @ \/ last]
    <3>1. q \in Procs(m) /\ Resting(q) /\ q.who = "powerd"
      BY <1>1, <1>5, RowAddedIs
    <3>2. p' = AfterRow(q, urgent, last)
      BY <1>8
    <3> HIDE DEF q
    <3> QED
      BY <3>1, <3>2, AfterRowIs
  <2>8. gone' \in SUBSET (1 .. m) /\ gone \subseteq gone'
        /\ Readable(pend) \subseteq Readable(pend') \cup gone'
        /\ 1 .. m \subseteq (1 .. made) \cup Readable(pend') \cup gone'
    BY <1>3, <1>4, <1>6, <1>7, <1>8, <2>3, <2>5
  <2>9. faults' \in Nat /\ kills' \in Nat /\ left' \in BOOLEAN
    BY <1>1, <1>3, <1>8
  <2>10. Len(pend') <= PendingMax /\ Clean(Whole(pend'))
    BY <1>4, <2>3, <2>4, <2>5
  <2>11. made' = m /\ made' \in {made, made + 1}
    BY <1>1 DEF m
  <2>12. Repeated(old, log.rows, Whole(pend'), cuts, m)
    BY <2>1, <2>5, <2>6
  <2> QED
    BY <1>1, <1>2, <1>6, <2>4, <2>5, <2>7, <2>8, <2>9, <2>10, <2>11, <2>12, PendStep
<1>9. ASSUME Fault, NEW add \in AddFailed(pend, p.checked), pend' = add[1],
             p' = AfterRow([p EXCEPT !.checked = add[2], !.pendFailed = TRUE,
                                     !.shut = @ \/ last], urgent, last),
             gone' = gone \cup {made'} \cup (Readable(pend) \ Readable(add[1]))
      PROVE  IInv'
  <2>1. add \in {<<pend, p.checked>>, <<room, TRUE>>, <<Append(room, Torn), FALSE>>}
    BY <1>9 DEF AddFailed, room
  <2>2. /\ pend' \in Seq(Lines) /\ Len(pend') <= PendingMax /\ Clean(Whole(pend'))
        /\ add[2] \in BOOLEAN /\ (add[2] => pend' = Whole(pend'))
        /\ Repeated(old, log.rows, Whole(pend'), cuts, made)
    <3>1. CASE add = <<pend, p.checked>>
      <4>1. pend' = pend /\ add[2] = p.checked /\ p.checked \in BOOLEAN
        BY <1>1, <1>9, <3>1 DEF Procs
      <4> QED
        BY <1>1, <1>3, <4>1
    <3>2. CASE add = <<room, TRUE>>
      <4>1. pend' = room /\ add[2] = TRUE
        BY <1>9, <3>2
      <4>2. Len(room) <= PendingMax
        BY <1>4, LenProperties, BoundsAssumption
      <4> QED
        BY <1>4, <4>1, <4>2
    <3>3. CASE add = <<Append(room, Torn), FALSE>>
      <4>1. pend' = Append(room, Torn) /\ add[2] = FALSE
        BY <1>9, <3>3
      <4>2. Len(Append(room, Torn)) <= PendingMax
        BY <1>4
      <4> QED
        BY <1>4, <4>1, <4>2
    <3> QED
      BY <2>1, <3>1, <3>2, <3>3
  <2>3. pend' \in Seq(0 .. m)
    BY <1>6, <2>2, SeqMonotonic
  <2>4. Repeated(old, log.rows, Whole(pend'), cuts, m)
    <3>1. Whole(pend') \in Seq(Lines)
      BY <2>2, WholeIs
    <3> QED
      BY <1>3, <2>2, <3>1, LoseRepeats DEF Lines
  <2> HIDE DEF m
  <2>5. /\ p' \in Procs(m) /\ Resting(p') /\ p'.pc # "poweroff" /\ p'.who = "powerd"
        /\ p'.checked = add[2]
    <3> DEFINE c == add[2]
    <3> DEFINE q == [p EXCEPT !.checked = c, !.pendFailed = TRUE, !.shut = @ \/ last]
    <3>1. p' = AfterRow(q, urgent, last)
      BY <1>9
    <3>2. c \in BOOLEAN
      BY <2>2
    <3> HIDE DEF c
    <3>3. q \in Procs(m) /\ Resting(q) /\ q.who = p.who /\ q.checked = c
      BY <1>1, <1>5, <3>2 DEF Procs, Resting
    <3> HIDE DEF q
    <3>4. /\ p' \in Procs(m) /\ Resting(p') /\ p'.pc # "poweroff" /\ p'.who = q.who
          /\ p'.checked = q.checked
      BY <3>1, <3>3, AfterRowIs
    <3> QED
      BY <1>1, <3>3, <3>4 DEF c
  <2>6. made' = m /\ made' \in {made, made + 1}
    BY <1>1 DEF m
  <2>7. gone' \in SUBSET (1 .. m) /\ gone \subseteq gone'
        /\ Readable(pend) \subseteq Readable(pend') \cup gone'
        /\ 1 .. m \subseteq (1 .. made) \cup Readable(pend') \cup gone'
    BY <1>3, <1>6, <1>7, <1>9, <2>6
  <2>8. faults' \in Nat /\ kills' \in Nat /\ left' \in BOOLEAN
    BY <1>1, <1>3, <1>9 DEF Fault
  <2> QED
    BY <1>1, <1>2, <1>6, <2>2, <2>3, <2>4, <2>5, <2>6, <2>7, <2>8, PendStep
<1> QED
  BY <1>8, <1>9 DEF LogRow, room

\* The process dies while it adds a row.
LEMMA StepKilledAdding ==
    ASSUME IInv, p.pc \in {"start", "idle"}, p.who # "none",
           pend' = Append(MakeRoom(pend, p.checked), Torn),
           gone' = gone \cup (Readable(pend) \ Readable(pend')), p' = Nobody,
           kills' = kills + 1, left' = (left \/ p.who = "tool"),
           UNCHANGED <<log, old, safe, sys, made, faults, cuts>>
    PROVE  IInv'
<1> DEFINE room == MakeRoom(pend, p.checked)
<1>1. p.off = 0 /\ sys # "off"
  BY AtRest, NotOff DEF Batching
<1>2. /\ Torn \in Lines /\ made \in Nat /\ left \in BOOLEAN /\ faults \in Nat /\ kills \in Nat
      /\ gone \in SUBSET (1 .. made) /\ made <= MaxRows /\ pend \in Seq(Lines)
  BY StateIs, BoundsAssumption DEF IInv, Typed
<1>3. /\ Len(room) + 1 <= PendingMax /\ Clean(room)
      /\ Repeated(old, log.rows, room, cuts, made)
      /\ Append(room, Torn) \in Seq(Lines) /\ Whole(Append(room, Torn)) = room
      /\ Len(Append(room, Torn)) = Len(room) + 1
  BY <1>1, <1>2, Room
<1>4. pend' = Append(room, Torn)
  OBVIOUS
<1> HIDE DEF room
<1>5. /\ pend' \in Seq(0 .. made') /\ Len(pend') <= PendingMax /\ Clean(Whole(pend'))
      /\ Repeated(old, log.rows, Whole(pend'), cuts, made')
  BY <1>3, <1>4 DEF Lines
<1>6. /\ p' \in Procs(made') /\ Resting(p') /\ p'.pc # "poweroff" /\ ~p'.checked
  BY NobodyIs
<1>7. Readable(pend) \subseteq 1 .. made
  <2>1. Readable(pend) \subseteq Lines \ {Torn}
    BY <1>2, ReadableIsIn
  <2> QED
    BY <1>2, <2>1 DEF Lines, Torn
<1>8. /\ gone' \in SUBSET (1 .. made') /\ gone \subseteq gone'
      /\ Readable(pend) \subseteq Readable(pend') \cup gone'
      /\ 1 .. made' \subseteq (1 .. made) \cup Readable(pend') \cup gone'
  BY <1>2, <1>7
<1>9. left' \in BOOLEAN /\ faults' \in Nat /\ kills' \in Nat /\ made' \in {made, made + 1}
  BY <1>2
<1> QED
  BY <1>1, <1>2, <1>5, <1>6, <1>8, <1>9, PendStep

-----------------------------------------------------------------------------
(* The steps of a flush.                                                    *)

\* A process in a flush: the batch is what log.pending holds.
LEMMA InFlush ==
    ASSUME IInv, Batching
    PROVE  /\ p \in Procs(made) /\ p.buf = Whole(pend) /\ p.off \in Nat
           /\ p.off <= Len(Whole(pend)) /\ p.who # "none" /\ sys # "off"
           /\ p.pc = "write" => p.off < Len(Whole(pend))
<1>1. p # Nobody
  BY NobodyIs DEF Batching
<1> QED
  BY <1>1, StateIs DEF IInv, Typed, BatchIsPending, ProcessOk

\* A call of the flush fails: what did reach log.csv will be removed from log.pending.
LEMMA StepFlushFailed ==
    ASSUME IInv, Batching, Fault, p' = FlushFailed, safe' = safe, left' = left,
           UNCHANGED <<pend, log, old, made, gone, cuts, sys, kills>>
    PROVE  IInv'
<1>1. /\ p \in Procs(made) /\ p.buf = Whole(pend) /\ p.off <= Len(Whole(pend)) /\ p.who # "none"
  BY InFlush
<1>2. /\ p' \in Procs(made) /\ p'.buf = p.buf /\ p'.off = p.off /\ p'.pc = "replace" /\ p'.failed
      /\ p'.checked = p.checked /\ p'.who = p.who
  BY <1>1 DEF FlushFailed, Procs
<1>3. faults' \in Nat /\ safe' \in SUBSET (1 .. made) /\ left' \in BOOLEAN
  BY DEF Fault, IInv, Typed
<1> QED
  BY <1>1, <1>2, <1>3, RunningStep

\* The flush ends early: the pending rows could not be read.
LEMMA StepReadFailed ==
    ASSUME IInv, p.pc = "read", Fault, p' = Flushed(TRUE), left' \in BOOLEAN,
           UNCHANGED <<files, safe, sys, history, kills>>
    PROVE  IInv'
<1>1. Resting(p) /\ p.off = 0 /\ p \in Procs(made)
  BY AtRest DEF Batching
<1>2. /\ p' \in Procs(made) /\ Resting(p')
      /\ p' = Nobody \/ p'.who = p.who
      /\ p' = Nobody \/ (p'.checked = p.checked /\ p'.logFailed = TRUE)
  BY <1>1, FlushedIs
<1>3. p.who # "none"
  BY NobodyIs DEF IInv, ProcessOk
<1>4. sys # "off" /\ StopKeepsRows'
  BY <1>3, NotOff
<1>5. /\ p'.checked => p.checked
      /\ p'.pc = "poweroff" /\ ~p'.logFailed => pend = <<>>
      /\ p'.who = "none" => p' = Nobody
  BY <1>2, <1>3, NobodyIs
<1>6. /\ UNCHANGED <<pend, log, old, made, gone, cuts>>
      /\ safe' \in SUBSET (1 .. made) /\ faults' \in Nat /\ kills' \in Nat
      /\ sys' \in {"up", "stopping", "off"} /\ sys' = sys
  BY DEF files, history, Fault, IInv, Typed
<1> QED
  BY <1>1, <1>2, <1>4, <1>5, <1>6, RestingStep

\* The complete rows of log.pending are read.
LEMMA StepRead ==
    ASSUME IInv, Read
    PROVE  IInv'
<1>1. Resting(p) /\ p.off = 0 /\ p \in Procs(made) /\ p.who # "none"
  BY AtRest, NobodyIs DEF Batching, Read, IInv, ProcessOk
<1>2. left' \in BOOLEAN
  BY DEF Read, IInv, Typed
<1>3. CASE Fault /\ p' = Flushed(TRUE)
  BY <1>2, <1>3, StepReadFailed DEF Read
<1>4. CASE /\ p' = Onward([p EXCEPT !.buf = Whole(pend), !.off = 0, !.failed = FALSE])
           /\ UNCHANGED faults
  <2> DEFINE w == Whole(pend)
  <2> DEFINE q == [p EXCEPT !.buf = w, !.off = 0, !.failed = FALSE]
  <2>1. w \in Seq(0 .. made) /\ Len(w) \in Nat /\ made \in Nat
    BY StateIs DEF Lines
  <2> HIDE DEF w
  <2>2. q \in Procs(made) /\ q.buf = w /\ q.off = 0 /\ q.who = p.who /\ q.checked = p.checked
    BY <1>1, <2>1 DEF Procs
  <2>3. p' = Onward(q) /\ q.off <= Len(q.buf)
    BY <1>4, <2>1, <2>2 DEF w
  <2> HIDE DEF q
  <2>4. /\ p' \in Procs(made) /\ p'.buf = q.buf /\ p'.off = q.off /\ p'.who = q.who
        /\ p'.checked = q.checked
        /\ \/ p'.pc = "write" /\ q.off < Len(q.buf)
           \/ p'.pc \in {"sync", "replace"} /\ q.off = Len(q.buf)
    BY <2>1, <2>2, <2>3, OnwardIs
  <2>5. /\ UNCHANGED <<pend, log, old, made, gone, cuts, sys, kills>>
        /\ safe' \in SUBSET (1 .. made) /\ faults' \in Nat
    BY <1>4 DEF Read, files, history, IInv, Typed
  <2>6. /\ p'.buf = Whole(pend) /\ p'.off = p.off /\ p.off <= Len(Whole(pend))
        /\ \/ p'.pc = "write" /\ p.off < Len(Whole(pend))
           \/ p'.pc \in {"sync", "replace"} /\ p.off = Len(Whole(pend))
        /\ p'.checked = p.checked /\ p'.who = p.who
    BY <1>1, <2>1, <2>2, <2>4 DEF w
  <2> QED
    BY <1>1, <1>2, <2>4, <2>5, <2>6, RunningStep
<1> QED
  BY <1>3, <1>4 DEF Read

\* log.csv becomes log.csv.1, whose rows are given up on.
LEMMA StepRotate ==
    ASSUME IInv, Rotate
    PROVE  IInv'
<1>1. Batching /\ UNCHANGED <<pend, safe, sys, left, made, cuts, kills>>
  BY DEF Batching, Rotate
<1>2. CASE Fault /\ p' = FlushFailed /\ UNCHANGED <<old, log, gone>>
  BY <1>1, <1>2, StepFlushFailed
<1>3. CASE /\ old' = log.rows /\ log' = NoFile
           /\ gone' = gone \cup (Readable(old) \ Readable(log.rows))
           /\ UNCHANGED <<p, faults>>
  <2>1. /\ Typed /\ pend \in Seq(Lines) /\ log.rows \in Seq(Lines) /\ old \in Seq(Lines)
        /\ made \in Nat /\ cuts \in Nat /\ Unwritten \in Seq(Lines)
        /\ Repeated(old, log.rows, Unwritten, cuts, made) /\ Accounted /\ Clean(Whole(pend))
    <3>1. Unwritten \in Seq(Lines)
      <4> DEFINE w == Whole(pend)
      <4> DEFINE a == p.off
      <4> DEFINE n == Len(w)
      <4>1. w \in Seq(Lines) /\ a \in Nat /\ n \in Nat /\ n <= Len(w)
        BY StateIs
      <4> HIDE DEF w, a, n
      <4>2. SubSeq(w, a + 1, n) \in Seq(Lines)
        BY <4>1, PartIs
      <4> QED
        BY <4>2 DEF Unwritten, w, a, n
    <3> QED
      BY <3>1, StateIs DEF IInv, Typed, FilesOk
  <2>2. log'.rows = <<>> /\ log' \in [head : Heads, rows : Seq(Lines)] /\ log'.head # "ours"
        /\ Len(log'.rows) = 0
    <3>1. <<>> \in Seq(Lines) /\ Len(<<>>) = 0
      BY EmptySeq
    <3> QED
      BY <1>3, <3>1 DEF NoFile, Heads
  <2>3. Readable(log.rows) \subseteq Logged' /\ Logged \subseteq Logged' \cup gone'
    BY <1>3 DEF Logged
  <2>4. Typed'
    <3>1. Readable(old) \subseteq 1 .. made
      <4>1. Readable(old) \subseteq Lines \ {Torn}
        BY <2>1, ReadableIsIn
      <4> QED
        BY <2>1, <4>1 DEF Lines, Torn
    <3>2. gone' \in SUBSET (1 .. made)
      BY <1>3, <2>1, <3>1 DEF Typed
    <3>3. 0 <= LogMax
      BY BoundsAssumption
    <3> QED
      BY <1>1, <1>3, <2>1, <2>2, <3>2, <3>3 DEF Typed, Lines
  <2>5. Repeated(log.rows, <<>>, Unwritten, cuts, made)
    BY <2>1, RotateRepeats DEF Lines
  <2>6. FilesOk'
    <3>1. Unwritten' = Unwritten
      BY <1>1, <1>3 DEF Unwritten
    <3>2. Repeated(old', log'.rows, Unwritten', cuts', made')
      BY <1>1, <1>3, <2>2, <2>5, <3>1
    <3>3. Accounted'
      BY <1>1, <1>3, <2>1, <2>3 DEF Accounted, Waiting
    <3> QED
      BY <1>1, <2>1, <3>2, <3>3 DEF FilesOk
  <2>7. BatchIsPending'
    <3>1. BatchIsPending
      BY DEF IInv
    <3>2. \A i \in 1 .. p.off : p.buf[i] \in Logged' \cup gone'
      <4>1. gone \subseteq gone'
        BY <1>3
      <4> QED
        BY <2>3, <3>1, <4>1 DEF BatchIsPending
    <3> QED
      BY <1>1, <1>3, <3>1, <3>2 DEF BatchIsPending, Batching
  <2>8. ProcessOk'
    BY <1>1, <1>3 DEF IInv, ProcessOk
  <2>9. StopKeepsRows'
    BY <1>1, InFlush DEF StopKeepsRows
  <2> QED
    BY <2>4, <2>6, <2>7, <2>8, <2>9 DEF IInv
<1> QED
  BY <1>1, <1>2, <1>3 DEF Rotate

\* The rows in log.csv reach the disk.
LEMMA StepSync ==
    ASSUME IInv, Sync
    PROVE  IInv'
<1>1. Batching /\ UNCHANGED <<pend, log, old, made, gone, cuts, sys, kills, left>>
  BY DEF Batching, Sync, files, history
<1>2. CASE Fault /\ p' = FlushFailed /\ UNCHANGED safe
  BY <1>1, <1>2, StepFlushFailed
<1>3. CASE safe' = safe \cup Readable(log.rows) /\ p' = [p EXCEPT !.pc = "replace"]
           /\ UNCHANGED faults
  <2>1. p \in Procs(made) /\ p.buf = Whole(pend) /\ p.off <= Len(Whole(pend)) /\ p.who # "none"
    BY <1>1, InFlush
  <2>2. p.off = Len(Whole(pend))
    BY <2>1 DEF Sync, IInv, BatchIsPending
  <2>3. /\ p' \in Procs(made) /\ p'.buf = p.buf /\ p'.off = p.off /\ p'.pc = "replace"
        /\ p'.checked = p.checked /\ p'.who = p.who
    BY <1>3, <2>1 DEF Procs
  <2>4. safe' \in SUBSET (1 .. made)
    <3>1. Readable(log.rows) \subseteq 1 .. made
      <4>1. log.rows \in Seq(Lines)
        BY DEF IInv, Typed
      <4> QED
        BY <4>1, StateIs, ReadableMade
    <3> QED
      BY <1>3, <3>1 DEF IInv, Typed
  <2>5. left' \in BOOLEAN /\ faults' \in Nat
    BY <1>1, <1>3 DEF IInv, Typed
  <2> QED
    BY <1>1, <2>1, <2>2, <2>3, <2>4, <2>5, RunningStep
<1> QED
  BY <1>1, <1>2, <1>3 DEF Sync

\* What fits into log.csv is at least a row of the batch.
LEMMA FitIs ==
    ASSUME IInv, p.pc = "write", ~MustRotate
    PROVE  /\ Fit \in Nat \ {0} /\ p.off + Fit <= Len(Whole(pend))
           /\ Len(log.rows) + Fit <= LogMax /\ Len(log.rows) \in Nat
<1>1. /\ p.buf = Whole(pend) /\ p.off \in Nat /\ p.off < Len(Whole(pend)) /\ Len(Whole(pend)) \in Nat
  BY InFlush, StateIs DEF Batching
<1>2. /\ log.head \in Heads /\ Len(log.rows) \in Nat /\ Len(log.rows) <= LogMax
      /\ LogMax \in Nat \ {0} /\ (log.head # "ours" => Len(log.rows) = 0)
  <2>1. /\ log.head \in Heads /\ log.rows \in Seq(Lines) /\ Len(log.rows) <= LogMax
        /\ (log.head # "ours" => log.rows = <<>>)
    BY DEF IInv, Typed
  <2> QED
    BY <2>1, LenProperties, EmptySeq, BoundsAssumption
<1> DEFINE room == LogMax - (IF log.head = "ours" THEN Len(log.rows) ELSE 0)
<1> DEFINE rest == Len(Whole(pend)) - p.off
<1>3. Fit = (IF rest < room THEN rest ELSE IF room > 0 THEN room ELSE 0) /\ Fit # 0
  BY <1>1 DEF Fit, MustRotate
<1>4. room = LogMax - Len(log.rows) /\ room \in Nat
  BY <1>2
<1>5. rest \in Nat \ {0} /\ p.off + rest = Len(Whole(pend))
  BY <1>1
<1> HIDE DEF room, rest
<1>6. Fit \in Nat \ {0} /\ Fit <= rest /\ Fit <= room
  BY <1>3, <1>4, <1>5
<1> HIDE DEF Fit
<1> QED
  BY <1>1, <1>2, <1>4, <1>5, <1>6

\* A write that was cut short leaves rows of the batch behind those of log.csv, and maybe the
\* beginning of the next.
LEMMA CutWrite ==
    ASSUME IInv, p.pc = "write", ~MustRotate, NEW n \in 0 .. Fit, log' \in CutShort(n),
           UNCHANGED <<pend, old, made, gone>>, cuts' = cuts + 1, p'.off \in {0, p.off}
    PROVE  /\ FilesOk' /\ log' \in [head : Heads, rows : Seq(Lines)] /\ log'.head = "ours"
           /\ Len(log'.rows) <= LogMax /\ Logged \cup gone \subseteq (Logged \cup gone)'
<1> DEFINE w == Whole(pend)
<1> DEFINE a == p.off
<1> DEFINE b == a + n
<1>1. /\ Fit \in Nat \ {0} /\ a + Fit <= Len(w) /\ Len(log.rows) + Fit <= LogMax
      /\ Len(log.rows) \in Nat
  BY FitIs
<1>2. /\ p.buf = w /\ a \in Nat /\ w \in Seq(Lines) /\ Len(w) \in Nat /\ Torn \in Lines
      /\ log.rows \in Seq(Lines) /\ Batching
  BY InFlush, StateIs DEF Batching, IInv, Typed
<1>3. n \in Nat /\ b \in Nat /\ a <= b /\ b <= Len(w) /\ b - a = n
  <2> HIDE DEF w, a
  <2> QED
    BY <1>1, <1>2
<1> DEFINE x == SubSeq(w, a + 1, b)
<1>4. Chunk(n) = x
  BY <1>2 DEF Chunk
<1>5. x \in Seq(Lines)
  <2> HIDE DEF w, a, b
  <2> QED
    BY <1>2, <1>3, PartIs
<1>6. \E torn \in BOOLEAN :
        /\ log' = [head |-> "ours",
                   rows |-> IF torn THEN Append(log.rows \o x, Torn) ELSE log.rows \o x]
        /\ torn => n < Fit
  <2> HIDE DEF x
  <2>1. CASE log' = Appended(x)
    <3>1. log' = [head |-> "ours",
                  rows |-> IF FALSE THEN Append(log.rows \o x, Torn) ELSE log.rows \o x]
      BY <2>1 DEF Appended
    <3> QED
      BY <3>1
  <2>2. CASE n < Fit /\ log' = Appended(Append(x, Torn))
    <3>1. log.rows \o Append(x, Torn) = Append(log.rows \o x, Torn)
      <4> DEFINE l == log.rows
      <4>1. l \in Seq(Lines) /\ x \in Seq(Lines) /\ Torn \in Lines
        BY <1>2, <1>5
      <4> HIDE DEF l
      <4>2. l \o Append(x, Torn) = Append(l \o x, Torn)
        BY <4>1, TornLine
      <4> QED
        BY <4>2 DEF l
    <3>2. log' = [head |-> "ours",
                  rows |-> IF TRUE THEN Append(log.rows \o x, Torn) ELSE log.rows \o x]
      BY <2>2, <3>1 DEF Appended
    <3> QED
      BY <2>2, <3>2
  <2>3. log' = Appended(x) \/ (n < Fit /\ log' = Appended(Append(x, Torn)))
    <3>1. CASE n < Fit
      BY <1>4, <3>1 DEF CutShort
    <3>2. CASE ~(n < Fit)
      BY <1>4, <3>2 DEF CutShort
    <3> QED
      BY <3>1, <3>2
  <2> QED
    BY <2>1, <2>2, <2>3
<1>7. PICK torn \in BOOLEAN :
        /\ log' = [head |-> "ours",
                   rows |-> IF torn THEN Append(log.rows \o x, Torn) ELSE log.rows \o x]
        /\ torn => n < Fit
  BY <1>6
<1>8. log'.rows = (IF torn THEN Append(log.rows \o x, Torn) ELSE log.rows \o x) /\ log'.head = "ours"
      /\ log' = [head |-> "ours", rows |-> log'.rows]
  BY <1>7
<1>9. /\ FilesOk' /\ log'.rows \in Seq(Lines)
      /\ Logged \cup gone \subseteq (Logged \cup gone)'
      /\ Len(log'.rows) = Len(log.rows) + (b - p.off) + (IF torn THEN 1 ELSE 0)
  <2>1. p.off <= b /\ b <= Len(Whole(pend)) /\ b \in Nat
    BY <1>3
  <2>2. log'.rows = LET z == log.rows \o SubSeq(Whole(pend), p.off + 1, b)
                    IN  IF torn THEN Append(z, Torn) ELSE z
    BY <1>8
  <2> HIDE DEF b
  <2> QED
    BY <1>2, <2>1, <2>2, CutFiles
<1>10. n + (IF torn THEN 1 ELSE 0) <= Fit
  <2>1. CASE torn
    BY <1>1, <1>3, <1>7, <2>1
  <2>2. CASE ~torn
    BY <1>1, <1>3, <2>2
  <2> QED
    BY <2>1, <2>2
<1>11. Len(log'.rows) <= LogMax
  <2> DEFINE t == IF torn THEN 1 ELSE 0
  <2>1. t \in Nat /\ n + t <= Fit
    BY <1>10
  <2>2. Len(log'.rows) = Len(log.rows) + (b - a) + t
    BY <1>9
  <2> HIDE DEF t
  <2>3. LogMax \in Nat
    BY BoundsAssumption
  <2> HIDE DEF a, b
  <2> QED
    BY <1>1, <1>3, <2>1, <2>2, <2>3
<1>12. log' \in [head : Heads, rows : Seq(Lines)]
  BY <1>8, <1>9 DEF Heads
<1> QED
  BY <1>8, <1>9, <1>11, <1>12

\* A chunk of the batch goes to log.csv, or part of it does, or nothing.
LEMMA StepWriteChunk ==
    ASSUME IInv, WriteChunk
    PROVE  IInv'
<1>1. /\ Batching /\ p.pc = "write" /\ ~MustRotate
      /\ UNCHANGED <<pend, old, safe, sys, left, made, kills>>
  BY DEF Batching, WriteChunk
<1>2. /\ p \in Procs(made) /\ p.buf = Whole(pend) /\ p.off \in Nat /\ p.who # "none" /\ sys # "off"
      /\ p.off < Len(Whole(pend)) /\ Whole(pend) \in Seq(Lines) /\ Len(Whole(pend)) \in Nat
      /\ Lines \in SUBSET Nat /\ made \in Nat
  BY <1>1, InFlush, StateIs
<1>3. CASE Fault /\ p' = FlushFailed /\ UNCHANGED <<log, gone, cuts>>
  BY <1>1, <1>3, StepFlushFailed
<1>4. ASSUME Fault, p' = FlushFailed, NEW n \in 0 .. Fit, log' \in CutShort(n),
             cuts' = cuts + 1, UNCHANGED gone
      PROVE  IInv'
  <2>1. /\ p' \in Procs(made) /\ p'.buf = p.buf /\ p'.off = p.off /\ p'.pc = "replace" /\ p'.failed
        /\ p'.checked = p.checked /\ p'.who = p.who
    BY <1>2, <1>4 DEF FlushFailed, Procs
  <2>2. /\ FilesOk' /\ log' \in [head : Heads, rows : Seq(Lines)] /\ log'.head = "ours"
        /\ Len(log'.rows) <= LogMax /\ Logged \cup gone \subseteq (Logged \cup gone)'
    BY <1>1, <1>4, <2>1, CutWrite
  <2>3. Typed'
    <3>1. cuts' \in Nat /\ faults' \in Nat
      BY <1>4 DEF Fault, IInv, Typed
    <3> QED
      BY <1>1, <1>4, <2>1, <2>2, <3>1 DEF IInv, Typed, Lines
  <2>4. BatchIsPending'
    <3>1. \A i \in 1 .. p'.off : p'.buf[i] \in Logged' \cup gone'
      BY <2>1, <2>2 DEF IInv, BatchIsPending
    <3> QED
      BY <1>1, <1>2, <2>1, <3>1 DEF BatchIsPending, Batching
  <2>5. ProcessOk'
    BY <1>1, <1>2, <2>1 DEF IInv, ProcessOk
  <2>6. StopKeepsRows'
    BY <1>1, <1>2 DEF StopKeepsRows
  <2> QED
    BY <2>2, <2>3, <2>4, <2>5, <2>6 DEF IInv
<1>5. CASE /\ log' = Appended(Chunk(Fit))
           /\ p' = Onward([p EXCEPT !.off = @ + Fit])
           /\ gone' = gone \cup Glued(log.rows, Chunk(Fit))
           /\ UNCHANGED <<cuts, faults>>
  <2> DEFINE w == Whole(pend)
  <2> DEFINE a == p.off
  <2> DEFINE b == a + Fit
  <2> DEFINE x == SubSeq(w, a + 1, b)
  <2> DEFINE q == [p EXCEPT !.off = @ + Fit]
  <2>1. /\ Fit \in Nat \ {0} /\ a + Fit <= Len(w) /\ Len(log.rows) + Fit <= LogMax
        /\ Len(log.rows) \in Nat
    BY <1>1, FitIs
  <2>2. b \in Nat /\ a \in Nat /\ a <= b /\ b <= Len(w) /\ b - a = Fit
    <3>1. a \in Nat
      BY <1>2
    <3> HIDE DEF w, a
    <3> QED
      BY <2>1, <3>1
  <2>3. Chunk(Fit) = x
    BY <1>2 DEF Chunk
  <2>4. /\ log.rows \in Seq(Lines) /\ old \in Seq(Lines) /\ cuts \in Nat /\ Clean(w)
        /\ Repeated(old, log.rows, Unwritten, cuts, made) /\ Accounted
    BY DEF IInv, Typed, FilesOk
  <2>5. x \in Seq(Lines) /\ Len(x) = Fit /\ (\A i \in 1 .. b - a : x[i] = w[a + i])
        /\ Clean(x) /\ ToSet(x) \subseteq ToSet(w) /\ DOMAIN x = 1 .. Len(x)
    <3>1. w \in Seq(Lines)
      BY <1>2
    <3> HIDE DEF w, a, b
    <3>2. /\ x \in Seq(Lines) /\ Len(x) = IF a <= b THEN b - a ELSE 0
          /\ \A i \in 1 .. b - a : x[i] = w[a + i]
          /\ DOMAIN x = 1 .. Len(x)
      BY <2>2, <3>1, PartIs
    <3>3. Clean(x) /\ ToSet(x) \subseteq ToSet(w)
      BY <2>2, <2>4, <3>1, PartIsClean
    <3> HIDE DEF x
    <3> QED
      BY <2>2, <3>2, <3>3
  <2>6. log'.rows = log.rows \o x /\ log'.head = "ours" /\ log' = [head |-> "ours", rows |-> log'.rows]
    BY <1>5, <2>3 DEF Appended
  <2>7. q \in Procs(made) /\ q.buf = w /\ q.off = b /\ q.who = p.who /\ q.checked = p.checked
    <3>1. p.off + Fit \in Nat
      BY <1>2, <2>1
    <3> QED
      BY <1>2, <3>1 DEF Procs
  <2>8. p' = Onward(q) /\ q.off <= Len(q.buf)
    BY <1>5, <2>2, <2>7
  <2>9. /\ p' \in Procs(made) /\ p'.buf = w /\ p'.off = b /\ p'.who = p.who
        /\ p'.checked = p.checked
        /\ \/ p'.pc = "write" /\ b < Len(w)
           \/ p'.pc \in {"sync", "replace"} /\ b = Len(w)
    <3> HIDE DEF q
    <3>1. /\ p' \in Procs(made) /\ p'.buf = q.buf /\ p'.off = q.off /\ p'.who = q.who
          /\ p'.checked = q.checked
          /\ \/ p'.pc = "write" /\ q.off < Len(q.buf)
             \/ p'.pc \in {"sync", "replace"} /\ q.off = Len(q.buf)
      BY <1>2, <2>7, <2>8, OnwardIs
    <3> HIDE DEF w, b
    <3> QED
      BY <2>7, <3>1
  <2>10. /\ Readable(log.rows) \subseteq Readable(log'.rows)
         /\ ToSet(x) \subseteq Readable(log'.rows) \cup gone'
         /\ Glued(log.rows, x) \subseteq ToSet(x) /\ gone' = gone \cup Glued(log.rows, x)
    <3> HIDE DEF x
    <3>1. /\ Readable(log.rows) \subseteq Readable(log.rows \o x)
          /\ Clean(x) => ToSet(x) \subseteq Readable(log.rows \o x) \cup Glued(log.rows, x)
      BY <2>4, <2>5, ReadableBehind
    <3>2. gone' = gone \cup Glued(log.rows, x)
      BY <1>5, <2>3
    <3>3. Glued(log.rows, x) \subseteq ToSet(x)
      <4>1. ASSUME x # <<>> PROVE Head(x) \in ToSet(x)
        <5>1. Head(x) = x[1] /\ 1 \in DOMAIN x
          BY <2>5, <4>1, EmptySeq
        <5> QED
          BY <5>1 DEF ToSet
      <4> QED
        BY <4>1 DEF Glued
    <3> QED
      BY <2>5, <2>6, <3>1, <3>2, <3>3
  <2>11. Logged \cup gone \subseteq (Logged \cup gone)'
    BY <1>1, <2>10 DEF Logged
  <2>12. Typed'
    <3>1. gone' \in SUBSET (1 .. made)
      <4>1. ToSet(x) \subseteq 1 .. made
        <5> HIDE DEF x
        <5>1. ToSet(x) \subseteq Lines
          BY <2>5, ElementOfSeq DEF ToSet
        <5> QED
          BY <1>2, <2>5, <5>1 DEF Clean, Lines, Torn
      <4> QED
        BY <2>10, <4>1 DEF IInv, Typed
    <3>2. log'.rows \in Seq(Lines) /\ Len(log'.rows) <= LogMax
      <4> HIDE DEF x, a
      <4>1. Len(log.rows \o x) = Len(log.rows) + Len(x) /\ log.rows \o x \in Seq(Lines)
        BY <2>4, <2>5, ConcatProperties
      <4> QED
        BY <2>1, <2>5, <2>6, <4>1
    <3>3. log' \in [head : Heads, rows : Seq(Lines)]
      BY <2>6, <3>2 DEF Heads
    <3> QED
      BY <1>1, <1>5, <2>6, <2>9, <3>1, <3>2, <3>3 DEF IInv, Typed, Lines
  <2>13. BatchIsPending'
    <3>1. ASSUME NEW i \in 1 .. b PROVE w[i] \in Logged' \cup gone'
      <4>1. CASE i \in 1 .. a
        <5>1. w[i] \in Logged \cup gone
          BY <1>1, <1>2, <4>1 DEF IInv, BatchIsPending
        <5> QED
          BY <2>11, <5>1
      <4>2. CASE i \notin 1 .. a
        <5>1. i - a \in 1 .. b - a /\ a + (i - a) = i
          <6> HIDE DEF a, b, w
          <6> QED
            BY <2>2, <4>2
        <5>2. x[i - a] = w[i] /\ i - a \in DOMAIN x
          <6> HIDE DEF a, b, w, x
          <6>1. x[i - a] = w[a + (i - a)]
            BY <2>5, <5>1
          <6> QED
            BY <2>2, <2>5, <5>1, <6>1
        <5>3. w[i] \in ToSet(x)
          BY <5>2 DEF ToSet
        <5> QED
          BY <2>10, <5>3 DEF Logged
      <4> QED
        BY <4>1, <4>2
    <3>2. Whole(pend)' = w
      BY <1>1
    <3> HIDE DEF w, b, a, x
    <3>3. \A i \in 1 .. p'.off : p'.buf[i] \in Logged' \cup gone'
      BY <2>9, <3>1
    <3>4. b <= Len(w)
      BY <2>2
    <3> QED
      BY <2>9, <3>2, <3>3, <3>4 DEF BatchIsPending, Batching
  <2>14. FilesOk'
    <3>1. Accounted'
      BY <1>1, <2>4, <2>11 DEF Accounted, Waiting
    <3>2. Repeated(old, log.rows \o SubSeq(w, a + 1, b), SubSeq(w, b + 1, Len(w)), cuts, made)
      <4>1. w \in Seq(Lines)
        BY <1>2
      <4>2. Repeated(old, log.rows, SubSeq(w, a + 1, Len(w)), cuts, made)
        BY <2>4 DEF Unwritten
      <4> HIDE DEF w, a, b
      <4> QED
        BY <1>2, <2>2, <2>4, <4>1, <4>2, WriteRepeats DEF Lines
    <3>3. Repeated(old, log.rows, Unwritten, cuts, made)'
      <4>1. Unwritten' = SubSeq(w, b + 1, Len(w))
        BY <1>1, <2>9 DEF Unwritten
      <4> HIDE DEF w, b, a
      <4> QED
        BY <1>1, <1>5, <2>6, <3>2, <4>1
    <3> QED
      BY <1>1, <2>4, <3>1, <3>3 DEF FilesOk
  <2>15. ProcessOk'
    BY <1>1, <1>2, <2>9 DEF IInv, ProcessOk
  <2>16. StopKeepsRows'
    BY <1>1, <1>2 DEF StopKeepsRows
  <2> QED
    BY <2>12, <2>13, <2>14, <2>15, <2>16 DEF IInv
<1> QED
  BY <1>3, <1>4, <1>5 DEF WriteChunk

-----------------------------------------------------------------------------
(* The end of a flush, and of a process.                                    *)

\* A flush ends, and leaves what it has written pending.
LEMMA EndStep ==
    ASSUME IInv, UNCHANGED <<pend, log, old, made, gone>>, cuts' = CutsWith(p.off),
           p' \in Procs(made), Resting(p'), p'.checked => p.checked,
           p'.pc = "poweroff" /\ ~p'.logFailed => pend = <<>>,
           p'.who = "none" => p' = Nobody, sys' = "off" => p'.who = "none",
           safe' \in SUBSET (1 .. made), sys' \in {"up", "stopping", "off"}, left' \in BOOLEAN,
           faults' \in Nat, kills' \in Nat, StopKeepsRows'
    PROVE  IInv'
<1>1. p.off \in Nat /\ cuts \in Nat
  BY StateIs DEF IInv, Typed
<1>2. CASE p.off = 0
  <2>1. cuts' = cuts
    BY <1>1, <1>2 DEF CutsWith
  <2> QED
    BY <1>2, <2>1, RestingStep
<1>3. CASE p.off > 0
  <2>1. cuts' = cuts + 1 /\ cuts' \in Nat
    BY <1>1, <1>3 DEF CutsWith
  <2>2. Batching
    BY <1>1, <1>3, AtRest
  <2>3. FilesOk'
    <3> DEFINE b == p.off
    <3>1. b \in Nat /\ p.off <= b /\ b <= Len(Whole(pend)) /\ p'.off \in {0, p.off}
      BY <1>1, <2>2, InFlush DEF Resting
    <3>2. SubSeq(Whole(pend), p.off + 1, b) = <<>>
      <4>1. p.off + 1 \in Int /\ b \in Int /\ b < p.off + 1
        BY <1>1
      <4> QED
        BY <4>1, SubSeqEmpty
    <3>3. log.rows \o <<>> = log.rows
      <4>1. log.rows \in Seq(Lines)
        BY DEF IInv, Typed
      <4> QED
        BY <4>1, ConcatEmptySeq
    <3>4. log'.rows = LET x == log.rows \o SubSeq(Whole(pend), p.off + 1, b)
                      IN  IF FALSE THEN Append(x, Torn) ELSE x
      BY <3>2, <3>3
    <3> HIDE DEF b
    <3> QED
      BY <2>1, <2>2, <3>1, <3>4, CutFiles
  <2>4. Typed'
    BY <2>1 DEF IInv, Typed, Lines
  <2>5. BatchIsPending'
    BY DEF BatchIsPending, Batching, Resting
  <2>6. ProcessOk'
    BY DEF IInv, ProcessOk
  <2> QED
    BY <2>3, <2>4, <2>5, <2>6 DEF IInv
<1> QED
  BY <1>1, <1>2, <1>3

\* The rows that reached log.csv are taken out of log.pending, or cannot be.
LEMMA StepReplace ==
    ASSUME IInv, Replace
    PROVE  IInv'
<1>1. Batching /\ p.pc = "replace" /\ UNCHANGED <<log, old, safe, sys, made, gone, kills>>
  BY DEF Batching, Replace
<1>2. /\ p \in Procs(made) /\ p.buf = Whole(pend) /\ p.off \in Nat /\ p.who # "none" /\ sys # "off"
      /\ p.off <= Len(Whole(pend)) /\ Whole(pend) \in Seq(Lines) /\ Len(Whole(pend)) \in Nat
      /\ Lines \in SUBSET Nat /\ Torn \in Lines /\ Readable(pend) = ToSet(Whole(pend))
  BY <1>1, InFlush, StateIs
<1>3. ASSUME NEW failed \in BOOLEAN, p' = Flushed(failed)
      PROVE  /\ p' \in Procs(made) /\ Resting(p')
             /\ p'.who = "none" => p' = Nobody
             /\ p'.checked => p.checked
             /\ p'.pc = "poweroff" => p'.logFailed = failed
  <2>1. /\ p' \in Procs(made) /\ Resting(p')
        /\ p' = Nobody \/ p'.who = p.who
        /\ p' = Nobody \/ (p'.checked = p.checked /\ p'.logFailed = failed)
    BY <1>2, <1>3, FlushedIs
  <2> QED
    BY <1>2, <2>1, NobodyIs
<1>4. StopKeepsRows'
  BY <1>1, <1>2 DEF StopKeepsRows
<1>5. CASE /\ p' = Flushed(TRUE) /\ Fault /\ left' = (left \/ p.who = "tool")
           /\ cuts' = CutsWith(p.off) /\ UNCHANGED pend
  <2>1. /\ p' \in Procs(made) /\ Resting(p')
        /\ p'.who = "none" => p' = Nobody
        /\ p'.checked => p.checked
        /\ p'.pc = "poweroff" => p'.logFailed = TRUE
    BY <1>3, <1>5
  <2>2. /\ safe' \in SUBSET (1 .. made) /\ left' \in BOOLEAN /\ faults' \in Nat /\ kills' \in Nat
        /\ sys' # "off" /\ sys' \in {"up", "stopping", "off"}
    BY <1>1, <1>2, <1>5 DEF Fault, IInv, Typed
  <2> QED
    BY <1>1, <1>4, <1>5, <2>1, <2>2, EndStep
<1>6. CASE /\ pend' = Unwritten /\ p' = Flushed(p.failed)
           /\ left' = (left \/ (p.who = "tool" /\ p.failed))
           /\ UNCHANGED <<cuts, faults>>
  <2> DEFINE w == Whole(pend)
  <2> DEFINE a == p.off
  <2> DEFINE n == Len(w)
  <2>1. w \in Seq(Lines) /\ a \in Nat /\ n \in Nat /\ a <= n /\ n <= Len(w) /\ Clean(w)
    BY <1>2 DEF IInv, FilesOk
  <2>2. pend' = SubSeq(w, a + 1, n)
    BY <1>6 DEF Unwritten
  <2>3. p.failed \in BOOLEAN
    BY <1>2 DEF Procs
  <2>4. /\ p' \in Procs(made) /\ Resting(p')
        /\ p'.who = "none" => p' = Nobody
        /\ p'.checked => p.checked
        /\ p'.pc = "poweroff" => p'.logFailed = p.failed
    <3> DEFINE failed == p.failed
    <3>1. failed \in BOOLEAN /\ p' = Flushed(failed)
      BY <1>6, <2>3
    <3> HIDE DEF failed
    <3>2. /\ p' \in Procs(made) /\ Resting(p')
          /\ p'.who = "none" => p' = Nobody
          /\ p'.checked => p.checked
          /\ p'.pc = "poweroff" => p'.logFailed = failed
      BY <1>3, <3>1
    <3> QED
      BY <3>2 DEF failed
  <2> HIDE DEF w, a, n
  <2>5. /\ pend' \in Seq(Lines) /\ Len(pend') = n - a
        /\ \A i \in 1 .. n - a : pend'[i] = w[a + i]
        /\ DOMAIN pend' = 1 .. Len(pend')
    <3>1. /\ pend' \in Seq(Lines) /\ Len(pend') = IF a <= n THEN n - a ELSE 0
          /\ \A i \in 1 .. n - a : pend'[i] = w[a + i]
          /\ DOMAIN pend' = 1 .. Len(pend')
      BY <2>1, <2>2, PartIs
    <3> QED
      BY <2>1, <3>1
  <2>6. Clean(pend')
    BY <2>1, <2>2, PartIsClean
  <2>7. Whole(pend') = pend' /\ Readable(pend') = ToSet(pend')
    BY <1>2, <2>5, <2>6, RoomIsClean
  <2>8. Len(pend') <= PendingMax
    <3>1. Len(w) <= Len(pend) /\ Len(pend) <= PendingMax /\ Len(pend) \in Nat
      <4>1. pend \in Seq(Lines) /\ Len(pend) <= PendingMax
        BY DEF IInv, Typed
      <4> QED
        BY <4>1, WholeIs, LenProperties DEF w
    <3>2. PendingMax \in Nat
      BY BoundsAssumption
    <3> QED
      BY <2>1, <2>5, <3>1, <3>2 DEF n
  <2>9. Typed'
    BY <1>1, <1>6, <2>4, <2>5, <2>8 DEF IInv, Typed, Lines
  <2>10. BatchIsPending'
    BY <2>4 DEF BatchIsPending, Batching, Resting
  <2>11. Accounted'
    <3>1. (Logged \cup gone)' = Logged \cup gone
      BY <1>1 DEF Logged
    <3>2. ASSUME NEW r \in ToSet(w) PROVE r \in ToSet(pend') \cup Logged \cup gone
      <4>1. PICK i \in 1 .. n : w[i] = r
        BY <2>1, LenProperties DEF ToSet, n
      <4>2. CASE i <= a
        <5>1. p.buf[i] \in Logged \cup gone
          BY <1>1, <1>2, <2>1, <4>1, <4>2 DEF IInv, BatchIsPending, a
        <5> QED
          BY <1>2, <4>1, <5>1 DEF w
      <4>3. CASE ~(i <= a)
        <5>1. i - a \in 1 .. n - a /\ a + (i - a) = i
          BY <2>1, <4>1, <4>3
        <5>2. pend'[i - a] = r /\ i - a \in DOMAIN pend'
          BY <2>5, <4>1, <5>1
        <5> QED
          BY <5>2 DEF ToSet
      <4> QED
        BY <4>2, <4>3
    <3>3. Waiting = ToSet(w) /\ Waiting' = ToSet(pend')
      BY <1>2, <2>7 DEF Waiting, w
    <3>4. Accounted
      BY DEF IInv, FilesOk
    <3> QED
      BY <1>1, <3>1, <3>2, <3>3, <3>4 DEF Accounted
  <2>12. FilesOk'
    <3>1. Unwritten' = pend'
      <4>1. SubSeq(pend', 0 + 1, Len(pend')) = pend'
        BY <2>5, NothingWritten
      <4> QED
        BY <2>4, <2>7, <4>1 DEF Unwritten, Resting
    <3>2. Repeated(old, log.rows, Unwritten, cuts, made)
      BY DEF IInv, FilesOk
    <3>3. Repeated(old', log'.rows, Unwritten', cuts', made')
      BY <1>1, <1>6, <3>1, <3>2
    <3>4. Clean(Whole(pend'))
      BY <2>6, <2>7
    <3> QED
      BY <2>11, <3>3, <3>4 DEF FilesOk
  <2>13. ProcessOk'
    <3>1. p'.pc = "poweroff" /\ ~p'.logFailed => pend' = <<>>
      <4>1. ASSUME ~p.failed PROVE pend' = <<>>
        <5>1. a = n
          BY <1>1, <1>2, <4>1 DEF IInv, BatchIsPending, a, n, w
        <5>2. Len(pend') = 0
          BY <2>1, <2>5, <5>1
        <5> QED
          BY <2>5, <5>2, EmptySeq
      <4> QED
        BY <2>4, <4>1
    <3> QED
      BY <1>1, <1>2, <2>4, <2>7, <3>1 DEF ProcessOk
  <2> QED
    BY <1>4, <2>9, <2>10, <2>12, <2>13 DEF IInv
<1> QED
  BY <1>5, <1>6 DEF Replace

\* The process dies.
LEMMA StepKilled ==
    ASSUME IInv, Killed
    PROVE  IInv'
<1>1. /\ p.who # "none" /\ kills' = kills + 1 /\ p' = Nobody /\ left' = (left \/ p.who = "tool")
      /\ UNCHANGED <<old, safe, sys, made, faults>>
  BY DEF Killed
<1>2. sys # "off" /\ StopKeepsRows'
  BY <1>1, NotOff
<1>3. Nobody \in Procs(made) /\ Resting(Nobody) /\ Nobody.who = "none" /\ ~Nobody.checked
      /\ Nobody.pc = "idle"
  BY NobodyIs
<1>4. /\ safe' \in SUBSET (1 .. made) /\ left' \in BOOLEAN /\ faults' \in Nat /\ kills' \in Nat
      /\ sys' \in {"up", "stopping", "off"} /\ sys' # "off"
  BY <1>1, <1>2 DEF IInv, Typed
<1>5. CASE /\ p.pc \in {"start", "idle"}
           /\ pend' = Append(MakeRoom(pend, p.checked), Torn)
           /\ gone' = gone \cup (Readable(pend) \ Readable(pend'))
           /\ UNCHANGED <<log, cuts>>
  BY <1>1, <1>5, StepKilledAdding
<1>6. CASE cuts' = CutsWith(p.off) /\ UNCHANGED <<pend, log, gone>>
  BY <1>1, <1>2, <1>3, <1>4, <1>6, EndStep
<1>7. ASSUME p.pc = "write", ~MustRotate, NEW n \in 0 .. Fit, log' \in CutShort(n),
             cuts' = cuts + 1, UNCHANGED <<pend, gone>>
      PROVE  IInv'
  <2>1. p'.off \in {0, p.off}
    BY <1>1, <1>3 DEF Resting
  <2>2. /\ FilesOk' /\ log' \in [head : Heads, rows : Seq(Lines)] /\ log'.head = "ours"
        /\ Len(log'.rows) <= LogMax
    BY <1>1, <1>7, <2>1, CutWrite
  <2>3. Typed'
    <3>1. cuts' \in Nat
      BY <1>7 DEF IInv, Typed
    <3> QED
      BY <1>1, <1>3, <1>4, <1>7, <2>2, <3>1 DEF IInv, Typed, Lines
  <2>4. BatchIsPending'
    BY <1>1, <1>3 DEF BatchIsPending, Batching, Resting
  <2>5. ProcessOk'
    BY <1>1, <1>3 DEF ProcessOk
  <2> QED
    BY <1>2, <2>2, <2>3, <2>4, <2>5 DEF IInv
<1> QED
  BY <1>5, <1>6, <1>7 DEF Killed

\* The system goes down.
LEMMA StepOff ==
    ASSUME IInv, Off
    PROVE  IInv'
<1>1. /\ sys = "stopping" /\ p.who # "tool" /\ ~ToolNeeded /\ sys' = "off" /\ p' = Nobody
      /\ left' = (left \/ (p.who # "none" /\ pend # <<>>))
      /\ safe' = safe \cup Readable(log.rows) \cup Readable(old)
      /\ cuts' = CutsWith(p.off)
      /\ UNCHANGED <<pend, log, old, made, gone, faults, kills>>
  BY DEF Off, files
<1>2. Nobody \in Procs(made) /\ Resting(Nobody) /\ Nobody.who = "none" /\ ~Nobody.checked
      /\ Nobody.pc = "idle"
  BY NobodyIs
<1>3. StopKeepsRows'
  <2>1. ASSUME ~left' PROVE pend = <<>>
    BY <1>1, <2>1 DEF ToolNeeded
  <2>2. ASSUME pend = <<>> PROVE Readable(pend) = {}
    BY <2>2 DEF Readable
  <2>3. Accounted
    BY DEF IInv, FilesOk
  <2> QED
    BY <1>1, <2>1, <2>2, <2>3 DEF StopKeepsRows, Accounted, Waiting, Logged
<1>4. safe' \in SUBSET (1 .. made)
  <2>1. log.rows \in Seq(Lines) /\ old \in Seq(Lines) /\ safe \in SUBSET (1 .. made)
    BY DEF IInv, Typed
  <2>2. Readable(log.rows) \subseteq 1 .. made /\ Readable(old) \subseteq 1 .. made
    BY <2>1, StateIs, ReadableMade
  <2> QED
    BY <1>1, <2>1, <2>2
<1>5. left' \in BOOLEAN /\ faults' \in Nat /\ kills' \in Nat
  BY <1>1 DEF IInv, Typed
<1> QED
  BY <1>1, <1>2, <1>3, <1>4, <1>5, EndStep

-----------------------------------------------------------------------------
(* The invariant, and the properties.                                       *)

\* At the start there is no row and no process.
LEMMA InitHolds == Init => IInv
<1> SUFFICES ASSUME Init PROVE IInv
  OBVIOUS
<1> DEFINE e == <<>>
<1>1. /\ e \in Seq(Lines) /\ Len(e) = 0 /\ DOMAIN e = {} /\ 0 \in Nat
      /\ pend = e /\ old = e /\ log.rows = e /\ log.head \in {"none", "other"}
      /\ log = [head |-> log.head, rows |-> log.rows]
  BY EmptySeq DEF Init, NoFile
<1>2. Nobody \in Procs(made) /\ Resting(Nobody) /\ Nobody.who = "none" /\ ~Nobody.checked
      /\ Nobody.pc = "idle"
  BY NobodyIs
<1>3. /\ p = Nobody /\ safe = {} /\ gone = {} /\ made = 0 /\ cuts = 0 /\ faults = 0 /\ kills = 0
      /\ sys = "up" /\ left = FALSE
  BY DEF Init
<1>4. PendingMax \in Nat /\ LogMax \in Nat /\ MaxRows \in Nat
  BY BoundsAssumption
<1> HIDE DEF e
<1>5. Typed
  <2>1. log \in [head : Heads, rows : Seq(Lines)] /\ log.head # "ours"
    BY <1>1 DEF Heads
  <2>2. Len(pend) <= PendingMax /\ Len(log.rows) <= LogMax /\ Len(old) <= LogMax
    BY <1>1, <1>4
  <2>3. /\ safe \in SUBSET (1 .. made) /\ gone \in SUBSET (1 .. made) /\ made \in 0 .. MaxRows
        /\ cuts \in Nat /\ faults \in Nat /\ kills \in Nat
        /\ sys \in {"up", "stopping", "off"} /\ left \in BOOLEAN
    <3>1. 0 \in 0 .. MaxRows /\ 0 \in Nat
      BY <1>4
    <3>2. {} \in SUBSET (1 .. made)
      OBVIOUS
    <3> QED
      BY <1>3, <3>1, <3>2
  <2>4. pend \in Seq(Lines) /\ old \in Seq(Lines) /\ log.rows = e /\ p \in Procs(made)
    BY <1>1, <1>2, <1>3
  <2> QED
    BY <1>1, <2>1, <2>2, <2>3, <2>4 DEF Typed
<1>6. BatchIsPending
  BY <1>2, <1>3 DEF BatchIsPending, Batching, Resting
<1>7. Clean(e) /\ Whole(e) = e
  <2>1. Clean(e)
    BY <1>1 DEF Clean, Sorted, ToSet
  <2> QED
    BY <1>1, <2>1, CleanIsWhole DEF Clean
<1>8. ProcessOk
  BY <1>1, <1>2, <1>3, <1>7 DEF ProcessOk
<1>9. Unwritten = e
  <2>1. SubSeq(e, 0 + 1, Len(e)) = e
    BY <1>1, NothingWritten
  <2> QED
    BY <1>1, <1>2, <1>3, <1>7, <2>1 DEF Unwritten, Resting
<1>10. Repeated(e, e, e, 0, 0)
  <2>1. \A r : Times(r, e) = 0
    BY <1>1, TimesIsNat DEF e
  <2> QED
    BY <1>1, <2>1 DEF Repeated, Occurs, Sorted, Before
<1>11. FilesOk
  BY <1>1, <1>3, <1>7, <1>9, <1>10 DEF FilesOk, Accounted
<1>12. StopKeepsRows
  BY <1>3 DEF StopKeepsRows
<1> QED
  BY <1>5, <1>6, <1>8, <1>11, <1>12 DEF IInv

\* Every step of powerd, the flush tool and the system keeps the invariant.
LEMMA StepHolds == IInv /\ [Next]_vars => IInv'
<1> SUFFICES ASSUME IInv, [Next]_vars PROVE IInv'
  OBVIOUS
<1>1. CASE Start
  BY <1>1, StepStart
<1>2. CASE Term
  BY <1>2, StepFlushing DEF Term
<1>3. CASE Killed
  BY <1>3, StepKilled
<1>4. CASE \E urgent, last \in BOOLEAN : LogRow(urgent, last)
  BY <1>4, StepLogRow
<1>5. CASE FlushIfDue
  BY <1>5, StepFlushing DEF FlushIfDue
<1>6. CASE Read
  BY <1>6, StepRead
<1>7. CASE Rotate
  BY <1>7, StepRotate
<1>8. CASE WriteChunk
  BY <1>8, StepWriteChunk
<1>9. CASE Sync
  BY <1>9, StepSync
<1>10. CASE Replace
  BY <1>10, StepReplace
<1>11. CASE PowerOff
  BY <1>11, StepPowerOff
<1>12. CASE Stopping
  BY <1>12, StepStopping
<1>13. CASE FlushTool
  BY <1>13, StepFlushTool
<1>14. CASE Off
  BY <1>14, StepOff
<1>15. CASE UNCHANGED vars
  <2>1. UNCHANGED <<pend, log, old, safe, p, sys, left, made, gone, cuts, faults, kills>>
    BY <1>15 DEF vars, files, history
  <2>2. FilesOk'
    BY <2>1, FilesStay
  <2>3. Typed' /\ ProcessOk' /\ StopKeepsRows'
    BY <2>1 DEF IInv, Typed, Lines, ProcessOk, StopKeepsRows
  <2>4. BatchIsPending'
    BY <2>1 DEF IInv, BatchIsPending, Batching, Logged
  <2> QED
    BY <2>2, <2>3, <2>4 DEF IInv
<1> QED
  BY <1>1, <1>2, <1>3, <1>4, <1>5, <1>6, <1>7, <1>8, <1>9, <1>10, <1>11, <1>12, <1>13, <1>14,
     <1>15 DEF Next, Flush

\* The inductive invariant: every row that was made is waiting, logged or accounted for, the
\* batch of a flush is what log.pending holds, and no row is repeated beyond the cuts.
THEOREM SpecIInv == Spec => []IInv
<1>1. Init => IInv
  BY InitHolds
<1>2. IInv /\ [Next]_vars => IInv'
  BY StepHolds
<1> QED
  BY <1>1, <1>2, PTL DEF Spec

\* What the invariant says of types is more than TypeOK does.
LEMMA TypesFollow == IInv => TypeOK
<1> SUFFICES ASSUME IInv PROVE TypeOK
  OBVIOUS
<1>1. made \in Nat /\ made <= MaxRows /\ MaxRows \in Nat /\ PendingMax \in Nat /\ p.off \in Nat
  BY StateIs, BoundsAssumption DEF IInv, Typed
<1>2. Lines \subseteq Rows \cup {Torn} /\ 1 .. made \subseteq Rows
  BY <1>1 DEF Lines, Rows, Torn
<1>3. pend \in Seq(Lines) /\ log.rows \in Seq(Lines) /\ old \in Seq(Lines)
  BY DEF IInv, Typed
<1>4. /\ pend \in Seq(Rows \cup {Torn})
  BY <1>2, <1>3, SeqMonotonic
<1>5. /\ log.rows \in Seq(Rows \cup {Torn})
  BY <1>2, <1>3, SeqMonotonic
<1>6. /\ old \in Seq(Rows \cup {Torn})
  BY <1>2, <1>3, SeqMonotonic
<1>7. Len(pend) <= PendingMax + 1
  BY <1>1, <1>3, LenProperties DEF IInv, Typed
<1>8. p.off \in 0 .. Len(p.buf)
  <2>1. CASE Batching
    BY <1>1, <2>1, StateIs DEF IInv, BatchIsPending
  <2>2. CASE ~Batching
    <3>1. p.buf = <<>> /\ p.off = 0
      BY <2>2 DEF IInv, BatchIsPending
    <3>2. Len(<<>>) = 0
      BY EmptySeq
    <3> QED
      BY <3>1, <3>2
  <2> QED
    BY <2>1, <2>2
<1>9. {safe, gone} \subseteq SUBSET Rows
  BY <1>2 DEF IInv, Typed
<1>10. p.who \in {"none", "powerd", "tool"}
       /\ p.pc \in {"start", "idle", "read", "write", "sync", "replace", "poweroff"}
  BY DEF IInv, Typed, Procs
<1> QED
  BY <1>4, <1>5, <1>6, <1>7, <1>8, <1>9, <1>10 DEF IInv, Typed, TypeOK, Heads

\* In the three files together the count and the order are those that Repeated speaks of.
LEMMA RepeatsFollow == IInv => RepeatedOnlyByCuts
<1> SUFFICES ASSUME IInv PROVE RepeatedOnlyByCuts
  OBVIOUS
<1> DEFINE all == old \o log.rows \o Unwritten
<1> DEFINE two == old \o log.rows
<1>1. /\ made \in Nat /\ cuts \in Nat /\ Lines \in SUBSET Nat /\ Torn \in Lines
      /\ old \in Seq(Lines) /\ log.rows \in Seq(Lines)
      /\ Repeated(old, log.rows, Unwritten, cuts, made)
  BY StateIs DEF IInv, Typed, FilesOk
<1>2. Unwritten \in Seq(Lines) /\ Clean(Unwritten)
  <2> DEFINE w == Whole(pend)
  <2> DEFINE a == p.off
  <2> DEFINE n == Len(w)
  <2>1. w \in Seq(Lines) /\ a \in Nat /\ n \in Nat /\ n <= Len(w) /\ Clean(w)
    BY StateIs DEF IInv, FilesOk
  <2> HIDE DEF w, a, n
  <2>2. SubSeq(w, a + 1, n) \in Seq(Lines)
    BY <2>1, PartIs
  <2>3. Clean(SubSeq(w, a + 1, n))
    BY <2>1, PartIsClean
  <2> QED
    BY <2>2, <2>3 DEF Unwritten, w, a, n
<1>3. two \in Seq(Lines) /\ all = two \o Unwritten
  BY <1>1, ConcatProperties
<1>4. ASSUME NEW r
      PROVE  /\ Times(r, all) = Occurs(r, old, log.rows, Unwritten)
             /\ r \notin Lines => Times(r, all) = 0
  <2> DEFINE no == Times(r, old)
  <2> DEFINE nl == Times(r, log.rows)
  <2> DEFINE nu == Times(r, Unwritten)
  <2>1. Times(r, two) = no + nl
    BY <1>1, TimesOfBoth
  <2>2. Times(r, all) = Times(r, two) + nu
    <3> HIDE DEF two, all
    <3> QED
      BY <1>2, <1>3, TimesOfBoth
  <2>3. no \in Nat
    BY <1>1, TimesIsNat
  <2>4. nl \in Nat
    BY <1>1, TimesIsNat
  <2>5. nu \in Nat
    BY <1>2, TimesIsNat
  <2>6. Occurs(r, old, log.rows, Unwritten) = no + nl + nu
    BY DEF Occurs
  <2>7. r \notin Lines => no = 0 /\ nl = 0 /\ nu = 0
    BY <1>1, <1>2, TimesOfNew DEF Lines
  <2> HIDE DEF no, nl, nu, two, all
  <2> QED
    BY <2>1, <2>2, <2>3, <2>4, <2>5, <2>6, <2>7
<1> HIDE DEF all, two
<1>5. ASSUME NEW r \in Rows PROVE Times(r, all) <= 1 + cuts
  <2>1. CASE r \in 1 .. made
    BY <1>1, <1>4, <2>1 DEF Repeated
  <2>2. CASE r \notin 1 .. made
    <3>1. r \notin Lines
      BY <1>1, <2>2 DEF Rows, Lines
    <3>2. Times(r, all) = 0
      BY <1>4, <3>1
    <3> QED
      BY <1>1, <3>2
  <2> QED
    BY <2>1, <2>2
<1>6. Times(Torn, all) <= cuts
  BY <1>1, <1>4 DEF Repeated
<1>7. ASSUME cuts = 0 PROVE Sorted(all)
  <2>1. /\ Sorted(old) /\ Sorted(log.rows) /\ Before(old, log.rows)
        /\ Before(old, Unwritten) /\ Before(log.rows, Unwritten)
    BY <1>1, <1>7 DEF Repeated
  <2>2. Sorted(two)
    BY <1>1, <2>1, OrderOfBoth DEF two
  <2>3. Before(two, Unwritten)
    BY <1>1, <1>2, <2>1, BeforeBoth DEF two
  <2>4. Sorted(two \o Unwritten)
    BY <1>1, <1>2, <1>3, <2>2, <2>3, OrderOfBoth DEF Clean
  <2> QED
    BY <1>3, <2>4
<1> QED
  BY <1>5, <1>6, <1>7 DEF RepeatedOnlyByCuts, Sorted, all

\* Whatever calls fail and whenever the process dies, no row is lost unaccounted, log.pending
\* holds complete rows in order, and a row is repeated only by a flush that was cut short.
THEOREM SpecRowsKept == Spec => []RowsKept
<1>1. IInv => PendingClean
  <2> SUFFICES ASSUME IInv PROVE PendingClean
    OBVIOUS
  <2>1. pend \in Seq(Lines) /\ Clean(Whole(pend)) /\ Whole(pend) \in Seq(Lines)
    BY StateIs DEF IInv, Typed, FilesOk
  <2>2. \A i \in DOMAIN Whole(pend) : Whole(pend)[i] = pend[i]
    BY <2>1, WholeIs, LenProperties
  <2> QED
    BY <2>1, <2>2 DEF PendingClean, Clean, Sorted
<1>2. IInv => RowsKept
  BY <1>1, TypesFollow, RepeatsFollow DEF RowsKept, IInv, FilesOk
<1> QED
  BY <1>2, SpecIInv, PTL

\* When the system is off and chef-state has not said that rows are left, every row that was
\* not given up on has been synced: what no powerd flushed, the flush tool has.
THEOREM SpecStopKeepsRows == Spec => []StopKeepsRows
<1>1. IInv => StopKeepsRows
  BY DEF IInv
<1> QED
  BY <1>1, SpecIInv, PTL

\* When powerd runs its shutdown command, every row is on the disk or the flush is known to
\* have failed.
THEOREM SpecShutdownRowIsSafe == Spec => ShutdownRowIsSafe
<1>1. IInv /\ [Next]_vars => [PowerOff => p.logFailed \/ (1 .. made) \ gone \subseteq safe']_vars
  <2> SUFFICES ASSUME IInv, PowerOff, ~p.logFailed
               PROVE  (1 .. made) \ gone \subseteq safe'
    OBVIOUS
  <2>1. pend = <<>>
    BY DEF IInv, ProcessOk, PowerOff
  <2>2. Readable(pend) = {}
    BY <2>1 DEF Readable
  <2> QED
    BY <2>2 DEF IInv, FilesOk, Accounted, Waiting, Logged, PowerOff
<1> QED
  BY <1>1, SpecIInv, PTL DEF Spec, ShutdownRowIsSafe

=============================================================================
