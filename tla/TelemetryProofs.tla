---------------------------- MODULE TelemetryProofs ----------------------------
(***************************************************************************)
(* Theorems about TelemetryExport, for histories, descriptor tables and    *)
(* snapshots of any size: what an export maps and opens is given back, the *)
(* writer stays within its mapping, and what is on disk can be read.       *)
(***************************************************************************)
EXTENDS TelemetryExport, SumTheorems, SequenceTheorems

-----------------------------------------------------------------------------
(* Records and their bytes.                                                *)

Words == {"MAGIC", "VERSION", "count", "year", "branch", "heir"} \cup Nat

Entry == [bytes : Nat, value : Seq(Words)]

(* A tuple of members of a set is a sequence of them.                      *)
LEMMA TuplesAreSequences ==
  ASSUME NEW S, NEW a \in S, NEW b \in S, NEW c \in S
  PROVE  /\ <<a>> \in Seq(S) /\ <<a, b>> \in Seq(S)
         /\ <<a, b, c>> \in Seq(S)
<1>1. <<a>> \in Seq(S)
  OBVIOUS
<1>2. <<a, b>> \in Seq(S)
  OBVIOUS
<1>3. <<a, b, c>> \in Seq(S)
  OBVIOUS
<1> QED
  BY <1>1, <1>2, <1>3

(* A function on 1 .. n is a sequence.                                     *)
LEMMA FunctionsAreSequences ==
  ASSUME NEW S, NEW n \in Nat, NEW f \in [1 .. n -> S]
  PROVE  f \in Seq(S) /\ Len(f) = n
<1>1. f \in Seq(S)
  OBVIOUS
<1>2. Len(f) = n
  BY <1>1, LenProperties
<1> QED
  BY <1>1, <1>2

(* Two tuples of one are a tuple of two.                                   *)
LEMMA PairOfTuples ==
  ASSUME NEW S, NEW p \in S, NEW q \in S
  PROVE  <<p>> \o <<q>> = <<p, q>>
<1>1. <<p>> \in Seq(S) /\ <<q>> \in Seq(S) /\ <<p, q>> \in Seq(S)
  OBVIOUS
<1>2. Len(<<p>>) = 1 /\ Len(<<q>>) = 1 /\ Len(<<p, q>>) = 2
  OBVIOUS
<1>3. <<p>> \o <<q>> \in Seq(S) /\ Len(<<p>> \o <<q>>) = 2
  BY <1>1, <1>2, ConcatProperties
<1>4. \A i \in 1 .. 2 : (<<p>> \o <<q>>)[i] = <<p, q>>[i]
  BY <1>1, <1>2, ConcatProperties
<1> QED
  BY <1>1, <1>2, <1>3, <1>4, SeqEqual

(* Sequence st is s, of m elements, with t, of n elements, behind it.      *)
IsJoined(S, st, s, t, m, n) ==
  /\ st \in Seq(S) /\ Len(st) = m + n
  /\ \A i \in 1 .. m + n : st[i] = IF i <= m THEN s[i] ELSE t[i - m]

(* Concatenation puts one sequence behind the other.                       *)
LEMMA Joined ==
  ASSUME NEW S, NEW s \in Seq(S), NEW t \in Seq(S),
         NEW m \in Nat, NEW n \in Nat, Len(s) = m, Len(t) = n,
         NEW st, st = s \o t
  PROVE  IsJoined(S, st, s, t, m, n)
<1>1. st \in Seq(S)
  BY ConcatProperties
<1>2. Len(s \o t) = Len(s) + Len(t)
  BY ConcatProperties
<1>3. \A i \in 1 .. Len(s) + Len(t) :
        (s \o t)[i] = IF i <= Len(s) THEN s[i] ELSE t[i - Len(s)]
  BY ConcatProperties
<1> QED
  BY <1>1, <1>2, <1>3 DEF IsJoined

(* The sizes of the records.                                               *)
LEMMA RecordSizes ==
  /\ U32 = 4 /\ F64 = 8 /\ HeadBytes = 60 /\ BranchBytes = 44 /\ HeirBytes = 56
BY DEF U32, F64, U64, HeadBytes, BranchBytes, HeirBytes

(* The records the exports write are entries.                              *)
LEMMA RecordsAreEntries ==
  /\ Record(U32, <<"MAGIC">>) \in Entry
  /\ Record(U32, <<"VERSION">>) \in Entry
  /\ \A n \in Nat : /\ Record(U32, <<"count", n>>) \in Entry
                    /\ Record(HeadBytes, <<"year", n>>) \in Entry
  /\ \A k, j \in Nat : /\ Record(BranchBytes, <<"branch", k, j>>) \in Entry
                       /\ Record(HeirBytes, <<"heir", k, j>>) \in Entry
<1>1. /\ "MAGIC" \in Words /\ "VERSION" \in Words /\ "count" \in Words
      /\ "year" \in Words /\ "branch" \in Words /\ "heir" \in Words
      /\ \A n \in Nat : n \in Words
  BY DEF Words
<1>2. \A bytes \in Nat, value \in Seq(Words) : Record(bytes, value) \in Entry
  BY DEF Entry, Record
<1>3. <<"MAGIC">> \in Seq(Words) /\ <<"VERSION">> \in Seq(Words)
  BY <1>1, TuplesAreSequences
<1>4. \A n \in Nat : <<"count", n>> \in Seq(Words) /\ <<"year", n>> \in Seq(Words)
  BY <1>1, TuplesAreSequences
<1>5. \A k, j \in Nat : /\ <<"branch", k, j>> \in Seq(Words)
                         /\ <<"heir", k, j>> \in Seq(Words)
  BY <1>1, TuplesAreSequences
<1>6. U32 \in Nat /\ HeadBytes \in Nat /\ BranchBytes \in Nat /\ HeirBytes \in Nat
  BY RecordSizes
<1> QED
  BY <1>2, <1>3, <1>4, <1>5, <1>6

(* A file of some records is a number of bytes.                            *)
LEMMA BytesAreNatural ==
  ASSUME NEW s \in Seq(Entry)
  PROVE  /\ BytesOf(s) \in Nat
         /\ \A k \in 1 .. Len(s) : s[k].bytes \in Nat
         /\ IsFiniteSet(1 .. Len(s)) /\ DOMAIN s = 1 .. Len(s)
<1>1. /\ DOMAIN s = 1 .. Len(s) /\ Len(s) \in Nat
      /\ \A k \in 1 .. Len(s) : s[k] \in Entry
  BY LenProperties, ElementOfSeq
<1>2. \A k \in 1 .. Len(s) : s[k].bytes \in Nat
  BY <1>1 DEF Entry
<1>3. IsFiniteSet(1 .. Len(s))
  BY <1>1, FS_Interval
<1> DEFINE w == [k \in DOMAIN s |-> s[k].bytes]
<1>4. \A k \in 1 .. Len(s) : w[k] \in Nat
  BY <1>1, <1>2
<1> HIDE DEF w
<1>5. Total(w, 1 .. Len(s)) \in Nat
  BY <1>3, <1>4, TotalNat
<1> QED
  BY <1>1, <1>2, <1>3, <1>5 DEF BytesOf, w

(* Files that start with the same records have as many bytes in them.      *)
LEMMA BytesOfStart ==
  ASSUME NEW s \in Seq(Entry), NEW t \in Seq(Entry), Len(s) <= Len(t),
         \A k \in 1 .. Len(s) : s[k] = t[k]
  PROVE  BytesOf(s) <= BytesOf(t)
<1> DEFINE v == [k \in DOMAIN s |-> s[k].bytes]
           w == [k \in DOMAIN t |-> t[k].bytes]
           M == 1 .. Len(s)
           N == 1 .. Len(t)
<1>1. /\ DOMAIN s = M /\ DOMAIN t = N /\ IsFiniteSet(M) /\ IsFiniteSet(N)
      /\ \A k \in N : t[k].bytes \in Nat
  BY BytesAreNatural
<1>2. /\ M \in SUBSET N
      /\ \A k \in M : v[k] = w[k]
      /\ \A k \in N : w[k] \in Nat
  BY <1>1, LenProperties
<1>3. BytesOf(s) = Total(v, M) /\ BytesOf(t) = Total(w, N)
  BY <1>1 DEF BytesOf
<1> HIDE DEF v, w, M, N
<1>4. Total(v, M) = Total(w, M)
  BY <1>1, <1>2, TotalAgree
<1>5. Total(w, N) = Total(w, M) + Total(w, N \ M)
  <2>1. IsFiniteSet(N) /\ M \in SUBSET N /\ \A k \in N : w[k] \in Int
    BY <1>1, <1>2
  <2> QED BY <2>1, TotalSplit
<1>6. Total(w, N \ M) \in Nat /\ Total(w, M) \in Nat
  <2>1. IsFiniteSet(N \ M)
    BY <1>1, FS_Subset
  <2> QED BY <1>1, <1>2, <2>1, TotalNat
<1> QED
  BY <1>3, <1>4, <1>5, <1>6

(* The bytes of one file behind the other.                                 *)
LEMMA BytesOfBoth ==
  ASSUME NEW s \in Seq(Entry), NEW t \in Seq(Entry)
  PROVE  BytesOf(s \o t) = BytesOf(s) + BytesOf(t)
<1> DEFINE st == s \o t
           u == [k \in DOMAIN st |-> st[k].bytes]
           v == [k \in DOMAIN s |-> s[k].bytes]
           w == [k \in DOMAIN t |-> t[k].bytes]
           M == 1 .. Len(s)
           N == 1 .. Len(t)
           All == 1 .. Len(s) + Len(t)
           up == [k \in N |-> k + Len(s)]
<1>1. /\ st \in Seq(Entry) /\ Len(st) = Len(s) + Len(t)
      /\ Len(s) \in Nat /\ Len(t) \in Nat
      /\ \A k \in All : st[k] = IF k <= Len(s) THEN s[k] ELSE t[k - Len(s)]
  BY ConcatProperties, LenProperties
<1> HIDE DEF st
<1>2. /\ DOMAIN st = All /\ DOMAIN s = M /\ DOMAIN t = N
      /\ IsFiniteSet(All) /\ IsFiniteSet(M) /\ IsFiniteSet(N)
      /\ \A k \in All : st[k].bytes \in Nat
      /\ \A k \in N : t[k].bytes \in Nat
  BY <1>1, BytesAreNatural
<1>3. /\ BytesOf(st) = Total(u, All)
      /\ BytesOf(s) = Total(v, M) /\ BytesOf(t) = Total(w, N)
  BY <1>2 DEF BytesOf
<1>4. M \in SUBSET All /\ \A k \in M : v[k] = u[k]
  BY <1>1, <1>2
<1>5. \A k \in All : u[k] \in Nat
  BY <1>2
<1>6. \A k \in N : /\ up[k] = k + Len(s) /\ up[k] \in All
                   /\ w[k] \in Int /\ u[up[k]] = w[k]
  <2> SUFFICES ASSUME NEW k \in N
               PROVE  /\ up[k] = k + Len(s) /\ up[k] \in All
                      /\ w[k] \in Int /\ u[up[k]] = w[k]
    OBVIOUS
  <2>1. up[k] = k + Len(s) /\ up[k] \in All /\ ~(up[k] <= Len(s))
    BY <1>1
  <2>2. st[up[k]] = t[k]
    BY <1>1, <2>1
  <2>3. w[k] = t[k].bytes /\ u[up[k]] = st[up[k]].bytes
    BY <1>2, <2>1
  <2> QED BY <1>2, <2>1, <2>2, <2>3
<1>7. \A j, k \in N : j # k => up[j] # up[k]
  BY <1>1
<1>8. \A x : x \in All \ M <=> \E k \in N : x = up[k]
  <2>1. ASSUME NEW x \in All \ M PROVE \E k \in N : x = up[k]
    <3>1. x - Len(s) \in N /\ up[x - Len(s)] = x
      BY <1>1
    <3> QED BY <3>1
  <2>2. ASSUME NEW k \in N PROVE up[k] \in All \ M
    BY <1>1
  <2> QED BY <2>1, <2>2
<1> HIDE DEF u, v, w, M, N, All, up
<1>9. Total(v, M) = Total(u, M)
  BY <1>2, <1>4, TotalAgree
<1>10. Total(u, All \ M) = Total(w, N)
  <2>1. \A k \in N : w[k] \in Int /\ u[up[k]] = w[k]
    BY <1>6
  <2>2. IsFiniteSet(N)
    BY <1>2
  <2>3. \A j, k \in N : j # k => up[j] # up[k]
    BY <1>7
  <2> DEFINE rest == All \ M
  <2>4. \A x : x \in rest <=> \E k \in N : x = up[k]
    BY <1>8
  <2> HIDE DEF rest
  <2>5. Total(u, rest) = Total(w, N)
    BY <2>1, <2>2, <2>3, <2>4, TotalRename
  <2> QED BY <2>5 DEF rest
<1>11. Total(u, All) = Total(u, M) + Total(u, All \ M)
  BY <1>2, <1>4, <1>5, TotalSplit
<1> QED
  BY <1>3, <1>9, <1>10, <1>11 DEF st

(* Equal records have as many bytes as there are records of that size.     *)
LEMMA BytesOfEqual ==
  ASSUME NEW s \in Seq(Entry), NEW q \in Nat,
         \A k \in 1 .. Len(s) : s[k].bytes = q
  PROVE  BytesOf(s) = Len(s) * q
<1> DEFINE v == [k \in DOMAIN s |-> s[k].bytes]
           M == 1 .. Len(s)
<1>1. DOMAIN s = M /\ IsFiniteSet(M) /\ Cardinality(M) = Len(s)
  <2>1. DOMAIN s = M /\ Len(s) \in Nat
    BY BytesAreNatural, LenProperties
  <2>2. IsFiniteSet(M) /\ Cardinality(M) = Len(s)
    BY <2>1, FS_Interval
  <2> QED BY <2>1, <2>2
<1>2. BytesOf(s) = Total(v, M) /\ \A k \in M : v[k] = q
  BY <1>1 DEF BytesOf
<1> HIDE DEF v, M
<1>3. Total(v, M) = Cardinality(M) * q
  <2>1. IsFiniteSet(M) /\ q \in Int /\ \A k \in M : v[k] = q
    BY <1>1, <1>2
  <2> QED BY <2>1, TotalConstant
<1> QED
  BY <1>1, <1>2, <1>3

(* A record of its own.                                                    *)
LEMMA BytesOfOne ==
  ASSUME NEW e \in Entry
  PROVE  <<e>> \in Seq(Entry) /\ BytesOf(<<e>>) = e.bytes
<1>1. <<e>> \in Seq(Entry) /\ Len(<<e>>) = 1 /\ e.bytes \in Nat
  BY DEF Entry
<1>2. \A k \in 1 .. Len(<<e>>) : <<e>>[k].bytes = e.bytes
  OBVIOUS
<1>3. BytesOf(<<e>>) = Len(<<e>>) * e.bytes
  BY <1>1, <1>2, BytesOfEqual
<1> QED
  BY <1>1, <1>3

-----------------------------------------------------------------------------
(* The layout of the binary file.                                          *)

(* Everything up to year k, with the recursion of BinaryLayout named.      *)
UpToBody(h, u, k) ==
  IF k = 0 THEN BinaryHeader(Len(h)) ELSE u[k - 1] \o PutSnapshot(k, h[k])

UpTo(h) == CHOOSE u : u = [k \in 0 .. Len(h) |-> UpToBody(h, u, k)]

(* The recursion has a solution.                                           *)
LEMMA UpToExists ==
  ASSUME NEW h, Len(h) \in Nat
  PROVE  \E u : u = [k \in 0 .. Len(h) |-> UpToBody(h, u, k)]
<1> DEFINE K == 0 .. Len(h)
           L == {n \in Nat : \E u : \A k \in K :
                               k <= n => u[k] = UpToBody(h, u, k)}
<1>1. 0 \in L
  <2> DEFINE u == [k \in K |-> BinaryHeader(Len(h))]
  <2>1. \A k \in K : k <= 0 => u[k] = UpToBody(h, u, k)
    BY DEF UpToBody
  <2> HIDE DEF u
  <2> QED BY <2>1
<1>2. ASSUME NEW n \in Nat, n \in L PROVE n + 1 \in L
  <2>1. PICK u : \A k \in K : k <= n => u[k] = UpToBody(h, u, k)
    BY <1>2
  <2> DEFINE v == [k \in K |-> UpToBody(h, u, k)]
  <2>2. \A k \in K : k <= n => v[k] = u[k]
    BY <2>1
  <2>3. ASSUME NEW k \in K, k <= n + 1
        PROVE  v[k] = UpToBody(h, v, k)
    <3>1. v[k] = UpToBody(h, u, k)
      OBVIOUS
    <3> HIDE DEF v
    <3>2. k # 0 => v[k - 1] = u[k - 1]
      BY <2>2, <2>3
    <3> QED
      BY <3>1, <3>2 DEF UpToBody
  <2> HIDE DEF v
  <2> QED BY <2>3
<1>3. Nat \subseteq L
  <2> HIDE DEF L
  <2> QED BY <1>1, <1>2, NatSet
<1>4. PICK u : \A k \in K : u[k] = UpToBody(h, u, k)
  BY <1>3
<1> DEFINE v == [k \in K |-> u[k]]
<1>5. \A k \in K : UpToBody(h, u, k) = UpToBody(h, v, k)
  BY DEF UpToBody
<1>6. v = [k \in K |-> UpToBody(h, v, k)]
  <2>1. v = [k \in K |-> UpToBody(h, u, k)]
    BY <1>4
  <2> HIDE DEF v
  <2> QED BY <1>5, <2>1
<1> QED
  <2> HIDE DEF v
  <2> QED BY <1>6

(* The layout is the header with one snapshot behind the other.            *)
LEMMA LayoutUnfolds ==
  ASSUME NEW h, Len(h) \in Nat
  PROVE  /\ BinaryLayout(h) = UpTo(h)[Len(h)]
         /\ UpTo(h)[0] = BinaryHeader(Len(h))
         /\ \A k \in 1 .. Len(h) :
              UpTo(h)[k] = UpTo(h)[k - 1] \o PutSnapshot(k, h[k])
<1> DEFINE P(u) == u = [k \in 0 .. Len(h) |-> UpToBody(h, u, k)]
           f == UpTo(h)
<1>0. BinaryLayout(h) = f[Len(h)]
  BY DEF BinaryLayout, UpTo, UpToBody
<1>1. \E u : P(u)
  BY UpToExists
<1>2. f = CHOOSE u : P(u)
  BY DEF UpTo
<1> HIDE DEF P
<1>3. P(CHOOSE u : P(u))
  BY <1>1
<1> HIDE DEF f
<1>4. f = [k \in 0 .. Len(h) |-> UpToBody(h, f, k)]
  BY <1>2, <1>3 DEF P
<1>5. \A k \in 0 .. Len(h) : f[k] = UpToBody(h, f, k)
  BY <1>4
<1>6. f[0] = BinaryHeader(Len(h))
  BY <1>5 DEF UpToBody
<1>7. \A k \in 1 .. Len(h) : f[k] = f[k - 1] \o PutSnapshot(k, h[k])
  <2> SUFFICES ASSUME NEW k \in 1 .. Len(h)
               PROVE  f[k] = f[k - 1] \o PutSnapshot(k, h[k])
    OBVIOUS
  <2>1. k \in 0 .. Len(h) /\ k # 0
    OBVIOUS
  <2> QED BY <1>5, <2>1 DEF UpToBody
<1> QED
  BY <1>0, <1>6, <1>7 DEF f

(* The header.                                                             *)
LEMMA HeaderFacts ==
  ASSUME NEW n \in Nat
  PROVE  /\ BinaryHeader(n) \in Seq(Entry) /\ Len(BinaryHeader(n)) = 3
         /\ BinaryHeader(n)[1].value = <<"MAGIC">>
         /\ BinaryHeader(n)[2].value = <<"VERSION">>
         /\ BinaryHeader(n)[3].value = <<"count", n>>
         /\ BytesOf(BinaryHeader(n)) = 3 * U32
<1>1. /\ Record(U32, <<"MAGIC">>) \in Entry
      /\ Record(U32, <<"VERSION">>) \in Entry
      /\ Record(U32, <<"count", n>>) \in Entry
      /\ U32 \in Nat
  BY RecordsAreEntries, RecordSizes
<1>2. BinaryHeader(n) \in Seq(Entry)
  BY <1>1, TuplesAreSequences DEF BinaryHeader
<1>3. /\ Len(BinaryHeader(n)) = 3
      /\ BinaryHeader(n)[1].value = <<"MAGIC">>
      /\ BinaryHeader(n)[2].value = <<"VERSION">>
      /\ BinaryHeader(n)[3].value = <<"count", n>>
  BY DEF BinaryHeader, Record
<1>4. \A k \in 1 .. Len(BinaryHeader(n)) : BinaryHeader(n)[k].bytes = U32
  BY <1>3 DEF BinaryHeader, Record
<1>5. BytesOf(BinaryHeader(n)) = 3 * U32
  BY <1>1, <1>2, <1>3, <1>4, BytesOfEqual
<1> QED
  BY <1>2, <1>3, <1>5

(* The branches and the heirs of a year.                                   *)
LEMMA RowsAreEntries ==
  ASSUME NEW k \in Nat, NEW n \in Nat
  PROVE  /\ [j \in 1 .. n |-> Record(BranchBytes, <<"branch", k, j>>)]
              \in [1 .. n -> Entry]
         /\ [j \in 1 .. n |-> Record(HeirBytes, <<"heir", k, j>>)]
              \in [1 .. n -> Entry]
<1> DEFINE branch(j) == Record(BranchBytes, <<"branch", k, j>>)
           heir(j) == Record(HeirBytes, <<"heir", k, j>>)
<1>1. \A j \in Nat : branch(j) \in Entry /\ heir(j) \in Entry
  BY RecordsAreEntries
<1> HIDE DEF branch, heir
<1>2. /\ [j \in 1 .. n |-> branch(j)] \in [1 .. n -> Entry]
      /\ [j \in 1 .. n |-> heir(j)] \in [1 .. n -> Entry]
  BY <1>1
<1> QED
  BY <1>2 DEF branch, heir

(* A row of n records of q bytes.                                          *)
IsRow(row, n, q) ==
  row \in Seq(Entry) /\ Len(row) = n /\ BytesOf(row) = n * q

(* As many records of one size as there are indices are a row.             *)
LEMMA BytesOfRow ==
  ASSUME NEW n \in Nat, NEW row \in [1 .. n -> Entry], NEW q \in Nat,
         \A j \in 1 .. n : row[j].bytes = q
  PROVE  IsRow(row, n, q)
<1>1. row \in Seq(Entry) /\ Len(row) = n
  BY FunctionsAreSequences
<1> QED
  BY <1>1, BytesOfEqual DEF IsRow

(* Two records, b of them, one and e of them, one behind the other.        *)
InFourParts(s, p, q, r, t, b, e) ==
  /\ s \in Seq(Entry) /\ Len(s) = 3 + b + e
  /\ s[1] = p[1] /\ s[2] = p[2] /\ s[3 + b] = r[1]
  /\ \A j \in 1 .. b : s[2 + j] = q[j]
  /\ \A j \in 1 .. e : s[3 + b + j] = t[j]
  /\ BytesOf(s) = BytesOf(p) + BytesOf(q) + BytesOf(r) + BytesOf(t)

(* Concatenation puts the parts one behind the other.                      *)
LEMMA FourParts ==
  ASSUME NEW p \in Seq(Entry), NEW q \in Seq(Entry),
         NEW r \in Seq(Entry), NEW t \in Seq(Entry),
         NEW b \in Nat, NEW e \in Nat,
         Len(p) = 2, Len(q) = b, Len(r) = 1, Len(t) = e,
         NEW s, s = ((p \o q) \o r) \o t
  PROVE  InFourParts(s, p, q, r, t, b, e)
<1>1. PICK head : head = p \o q
  OBVIOUS
<1>2. IsJoined(Entry, head, p, q, 2, b)
  BY <1>1, Joined
<1>3. PICK body : body = head \o r
  OBVIOUS
<1>4. head \in Seq(Entry) /\ Len(head) = 2 + b /\ 2 + b \in Nat
  BY <1>2 DEF IsJoined
<1>5. IsJoined(Entry, body, head, r, 2 + b, 1)
  BY <1>3, <1>4, Joined
<1>6. s = body \o t
  BY <1>1, <1>3
<1>7. body \in Seq(Entry) /\ Len(body) = 3 + b /\ 3 + b \in Nat
  BY <1>5 DEF IsJoined
<1>8. IsJoined(Entry, s, body, t, 3 + b, e)
  BY <1>6, <1>7, Joined
<1>9. BytesOf(s) = BytesOf(p) + BytesOf(q) + BytesOf(r) + BytesOf(t)
  <2>1. BytesOf(head) = BytesOf(p) + BytesOf(q)
    BY <1>1, BytesOfBoth
  <2>2. BytesOf(body) = BytesOf(head) + BytesOf(r)
    BY <1>3, <1>4, BytesOfBoth
  <2>3. BytesOf(s) = BytesOf(body) + BytesOf(t)
    BY <1>6, <1>7, BytesOfBoth
  <2> QED BY <2>1, <2>2, <2>3
<1>10. \A i \in 1 .. 2 + b : s[i] = head[i]
  BY <1>5, <1>8 DEF IsJoined
<1>11. s[1] = p[1] /\ s[2] = p[2]
  <2>1. 1 \in 1 .. 2 + b /\ 2 \in 1 .. 2 + b
    OBVIOUS
  <2>2. head[1] = p[1] /\ head[2] = p[2]
    BY <1>2, <2>1 DEF IsJoined
  <2> QED BY <1>10, <2>1, <2>2
<1>12. s[3 + b] = r[1]
  BY SMTT(30), <1>5, <1>8 DEF IsJoined
<1>13. \A j \in 1 .. b : s[2 + j] = q[j]
  <2> SUFFICES ASSUME NEW j \in 1 .. b PROVE s[2 + j] = q[j]
    OBVIOUS
  <2>1. 2 + j \in 1 .. 2 + b /\ ~(2 + j <= 2) /\ (2 + j) - 2 = j
    OBVIOUS
  <2>2. head[2 + j] = q[(2 + j) - 2]
    BY <1>2, <2>1 DEF IsJoined
  <2> QED BY <1>10, <2>1, <2>2
<1>14. \A j \in 1 .. e : s[3 + b + j] = t[j]
  BY <1>8 DEF IsJoined
<1>15. s \in Seq(Entry) /\ Len(s) = 3 + b + e
  BY <1>8 DEF IsJoined
<1> QED
  BY <1>9, <1>11, <1>12, <1>13, <1>14, <1>15 DEF InFourParts

YearRecords(snap) == 3 + snap.branches + snap.heirs

(* A year: its head, the count of the branches, the branches, the count of *)
(* the heirs and the heirs, eight bytes fewer than YearBytes allows for.   *)
LEMMA SnapshotFacts ==
  ASSUME NEW snap \in [branches : Nat, heirs : Nat], NEW k \in Nat
  PROVE  LET s == PutSnapshot(k, snap)
             b == snap.branches
             e == snap.heirs
         IN  /\ s \in Seq(Entry) /\ Len(s) = YearRecords(snap)
             /\ s[1].value = <<"year", k>>
             /\ s[2].value = <<"count", b>>
             /\ \A j \in 1 .. b : s[2 + j].value = <<"branch", k, j>>
             /\ s[3 + b].value = <<"count", e>>
             /\ \A j \in 1 .. e : s[3 + b + j].value = <<"heir", k, j>>
             /\ BytesOf(s) + F64 = YearBytes(snap)
             /\ BytesOf(s) = HeadBytes + 2 * U32 + b * BranchBytes + e * HeirBytes
<1>1. PICK b, e \in Nat : b = snap.branches /\ e = snap.heirs
  OBVIOUS
<1>2. PICK x, y, z : /\ x = Record(HeadBytes, <<"year", k>>)
                     /\ y = Record(U32, <<"count", b>>)
                     /\ z = Record(U32, <<"count", e>>)
  OBVIOUS
<1>3. x \in Entry /\ y \in Entry /\ z \in Entry
  BY <1>1, <1>2, RecordsAreEntries
<1>4. /\ x.bytes = HeadBytes /\ y.bytes = U32 /\ z.bytes = U32
      /\ x.value = <<"year", k>>
      /\ y.value = <<"count", b>> /\ z.value = <<"count", e>>
  BY <1>2 DEF Record
<1>5. PICK q : q = [j \in 1 .. b |-> Record(BranchBytes, <<"branch", k, j>>)]
  OBVIOUS
<1>6. PICK t : t = [j \in 1 .. e |-> Record(HeirBytes, <<"heir", k, j>>)]
  OBVIOUS
<1>7. PutSnapshot(k, snap) = ((<<x, y>> \o q) \o <<z>>) \o t
  BY <1>1, <1>2, <1>5, <1>6 DEF PutSnapshot
<1>8. /\ q \in [1 .. b -> Entry] /\ t \in [1 .. e -> Entry]
  BY <1>1, <1>5, <1>6, RowsAreEntries
<1>9. /\ \A j \in 1 .. b : /\ q[j].bytes = BranchBytes
                            /\ q[j].value = <<"branch", k, j>>
      /\ \A j \in 1 .. e : /\ t[j].bytes = HeirBytes
                            /\ t[j].value = <<"heir", k, j>>
  BY <1>5, <1>6 DEF Record
<1>10. /\ q \in Seq(Entry) /\ Len(q) = b /\ BytesOf(q) = b * BranchBytes
       /\ t \in Seq(Entry) /\ Len(t) = e /\ BytesOf(t) = e * HeirBytes
  <2>1. BranchBytes \in Nat /\ HeirBytes \in Nat
    BY RecordSizes
  <2>2. IsRow(q, b, BranchBytes) /\ IsRow(t, e, HeirBytes)
    BY <1>1, <1>8, <1>9, <2>1, BytesOfRow
  <2> QED BY <2>2 DEF IsRow
<1>11. PICK p : p = <<x, y>>
  OBVIOUS
<1>12. /\ p \in Seq(Entry) /\ Len(p) = 2 /\ p[1] = x /\ p[2] = y
       /\ BytesOf(p) = HeadBytes + U32
  <2>1. p \in Seq(Entry)
    BY <1>3, <1>11, TuplesAreSequences
  <2>2. Len(p) = 2 /\ p[1] = x /\ p[2] = y
    BY <1>11
  <2>3. /\ <<x>> \in Seq(Entry) /\ BytesOf(<<x>>) = HeadBytes
        /\ <<y>> \in Seq(Entry) /\ BytesOf(<<y>>) = U32
    BY <1>3, <1>4, BytesOfOne
  <2>4. BytesOf(<<x>> \o <<y>>) = BytesOf(<<x>>) + BytesOf(<<y>>)
    BY <2>3, BytesOfBoth
  <2>5. <<x>> \o <<y>> = p
    BY <1>3, <1>11, PairOfTuples
  <2> QED BY <2>1, <2>2, <2>3, <2>4, <2>5
<1>13. PICK r : r = <<z>>
  OBVIOUS
<1>14. r \in Seq(Entry) /\ Len(r) = 1 /\ r[1] = z /\ BytesOf(r) = U32
  BY <1>3, <1>4, <1>13, BytesOfOne
<1>15. PICK s : s = ((p \o q) \o r) \o t
  OBVIOUS
<1>16. s = PutSnapshot(k, snap)
  BY <1>7, <1>11, <1>13, <1>15
<1>17. /\ s \in Seq(Entry) /\ Len(s) = 3 + b + e
       /\ s[1] = x /\ s[2] = y /\ s[3 + b] = z
       /\ \A j \in 1 .. b : s[2 + j] = q[j]
       /\ \A j \in 1 .. e : s[3 + b + j] = t[j]
       /\ BytesOf(s) = BytesOf(p) + BytesOf(q) + BytesOf(r) + BytesOf(t)
  <2>1. InFourParts(s, p, q, r, t, b, e)
    BY <1>1, <1>10, <1>12, <1>14, <1>15, FourParts
  <2> QED BY <1>12, <1>14, <2>1 DEF InFourParts
<1>18. BytesOf(s) = HeadBytes + 2 * U32 + b * BranchBytes + e * HeirBytes
  <2>1. b * BranchBytes \in Nat /\ e * HeirBytes \in Nat
    BY <1>1, RecordSizes
  <2> QED BY <1>10, <1>12, <1>14, <1>17, <2>1, RecordSizes
<1>19. BytesOf(s) + F64 = YearBytes(snap)
  <2>1. b * BranchBytes \in Nat /\ e * HeirBytes \in Nat
    BY <1>1, RecordSizes
  <2> QED BY <1>1, <1>18, <2>1, RecordSizes DEF YearBytes
<1>20. Len(s) = YearRecords(snap)
  BY <1>1, <1>17 DEF YearRecords
<1> QED
  BY <1>1, <1>4, <1>9, <1>16, <1>17, <1>18, <1>19, <1>20

(* A history and the bytes that are allowed for each of its years.         *)
Histories == Seq([branches : Nat, heirs : Nat])

YearSizes(h) == [k \in DOMAIN h |-> YearBytes(h[k])]

(* What is known of the records up to year k.                              *)
SizedUpTo(h, k) ==
  /\ UpTo(h)[k] \in Seq(Entry) /\ Len(UpTo(h)[k]) >= 3
  /\ BytesOf(UpTo(h)[k]) + F64 * k = 3 * U32 + Total(YearSizes(h), 1 .. k)

(* A year of a history.                                                    *)
LEMMA YearFacts ==
  ASSUME NEW h \in Histories
  PROVE  /\ Len(h) \in Nat /\ DOMAIN h = 1 .. Len(h)
         /\ \A k \in 1 .. Len(h) :
              /\ h[k] \in [branches : Nat, heirs : Nat]
              /\ h[k].branches \in Nat /\ h[k].heirs \in Nat
              /\ YearRecords(h[k]) \in Nat /\ YearRecords(h[k]) >= 3
              /\ YearSizes(h)[k] = YearBytes(h[k])
              /\ YearSizes(h)[k] \in Nat /\ YearSizes(h)[k] > 0
<1>1. Len(h) \in Nat /\ DOMAIN h = 1 .. Len(h)
  BY LenProperties DEF Histories
<1>2. SUFFICES ASSUME NEW k \in 1 .. Len(h)
               PROVE  /\ h[k] \in [branches : Nat, heirs : Nat]
                      /\ h[k].branches \in Nat /\ h[k].heirs \in Nat
                      /\ YearRecords(h[k]) \in Nat /\ YearRecords(h[k]) >= 3
                      /\ YearSizes(h)[k] = YearBytes(h[k])
                      /\ YearSizes(h)[k] \in Nat /\ YearSizes(h)[k] > 0
  BY <1>1
<1>3. h[k] \in [branches : Nat, heirs : Nat]
  BY ElementOfSeq DEF Histories
<1>4. PICK b, e \in Nat : b = h[k].branches /\ e = h[k].heirs
  BY <1>3
<1>5. YearRecords(h[k]) \in Nat /\ YearRecords(h[k]) >= 3
  BY SMTT(30), <1>4 DEF YearRecords
<1>6. YearSizes(h)[k] = YearBytes(h[k])
  BY <1>1 DEF YearSizes
<1>7. YearBytes(h[k]) = 4 + 8 * 8 + 4 + b * 44 + 4 + e * 56
  BY <1>4, RecordSizes DEF YearBytes
<1> QED
  BY SMTT(30), <1>3, <1>4, <1>5, <1>6, <1>7

(* Year k is put behind the ones before it.                                *)
LEMMA NextYear ==
  ASSUME NEW h \in Histories, NEW k \in 1 .. Len(h), UpTo(h)[k - 1] \in Seq(Entry)
  PROVE  /\ IsJoined(Entry, UpTo(h)[k], UpTo(h)[k - 1], PutSnapshot(k, h[k]),
                     Len(UpTo(h)[k - 1]), YearRecords(h[k]))
         /\ BytesOf(UpTo(h)[k]) + F64 = BytesOf(UpTo(h)[k - 1]) + YearBytes(h[k])
<1>1. UpTo(h)[k] = UpTo(h)[k - 1] \o PutSnapshot(k, h[k])
  BY YearFacts, LayoutUnfolds
<1>2. /\ PutSnapshot(k, h[k]) \in Seq(Entry)
      /\ Len(PutSnapshot(k, h[k])) = YearRecords(h[k])
      /\ BytesOf(PutSnapshot(k, h[k])) + F64 = YearBytes(h[k])
  BY YearFacts, SnapshotFacts
<1>3. Len(UpTo(h)[k - 1]) \in Nat /\ YearRecords(h[k]) \in Nat
  BY YearFacts, LenProperties
<1>4. IsJoined(Entry, UpTo(h)[k], UpTo(h)[k - 1], PutSnapshot(k, h[k]),
               Len(UpTo(h)[k - 1]), YearRecords(h[k]))
  BY <1>1, <1>2, <1>3, Joined
<1>5. BytesOf(UpTo(h)[k])
        = BytesOf(UpTo(h)[k - 1]) + BytesOf(PutSnapshot(k, h[k]))
  BY <1>1, <1>2, BytesOfBoth
<1>6. /\ BytesOf(UpTo(h)[k - 1]) \in Nat
      /\ BytesOf(PutSnapshot(k, h[k])) \in Nat
  BY <1>2, BytesAreNatural
<1> QED
  BY <1>2, <1>4, <1>5, <1>6, RecordSizes

(* The bytes allowed for the years up to one and to the next.              *)
LEMMA YearTotals ==
  ASSUME NEW h \in Histories, NEW n \in Nat, n + 1 \in 1 .. Len(h)
  PROVE  /\ Total(YearSizes(h), 1 .. n + 1)
              = YearSizes(h)[n + 1] + Total(YearSizes(h), 1 .. n)
         /\ Total(YearSizes(h), 1 .. n) \in Nat
<1> DEFINE w == YearSizes(h)
           k == n + 1
<1>1. IsFiniteSet(1 .. n)
  BY FS_Interval
<1>2. k \notin 1 .. n
  OBVIOUS
<1>3. (1 .. n) \cup {k} = 1 .. k
  OBVIOUS
<1>4. w[k] \in Int /\ \A x \in 1 .. n : w[x] \in Nat
  BY YearFacts
<1>5. \A x \in 1 .. n : w[x] \in Int
  BY <1>4
<1> HIDE DEF w, k
<1>6. Total(w, 1 .. k) = w[k] + Total(w, 1 .. n)
  BY <1>1, <1>2, <1>3, <1>4, <1>5, TotalAdd
<1>7. Total(w, 1 .. n) \in Nat
  BY <1>1, <1>4, TotalNat
<1> QED
  BY <1>6, <1>7 DEF w, k

(* The records up to a year: their number of bytes is what total_bytes     *)
(* counts, but for one amount per year.                                    *)
LEMMA UpToFacts ==
  ASSUME NEW h \in Histories
  PROVE  \A k \in 0 .. Len(h) : SizedUpTo(h, k)
<1> DEFINE L == {n \in Nat : n \in 0 .. Len(h) => SizedUpTo(h, n)}
<1>1. 0 \in L
  <2>1. UpTo(h)[0] = BinaryHeader(Len(h))
    BY YearFacts, LayoutUnfolds
  <2>2. /\ UpTo(h)[0] \in Seq(Entry) /\ Len(UpTo(h)[0]) = 3
        /\ BytesOf(UpTo(h)[0]) = 3 * U32
    BY <2>1, YearFacts, HeaderFacts
  <2>3. Total(YearSizes(h), 1 .. 0) = 0
    <3>1. 1 .. 0 = {}
      OBVIOUS
    <3> QED BY <3>1, TotalEmpty
  <2>4. SizedUpTo(h, 0)
    BY <2>2, <2>3, RecordSizes DEF SizedUpTo
  <2> QED BY <2>4
<1>2. ASSUME NEW n \in Nat, n \in L PROVE n + 1 \in L
  <2> SUFFICES ASSUME n + 1 \in 0 .. Len(h) PROVE SizedUpTo(h, n + 1)
    OBVIOUS
  <2> DEFINE k == n + 1
             w == YearSizes(h)
  <2>1. k \in 1 .. Len(h) /\ k - 1 = n /\ n \in 0 .. Len(h)
    BY YearFacts
  <2>2. SizedUpTo(h, n)
    BY <1>2, <2>1
  <2>3. /\ IsJoined(Entry, UpTo(h)[k], UpTo(h)[n], PutSnapshot(k, h[k]),
                    Len(UpTo(h)[n]), YearRecords(h[k]))
        /\ BytesOf(UpTo(h)[k]) + F64 = BytesOf(UpTo(h)[n]) + YearBytes(h[k])
    BY <2>1, <2>2, NextYear DEF SizedUpTo
  <2>4. Total(w, 1 .. k) = w[k] + Total(w, 1 .. n)
    BY <2>1, YearTotals
  <2>5. Total(w, 1 .. n) \in Nat
    BY <2>1, YearTotals
  <2>6. w[k] = YearBytes(h[k]) /\ w[k] \in Nat
    BY <2>1, YearFacts
  <2>7. BytesOf(UpTo(h)[n]) \in Nat /\ Len(UpTo(h)[n]) \in Nat
    BY <2>2, BytesAreNatural, LenProperties DEF SizedUpTo
  <2>8. UpTo(h)[k] \in Seq(Entry)
    BY <2>3 DEF IsJoined
  <2>9. Len(UpTo(h)[k]) >= 3
    BY <2>1, <2>2, <2>3, <2>7, YearFacts DEF IsJoined, SizedUpTo
  <2>10. BytesOf(UpTo(h)[k]) \in Nat
    BY <2>8, BytesAreNatural
  <2>11. BytesOf(UpTo(h)[k]) + F64 * k = 3 * U32 + Total(w, 1 .. k)
    <3>1. BytesOf(UpTo(h)[n]) + F64 * n = 3 * U32 + Total(w, 1 .. n)
      BY <2>2 DEF SizedUpTo
    <3>2. F64 * k = F64 * n + F64
      BY RecordSizes
    <3>3. BytesOf(UpTo(h)[k]) + F64 = BytesOf(UpTo(h)[n]) + w[k]
      BY <2>3, <2>6
    <3>4. PICK p, q, r, t, x \in Nat :
            /\ p = BytesOf(UpTo(h)[k]) /\ q = BytesOf(UpTo(h)[n]) /\ r = w[k]
            /\ t = Total(w, 1 .. n) /\ x = F64 * n
      BY <2>5, <2>6, <2>7, <2>10, RecordSizes
    <3>5. p + F64 = q + r /\ q + x = 3 * U32 + t
      BY <3>1, <3>3, <3>4
    <3>6. Total(w, 1 .. k) = r + t /\ F64 * k = x + F64
      BY <2>4, <3>2, <3>4
    <3>7. p + (x + F64) = 3 * U32 + (r + t)
      BY <3>5, RecordSizes
    <3> QED BY <3>4, <3>6, <3>7
  <2> QED BY <2>8, <2>9, <2>11 DEF SizedUpTo
<1>3. Nat \subseteq L
  <2> HIDE DEF L
  <2> QED BY <1>1, <1>2, NatSet
<1> QED
  BY <1>3

(* One sequence is the beginning of another.                               *)
Begins(s, t) == Len(s) <= Len(t) /\ \A i \in 1 .. Len(s) : t[i] = s[i]

(* The layout begins with the records up to any of its years.              *)
LEMMA LayoutBegins ==
  ASSUME NEW h \in Histories, NEW k \in 0 .. Len(h)
  PROVE  Begins(UpTo(h)[k], BinaryLayout(h))
<1> DEFINE L == {n \in Nat : k + n \in 0 .. Len(h) =>
                               Begins(UpTo(h)[k], UpTo(h)[k + n])}
<1>1. /\ Len(h) \in Nat
      /\ \A j \in 0 .. Len(h) : /\ UpTo(h)[j] \in Seq(Entry)
                                /\ Len(UpTo(h)[j]) \in Nat
  BY YearFacts, UpToFacts, LenProperties DEF SizedUpTo
<1>2. 0 \in L
  <2>1. k + 0 = k
    OBVIOUS
  <2>2. Begins(UpTo(h)[k], UpTo(h)[k])
    BY <1>1 DEF Begins
  <2> QED BY <2>1, <2>2
<1>3. ASSUME NEW n \in Nat, n \in L PROVE n + 1 \in L
  <2> SUFFICES ASSUME k + (n + 1) \in 0 .. Len(h)
               PROVE  Begins(UpTo(h)[k], UpTo(h)[k + (n + 1)])
    OBVIOUS
  <2>1. PICK j \in 0 .. Len(h) : j = k + n
    BY <1>1
  <2>2. k + (n + 1) = j + 1 /\ j + 1 \in 1 .. Len(h) /\ (j + 1) - 1 = j
    BY <1>1, <2>1
  <2>3. Begins(UpTo(h)[k], UpTo(h)[j])
    BY <1>3, <2>1
  <2>4. IsJoined(Entry, UpTo(h)[j + 1], UpTo(h)[j], PutSnapshot(j + 1, h[j + 1]),
                 Len(UpTo(h)[j]), YearRecords(h[j + 1]))
    BY <1>1, <2>2, NextYear
  <2>5. YearRecords(h[j + 1]) \in Nat
    BY <2>2, YearFacts
  <2>6. Begins(UpTo(h)[j], UpTo(h)[j + 1])
    BY SMTT(30), <1>1, <2>4, <2>5 DEF IsJoined, Begins
  <2>7. Begins(UpTo(h)[k], UpTo(h)[j + 1])
    <3>1. /\ Len(UpTo(h)[k]) \in Nat /\ Len(UpTo(h)[j]) \in Nat
          /\ Len(UpTo(h)[j + 1]) \in Nat
      BY <1>1, <2>2
    <3> QED BY <2>3, <2>6, <3>1 DEF Begins
  <2> QED BY <2>2, <2>7
<1>4. Nat \subseteq L
  <2> HIDE DEF L
  <2> QED BY <1>2, <1>3, NatSet
<1>5. Len(h) - k \in Nat /\ k + (Len(h) - k) = Len(h)
  BY <1>1
<1>6. Begins(UpTo(h)[k], UpTo(h)[Len(h)])
  <2>1. PICK n \in Nat : n = Len(h) - k
    BY <1>5
  <2>2. k + n = Len(h) /\ k + n \in 0 .. Len(h)
    BY <1>1, <2>1
  <2>3. n \in L
    BY <1>4
  <2>4. Begins(UpTo(h)[k], UpTo(h)[k + n])
    BY <2>2, <2>3
  <2> QED BY <2>2, <2>4
<1> QED
  BY <1>1, <1>6, LayoutUnfolds

(* The whole layout, and the size that the file is given for it.           *)
LEMMA LayoutFacts ==
  ASSUME NEW h \in Histories
  PROVE  /\ BinaryLayout(h) \in Seq(Entry)
         /\ Len(BinaryLayout(h)) \in Nat /\ Len(BinaryLayout(h)) >= 3
         /\ BytesOf(BinaryLayout(h)) \in Nat
         /\ TotalBytes(h) = BytesOf(BinaryLayout(h)) + F64 * Len(h)
         /\ TotalBytes(h) \in Nat /\ TotalBytes(h) > 0
<1>1. Len(h) \in Nat /\ DOMAIN h = 1 .. Len(h) /\ SizedUpTo(h, Len(h))
  BY YearFacts, UpToFacts
<1>2. BinaryLayout(h) = UpTo(h)[Len(h)]
  BY <1>1, LayoutUnfolds
<1>3. /\ BinaryLayout(h) \in Seq(Entry) /\ Len(BinaryLayout(h)) >= 3
      /\ BytesOf(BinaryLayout(h)) + F64 * Len(h)
           = 3 * U32 + Total(YearSizes(h), 1 .. Len(h))
  BY <1>1, <1>2 DEF SizedUpTo
<1>4. Len(BinaryLayout(h)) \in Nat /\ BytesOf(BinaryLayout(h)) \in Nat
  BY <1>3, LenProperties, BytesAreNatural
<1>5. TotalBytes(h) = 3 * U32 + Total(YearSizes(h), 1 .. Len(h))
  BY <1>1 DEF TotalBytes, YearSizes
<1>6. Total(YearSizes(h), 1 .. Len(h)) \in Nat
  <2>1. IsFiniteSet(1 .. Len(h)) /\ \A k \in 1 .. Len(h) : YearSizes(h)[k] \in Nat
    BY <1>1, YearFacts, FS_Interval
  <2> QED BY <2>1, TotalNat
<1>7. TotalBytes(h) \in Nat /\ TotalBytes(h) > 0
  BY <1>5, <1>6, RecordSizes
<1> QED
  BY <1>3, <1>4, <1>5, <1>7

-----------------------------------------------------------------------------
(* The inductive invariant.                                                *)

binary == {"resize", "make", "map", "return", "refuse", "fill", "sync",
           "unmap", "leave"}

(* The exports: the running one is the first of those to be made, a binary *)
(* one has recorded the history and not been answered yet.                 *)
Exporting ==
  /\ pc \in {"write", "close"} => todo # <<>> /\ Head(todo) = "json"
  /\ pc \in binary => /\ todo # <<>> /\ Head(todo) = "bin"
                      /\ recorded["bin"] = history
                      /\ reported["bin"] = "nothing"

(* The binary file: a part of the layout from its start, nothing of it     *)
(* before the sink is filled and all of it afterwards and in a file that   *)
(* was reported.                                                           *)
Written ==
  LET document == BinaryLayout(recorded["bin"])
      file == items["bin"]
  IN  /\ file \in Seq(Entry)
      /\ Len(file) <= Len(document)
      /\ \A k \in 1 .. Len(file) : file[k] = document[k]
      /\ size["bin"] \in {0, TotalBytes(recorded["bin"])}
      /\ file # <<>> => size["bin"] = TotalBytes(recorded["bin"])
      /\ pc = "resize" => size["bin"] = 0
      /\ pc \in {"resize", "make", "map", "return"} => file = <<>>
      /\ pc = "fill" => Len(file) < Len(document)
      /\ pc \in {"sync", "unmap", "leave"} => file = document
      /\ reported["bin"] = "exported" => file = document

Unmapped(o) == \E internal \in BOOLEAN : mmap[o] = Released(internal)

(* Object o maps the whole file from its start, and nothing else is mapped *)
(* or open but the stream and what was left stranded.                      *)
Mapped(o) ==
  LET m == mmap[o]
  IN  /\ m.file_handle \in Handles \ stranded
      /\ descriptors[m.file_handle] = "bin"
      /\ \A h \in Handles : descriptors[h] # Closed
                              <=> h \in stranded \cup {m.file_handle}
      /\ m.is_handle_internal
      /\ \E r \in Regions :
           /\ m.data = [region |-> r, byte |-> 0]
           /\ regions = [q \in Regions |-> IF q = r THEN m.mapped_length ELSE 0]
      /\ m.mapped_length = m.length
      /\ m.length = size["bin"] /\ size["bin"] > 0
      /\ size["bin"] = TotalBytes(recorded["bin"])

NothingMapped ==
  /\ regions = [r \in Regions |-> 0]
  /\ \A h \in Handles : descriptors[h] # Closed
                          <=> h \in stranded \cup ({stream} \cap Handles)
  /\ stream \notin stranded

(* Who has the mapping: the local object of make_mmap, then the sink.      *)
Holding ==
  /\ pc \in {"next", "write", "close", "resize", "make", "map", "leave"} =>
       Unmapped("mmap") /\ Unmapped("sink") /\ NothingMapped
  /\ pc = "return" => /\ Unmapped("sink")
                      /\ \/ ~error /\ Mapped("mmap")
                         \/ error /\ Unmapped("mmap") /\ NothingMapped
  /\ pc \in {"fill", "sync", "unmap"} => Unmapped("mmap") /\ Mapped("sink")
  /\ pc = "refuse" => /\ Unmapped("mmap")
                      /\ \/ Mapped("sink")
                         \/ Unmapped("sink") /\ NothingMapped

Types ==
  /\ MemoryTypeOK
  /\ history \in Seq(Snapshots)
  /\ recorded \in [Files -> Seq(Snapshots)]
  /\ DOMAIN items = Files
  /\ todo \in Seq(Files)
  /\ pc \in {"next", "write", "close"} \cup binary
  /\ stream \in Handles \cup {invalid_handle}
  /\ (stream # invalid_handle) = (pc \in {"write", "close", "resize"})
  /\ reported \in [Files -> {"nothing", "exported", "failed"}]
  /\ stranded \in SUBSET Handles
  /\ calls \in 0 .. MaxCalls

IInv == Types /\ Exporting /\ Written /\ Holding

(* The constants and the sequences of the module.                          *)
LEMMA Constants ==
  /\ Files = {"json", "bin"} /\ Objects = {"mmap", "sink"}
  /\ invalid_handle \notin Handles
  /\ Closed # "json" /\ Closed # "bin"
  /\ "json" \in Files /\ "bin" \in Files
  /\ "mmap" \in Objects /\ "sink" \in Objects
  /\ MaxYears \in Nat /\ MaxCalls \in Nat
BY MemoryAssumption, ExportAssumption

(* The histories of the module are histories.                              *)
LEMMA HistoriesOfSnapshots ==
  ASSUME NEW h \in Seq(Snapshots) PROVE h \in Histories
<1>1. Snapshots \subseteq [branches : Nat, heirs : Nat]
  BY ExportAssumption
<1>2. Len(h) \in Nat /\ h \in [1 .. Len(h) -> Snapshots]
  BY LenProperties
<1>3. h \in [1 .. Len(h) -> [branches : Nat, heirs : Nat]]
  BY <1>1, <1>2
<1> QED
  BY <1>2, <1>3, FunctionsAreSequences DEF Histories

(* An object without a mapping has nothing to close and nothing to unmap.  *)
LEMMA NothingToRelease ==
  ASSUME NEW o \in Objects, Unmapped(o)
  PROVE  /\ ~is_open(mmap[o]) /\ mmap[o].file_handle = invalid_handle
         /\ DescriptorsWithout(mmap[o]) = descriptors
         /\ RegionsWithout(mmap[o]) = regions
<1>1. PICK internal \in BOOLEAN : mmap[o] = Released(internal)
  BY DEF Unmapped
<1>2. mmap[o].file_handle = invalid_handle
  BY <1>1 DEF Released
<1> QED
  BY <1>2 DEF is_open, DescriptorsWithout, RegionsWithout

(* An object with a mapping gives back all of it.                          *)
LEMMA AllIsReleased ==
  ASSUME MemoryTypeOK, NEW o \in Objects, Mapped(o)
  PROVE  /\ is_open(mmap[o]) /\ mmap[o].is_handle_internal
         /\ DescriptorsWithout(mmap[o]) \in [Handles -> Files \cup {Closed}]
         /\ \A h \in Handles : DescriptorsWithout(mmap[o])[h] # Closed
                                 <=> h \in stranded
         /\ RegionsWithout(mmap[o]) = [r \in Regions |-> 0]
<1> DEFINE m == mmap[o]
<1>1. /\ m.file_handle \in Handles /\ m.file_handle \notin stranded
      /\ m.is_handle_internal
      /\ \A h \in Handles : descriptors[h] # Closed
                              <=> h \in stranded \cup {m.file_handle}
  BY DEF Mapped
<1>2. is_open(m)
  BY <1>1, Constants DEF is_open
<1>3. descriptors \in [Handles -> Files \cup {Closed}]
  BY DEF MemoryTypeOK
<1>4. DescriptorsWithout(m) = [descriptors EXCEPT ![m.file_handle] = Closed]
  BY <1>1, <1>2 DEF DescriptorsWithout
<1>5. PICK r \in Regions :
        /\ m.data = [region |-> r, byte |-> 0]
        /\ regions = [q \in Regions |-> IF q = r THEN m.mapped_length ELSE 0]
  BY DEF Mapped
<1>6. m.mapped_length = m.length /\ m.length = size["bin"] /\ size["bin"] \in Nat
  BY Constants DEF Mapped, MemoryTypeOK
<1>7. m.data # Null
  BY <1>5, MemoryAssumption
<1>8. get_mapping_start(m) = [region |-> r, byte |-> 0]
  BY <1>5, <1>6 DEF get_mapping_start
<1>9. RegionsWithout(m) = [q \in Regions |-> 0]
  <2>1. RegionsWithout(m) =
          [q \in Regions |->
             IF get_mapping_start(m) = [region |-> q, byte |-> 0]
                  /\ m.mapped_length = regions[q]
             THEN 0 ELSE regions[q]]
    BY <1>2, <1>7 DEF RegionsWithout
  <2>2. \A q \in Regions :
          (IF get_mapping_start(m) = [region |-> q, byte |-> 0]
                /\ m.mapped_length = regions[q]
           THEN 0 ELSE regions[q]) = 0
    <3> SUFFICES ASSUME NEW q \in Regions
                 PROVE  (IF get_mapping_start(m) = [region |-> q, byte |-> 0]
                              /\ m.mapped_length = regions[q]
                         THEN 0 ELSE regions[q]) = 0
      OBVIOUS
    <3>1. CASE q = r
      BY <1>5, <1>8, <3>1
    <3>2. CASE q # r
      <4>1. regions[q] = 0
        BY <1>5, <3>2
      <4> QED BY <4>1
    <3> QED BY <3>1, <3>2
  <2> HIDE DEF m
  <2> QED BY <2>1, <2>2
<1>10. DescriptorsWithout(m) \in [Handles -> Files \cup {Closed}]
  BY <1>1, <1>3, <1>4
<1>11. ASSUME NEW h \in Handles
       PROVE  DescriptorsWithout(m)[h] # Closed <=> h \in stranded
  <2>1. CASE h = m.file_handle
    BY <1>1, <1>3, <1>4, <2>1
  <2>2. CASE h # m.file_handle
    BY <1>1, <1>3, <1>4, <2>2
  <2> QED BY <2>1, <2>2
<1> QED
  BY <1>1, <1>2, <1>9, <1>10, <1>11

(* What the file holds stays right when it is left alone.                  *)
LEMMA WrittenStays ==
  ASSUME Written, UNCHANGED <<items["bin"], size["bin"], recorded["bin"]>>,
         reported'["bin"] = "exported" => reported["bin"] = "exported",
         pc' \in {"next", "write", "close", "refuse"}
  PROVE  Written'
BY DEF Written

(* Between two exports nothing is mapped and nothing open but what was     *)
(* left stranded.                                                          *)
AtRest ==
  /\ Unmapped("mmap") /\ Unmapped("sink")
  /\ regions = [r \in Regions |-> 0]
  /\ \A h \in Handles : descriptors[h] # Closed <=> h \in stranded

(* That is what Holding says while no stream is open.                      *)
LEMMA RestIsHolding ==
  ASSUME Types
  PROVE  /\ Holding /\ pc \in {"next", "make", "map", "leave"} => AtRest
         /\ AtRest /\ pc \in {"next", "make", "map", "leave"} => Holding
<1>1. ASSUME pc \in {"next", "make", "map", "leave"}
      PROVE  stream = invalid_handle /\ stream \notin Handles /\ stream \notin stranded
  BY <1>1, Constants DEF Types
<1>2. ASSUME pc \in {"next", "make", "map", "leave"} PROVE Holding => AtRest
  BY <1>1, <1>2 DEF Holding, NothingMapped, AtRest
<1>3. ASSUME pc \in {"next", "make", "map", "leave"} PROVE AtRest => Holding
  BY <1>1, <1>3 DEF Holding, NothingMapped, AtRest
<1> QED
  BY <1>2, <1>3

-----------------------------------------------------------------------------
(* The initial state.                                                      *)
LEMMA InitIInv == Init => IInv
<1> SUFFICES ASSUME Init PROVE IInv
  OBVIOUS
<1>1. MemoryTypeOK
  BY DEF Init, MemoryInit, MemoryTypeOK, Mmap, Gone, Released
<1>2. Types
  BY <1>1, Constants DEF Init, Types
<1>3. Exporting
  BY DEF Init, Exporting, binary
<1>4. Written
  <2>1. items["bin"] = <<>> /\ <<>> \in Seq(Entry) /\ Len(<<>>) = 0
    BY Constants, EmptySeq DEF Init
  <2>2. recorded["bin"] \in Histories
    BY <1>2, Constants, HistoriesOfSnapshots DEF Types
  <2>3. Len(BinaryLayout(recorded["bin"])) \in Nat
    BY <2>2, LayoutFacts
  <2>4. /\ size["bin"] = 0 /\ pc = "next" /\ reported["bin"] = "nothing"
    BY Constants DEF Init, MemoryInit
  <2> QED BY <2>1, <2>3, <2>4 DEF Written
<1>5. AtRest /\ pc = "next"
  BY Constants DEF Init, MemoryInit, AtRest, Unmapped, Gone
<1> QED
  BY <1>2, <1>3, <1>4, <1>5, RestIsHolding DEF IInv

(* Between two exports a simulation may be run.                            *)
LEMMA RunSimulationKeepsIInv ==
  ASSUME IInv, NEW years \in YearLists, NEW exports \in Exports,
         RunSimulation(years, exports)
  PROVE  IInv'
<1> USE DEF IInv
<1>1. years \in Seq(Snapshots)
  <2>1. PICK n \in 1 .. MaxYears : years \in [1 .. n -> Snapshots]
    BY DEF YearLists
  <2> QED BY <2>1, Constants, FunctionsAreSequences
<1>2. history \o years \in Seq(Snapshots)
  BY <1>1, ConcatProperties DEF Types
<1>3. exports \in Seq(Files)
  BY ExportAssumption
<1>4. Types'
  BY <1>2, <1>3, Constants DEF Types, RunSimulation, memory, MemoryTypeOK
<1>5. Exporting'
  BY DEF RunSimulation, Idle, Exporting, binary
<1>6. Written'
  BY WrittenStays DEF RunSimulation, Idle, memory
<1>7. Holding'
  BY DEF RunSimulation, Idle, memory, Holding, Unmapped, NothingMapped, Mapped
<1> QED
  BY <1>4, <1>5, <1>6, <1>7

(* Between two exports the history may be cleared.                         *)
LEMMA ClearKeepsIInv ==
  ASSUME IInv, Clear
  PROVE  IInv'
<1> USE DEF IInv
<1>1. Types'
  BY EmptySeq DEF Types, Clear, memory, MemoryTypeOK
<1>2. Exporting'
  BY DEF Clear, Idle, Exporting, binary
<1>3. Written'
  BY WrittenStays DEF Clear, Idle, memory
<1>4. Holding'
  BY DEF Clear, Idle, memory, Holding, Unmapped, NothingMapped, Mapped
<1> QED
  BY <1>1, <1>2, <1>3, <1>4

(* The answer of an export.                                                *)
LEMMA ReportFacts ==
  ASSUME Types, todo # <<>>, NEW answer \in {"exported", "failed"}, Report(answer)
  PROVE  /\ reported' \in [Files -> {"nothing", "exported", "failed"}]
         /\ todo' \in Seq(Files) /\ pc' = "next"
         /\ Head(todo) = "json" => reported'["bin"] = reported["bin"]
         /\ answer = "failed" /\ reported'["bin"] = "exported"
              => reported["bin"] = "exported"
<1>1. todo' \in Seq(Files) /\ Head(todo) \in Files
  BY HeadTailProperties DEF Types, Report
<1>2. /\ reported \in [Files -> {"nothing", "exported", "failed"}]
      /\ reported' = [reported EXCEPT ![Head(todo)] = answer]
      /\ pc' = "next"
  BY DEF Types, Report
<1> QED
  BY <1>1, <1>2, Constants

(* An export may find that it cannot open its file.                        *)
LEMMA OpenFailsKeepsIInv ==
  ASSUME IInv, OpenFails
  PROVE  IInv'
<1> USE DEF IInv
<1>1. /\ reported' \in [Files -> {"nothing", "exported", "failed"}]
      /\ todo' \in Seq(Files) /\ pc' = "next"
      /\ reported'["bin"] = "exported" => reported["bin"] = "exported"
  BY ReportFacts DEF OpenFails
<1>2. Types'
  BY <1>1 DEF Types, OpenFails, memory, MemoryTypeOK
<1>3. Exporting'
  BY <1>1 DEF Exporting, binary
<1>4. Written'
  BY <1>1, WrittenStays DEF OpenFails, memory
<1>5. Holding'
  BY <1>1 DEF OpenFails, memory, Holding, Unmapped, NothingMapped, Mapped
<1> QED
  BY <1>2, <1>3, <1>4, <1>5

(* An export opens its file.                                               *)
LEMMA OpenKeepsIInv ==
  ASSUME IInv, Open("json", "write") \/ Open("bin", "resize")
  PROVE  IInv'
<1> USE DEF IInv
<1>1. PICK file \in Files, then \in {"write", "resize"} :
        /\ Open(file, then)
        /\ file = "json" <=> then = "write"
  BY Constants
<1>2. PICK h \in FreeHandles : /\ descriptors' = [descriptors EXCEPT ![h] = file]
                               /\ stream' = h
  BY <1>1 DEF Open
<1>3. /\ pc = "next" /\ pc' = then /\ todo # <<>> /\ Head(todo) = file
      /\ items' = [items EXCEPT ![file] = <<>>]
      /\ size' = [size EXCEPT ![file] = 0]
      /\ recorded' = [recorded EXCEPT ![file] = history]
      /\ reported' = [reported EXCEPT ![file] = "nothing"]
      /\ UNCHANGED <<regions, mmap, error, history, todo, stranded, calls>>
  BY <1>1 DEF Open, sink_vars
<1>4. AtRest
  BY <1>3, RestIsHolding
<1>5. h \in Handles /\ descriptors[h] = Closed /\ h \notin stranded
  BY <1>2, <1>4 DEF FreeHandles, AtRest
<1>6. MemoryTypeOK'
  BY <1>2, <1>3, <1>5 DEF Types, MemoryTypeOK
<1>7. Types'
  BY <1>1, <1>2, <1>3, <1>5, <1>6, Constants DEF Types, binary
<1>8. Exporting'
  BY <1>1, <1>3, Constants DEF Types, Exporting, binary
<1>9. Written'
  <2>1. CASE file = "json"
    <3>1. then = "write"
      BY <1>1, <2>1
    <3>2. UNCHANGED <<items["bin"], size["bin"], recorded["bin"], reported["bin"]>>
      BY <1>3, <2>1, Constants DEF Types, MemoryTypeOK
    <3> QED BY <1>3, <3>1, <3>2, WrittenStays
  <2>2. CASE file = "bin"
    <3>1. /\ items'["bin"] = <<>> /\ size'["bin"] = 0
          /\ recorded'["bin"] = history /\ reported'["bin"] = "nothing"
          /\ pc' = "resize"
      BY <1>1, <1>3, <2>2, Constants DEF Types, MemoryTypeOK
    <3>2. Len(BinaryLayout(history)) \in Nat
      BY HistoriesOfSnapshots, LayoutFacts DEF Types
    <3>3. <<>> \in Seq(Entry) /\ Len(<<>>) = 0
      BY EmptySeq
    <3> QED BY <3>1, <3>2, <3>3 DEF Written
  <2> QED BY <2>1, <2>2, Constants
<1>10. Holding'
  <2>1. ASSUME NEW g \in Handles
        PROVE  descriptors'[g] # Closed <=> g \in stranded' \cup ({stream'} \cap Handles)
    <3>1. CASE g = h
      BY <1>1, <1>2, <1>5, <3>1, Constants DEF Types, MemoryTypeOK
    <3>2. CASE g # h
      BY <1>2, <1>3, <1>4, <1>5, <3>2 DEF Types, MemoryTypeOK, AtRest
    <3> QED BY <3>1, <3>2
  <2>2. Unmapped("mmap")' /\ Unmapped("sink")' /\ (regions = [r \in Regions |-> 0])'
    BY <1>3, <1>4 DEF AtRest, Unmapped
  <2>3. NothingMapped'
    BY <1>2, <1>3, <1>5, <2>1, <2>2 DEF NothingMapped
  <2> QED BY <1>1, <1>3, <2>2, <2>3 DEF Holding
<1> QED
  BY <1>7, <1>8, <1>9, <1>10

(* The JSON stream takes a record, or no more.                             *)
LEMMA WriteJsonKeepsIInv ==
  ASSUME IInv, WriteJson
  PROVE  IInv'
<1> USE DEF IInv
<1>1. /\ pc = "write" /\ pc' = "write"
      /\ size' = [size EXCEPT !["json"] = @ + 1]
      /\ UNCHANGED <<history, todo, reported, recorded, stranded, calls,
                     descriptors, regions, mmap, error, stream>>
      /\ DOMAIN items' = DOMAIN items /\ items'["bin"] = items["bin"]
  BY DEF WriteJson, control, sink_vars
<1>2. size' \in [Files -> Nat] /\ size'["bin"] = size["bin"]
  BY <1>1, Constants DEF Types, MemoryTypeOK
<1>3. Types'
  BY <1>1, <1>2 DEF Types, MemoryTypeOK, binary
<1>4. Exporting'
  BY <1>1 DEF Exporting, binary
<1>5. Written'
  BY <1>1, <1>2, WrittenStays
<1>6. Holding'
  BY <1>1, <1>2 DEF Holding, Unmapped, NothingMapped
<1> QED
  BY <1>3, <1>4, <1>5, <1>6

(* The JSON stream fails.                                                  *)
LEMMA WriteJsonFailsKeepsIInv ==
  ASSUME IInv, WriteJsonFails
  PROVE  IInv'
<1> USE DEF IInv
<1>1. /\ pc = "write" /\ pc' = "close"
      /\ UNCHANGED <<size, descriptors, regions, mmap, error, history, todo,
                     reported, recorded, stranded, calls, items, stream>>
  BY DEF WriteJsonFails, memory, control
<1>2. Types'
  BY <1>1 DEF Types, MemoryTypeOK, binary
<1>3. Exporting'
  BY <1>1 DEF Exporting, binary
<1>4. Written'
  BY <1>1, WrittenStays
<1>5. Holding'
  BY <1>1 DEF Holding, Unmapped, NothingMapped
<1> QED
  BY <1>2, <1>3, <1>4, <1>5

(* Closing the stream leaves nothing open but what is stranded.            *)
LEMMA CloseFacts ==
  ASSUME IInv, pc \in {"write", "close", "resize"}, Close,
         UNCHANGED <<regions, mmap, error, stranded>>
  PROVE  /\ descriptors' \in [Handles -> Files \cup {Closed}]
         /\ stream' = invalid_handle /\ AtRest'
<1> USE DEF IInv
<1>1. stream \in Handles
  BY DEF Types
<1>2. /\ descriptors \in [Handles -> Files \cup {Closed}]
      /\ descriptors' = [descriptors EXCEPT ![stream] = Closed]
      /\ stream' = invalid_handle
  BY DEF Types, MemoryTypeOK, Close
<1>3. /\ Unmapped("mmap") /\ Unmapped("sink") /\ NothingMapped
  BY DEF Holding
<1>4. ASSUME NEW g \in Handles
      PROVE  descriptors'[g] # Closed <=> g \in stranded'
  <2>1. CASE g = stream
    BY <1>1, <1>2, <1>3, <2>1 DEF NothingMapped
  <2>2. CASE g # stream
    BY <1>2, <1>3, <2>2 DEF NothingMapped
  <2> QED BY <2>1, <2>2
<1>5. AtRest'
  BY <1>3, <1>4 DEF AtRest, NothingMapped, Unmapped
<1> QED
  BY <1>1, <1>2, <1>5

(* The JSON export returns.                                                *)
LEMMA CloseJsonKeepsIInv ==
  ASSUME IInv, CloseJson
  PROVE  IInv'
<1> USE DEF IInv
<1>1. /\ pc \in {"write", "close"} /\ Close /\ Report("exported")
      /\ UNCHANGED <<size, regions, mmap, error, items, history, recorded,
                     stranded, calls>>
  BY DEF CloseJson, sink_vars
<1>2. todo # <<>> /\ Head(todo) = "json"
  BY <1>1 DEF Exporting
<1>3. /\ reported' \in [Files -> {"nothing", "exported", "failed"}]
      /\ todo' \in Seq(Files) /\ pc' = "next"
      /\ reported'["bin"] = reported["bin"]
  BY <1>1, <1>2, ReportFacts
<1>4. /\ descriptors' \in [Handles -> Files \cup {Closed}]
      /\ stream' = invalid_handle /\ AtRest'
  BY <1>1, CloseFacts
<1>5. Types'
  BY <1>1, <1>3, <1>4 DEF Types, MemoryTypeOK
<1>6. Exporting'
  BY <1>3 DEF Exporting, binary
<1>7. Written'
  BY <1>1, <1>3, WrittenStays
<1>8. Holding'
  <2>1. stranded' \subseteq Handles /\ stream' \notin Handles
    BY <1>4, <1>5, Constants DEF Types
  <2> QED BY <1>3, <1>4, <2>1 DEF Holding, AtRest, NothingMapped
<1> QED
  BY <1>5, <1>6, <1>7, <1>8

(* The binary file is given its size, or stays empty.                      *)
LEMMA ResizeBinaryKeepsIInv ==
  ASSUME IInv, ResizeBinary
  PROVE  IInv'
<1> USE DEF IInv
<1>1. /\ pc = "resize" /\ pc' = "make" /\ Close
      /\ size' \in {size, [size EXCEPT !["bin"] = TotalBytes(history)]}
      /\ UNCHANGED <<regions, mmap, error, history, todo, reported, recorded,
                     stranded, calls, items>>
  BY DEF ResizeBinary, sink_vars, control
<1>2. recorded["bin"] = history
  BY <1>1 DEF Exporting, binary
<1>3. TotalBytes(history) \in Nat
  BY HistoriesOfSnapshots, LayoutFacts DEF Types
<1>4. size' \in [Files -> Nat] /\ size'["bin"] \in {size["bin"], TotalBytes(history)}
  BY <1>1, <1>3, Constants DEF Types, MemoryTypeOK
<1>5. /\ descriptors' \in [Handles -> Files \cup {Closed}]
      /\ stream' = invalid_handle /\ AtRest'
  BY <1>1, CloseFacts
<1>6. Types'
  BY <1>1, <1>4, <1>5 DEF Types, MemoryTypeOK, binary
<1>7. Exporting'
  BY <1>1 DEF Exporting, binary
<1>8. Written'
  <2>1. /\ items["bin"] = <<>> /\ size["bin"] = 0 /\ items'["bin"] = items["bin"]
        /\ recorded'["bin"] = history
    BY <1>1, <1>2 DEF Written
  <2>2. size'["bin"] \in {0, TotalBytes(history)}
    BY <1>4, <2>1
  <2> QED BY <1>1, <1>2, <2>1, <2>2 DEF Written
<1>9. Holding'
  <2>1. stranded' \subseteq Handles /\ stream' \notin Handles
    BY <1>5, <1>6, Constants DEF Types
  <2> QED BY <1>1, <1>5, <2>1 DEF Holding, AtRest, NothingMapped
<1> QED
  BY <1>6, <1>7, <1>8, <1>9

(* make_mmap constructs its object.                                        *)
LEMMA MakeSinkKeepsIInv ==
  ASSUME IInv, MakeSink
  PROVE  IInv'
<1> USE DEF IInv
<1>1. /\ pc = "make" /\ pc' = "map"
      /\ UNCHANGED <<size, descriptors, regions, error, history, todo, reported,
                     recorded, stranded, calls, items, stream>>
  BY DEF MakeSink, Construct, control
<1>2. PICK internal \in BOOLEAN : mmap' = [mmap EXCEPT !["mmap"] = Released(internal)]
  BY DEF MakeSink, Construct
<1>3. Released(internal) \in Mmap
  BY DEF Released, Mmap
<1>4. /\ mmap' \in [Objects -> Mmap]
      /\ mmap'["mmap"] = Released(internal) /\ mmap'["sink"] = mmap["sink"]
  BY <1>2, <1>3, Constants DEF Types, MemoryTypeOK
<1>5. Types'
  BY <1>1, <1>4 DEF Types, MemoryTypeOK, binary
<1>6. Exporting'
  BY <1>1 DEF Exporting, binary
<1>7. Written'
  BY <1>1 DEF Written
<1>8. Holding'
  <2>1. AtRest
    BY <1>1, RestIsHolding
  <2>2. AtRest'
    BY <1>1, <1>4, <2>1 DEF AtRest, Unmapped
  <2> QED BY <1>1, <1>5, <2>2 DEF Holding, AtRest, NothingMapped, Types
<1> QED
  BY <1>5, <1>6, <1>7, <1>8

(* The start of the page of the first byte is the first byte.              *)
LEMMA FirstPage == make_offset_page_aligned(0) = 0
<1>1. PageSize \in Nat \ {0}
  BY MemoryAssumption
<1>2. 0 \div PageSize = 0
  BY <1>1
<1> QED
  BY <1>1, <1>2 DEF make_offset_page_aligned

(* make_mmap maps the file.                                                *)
LEMMA MapBinaryKeepsIInv ==
  ASSUME IInv, MapBinary
  PROVE  IInv'
<1> USE DEF IInv
<1>1. /\ pc = "map" /\ pc' = "return"
      /\ MapPath("mmap", "bin", 0, map_entire_file)
      /\ UNCHANGED <<size, history, todo, reported, recorded, stranded, calls,
                     items, stream>>
  BY DEF MapBinary, control
<1>2. AtRest /\ stream = invalid_handle
  BY <1>1, RestIsHolding DEF Types
<1>3. /\ DescriptorsWithout(mmap["mmap"]) = descriptors
      /\ RegionsWithout(mmap["mmap"]) = regions
  BY <1>2, Constants, NothingToRelease DEF AtRest
<1>4. size["bin"] \in Nat
  BY Constants DEF Types, MemoryTypeOK
<1> DEFINE new(h, r) ==
      [data |-> [region |-> r, byte |-> 0], length |-> size["bin"],
       mapped_length |-> size["bin"], file_handle |-> h,
       is_handle_internal |-> TRUE]
<1>5. PICK h \in FreeHandles, r \in Regions :
        /\ size["bin"] > 0
        /\ descriptors' = [descriptors EXCEPT ![h] = "bin"]
        /\ regions' = [regions EXCEPT ![r] = size["bin"]]
        /\ mmap' = [mmap EXCEPT !["mmap"] = new(h, r)]
        /\ error' = FALSE
  <2> DEFINE start == 0 - make_offset_page_aligned(0)
             bytes == start + (size["bin"] - 0)
  <2>1. PICK h \in FreeHandles, r \in Regions :
          /\ bytes > 0
          /\ descriptors' = [DescriptorsWithout(mmap["mmap"]) EXCEPT ![h] = "bin"]
          /\ regions' = [RegionsWithout(mmap["mmap"]) EXCEPT ![r] = bytes]
          /\ mmap' = [mmap EXCEPT !["mmap"] =
               [data |-> [region |-> r, byte |-> start],
                length |-> size["bin"] - 0, mapped_length |-> bytes,
                file_handle |-> h, is_handle_internal |-> TRUE]]
          /\ error' = FALSE
    BY <1>1 DEF MapPath, map_entire_file
  <2>2. start = 0 /\ bytes = size["bin"] /\ size["bin"] - 0 = size["bin"]
    BY <1>4, FirstPage
  <2> HIDE DEF start, bytes
  <2> QED BY <1>3, <2>1, <2>2
<1>6. h \in Handles /\ descriptors[h] = Closed /\ h \notin stranded
  BY <1>2 DEF FreeHandles, AtRest
<1>7. new(h, r) \in Mmap
  BY <1>4, <1>6 DEF Mmap
<1>8. /\ mmap' \in [Objects -> Mmap]
      /\ mmap'["mmap"] = new(h, r) /\ mmap'["sink"] = mmap["sink"]
  BY <1>5, <1>7, Constants DEF Types, MemoryTypeOK
<1>9. /\ new(h, r).file_handle = h /\ new(h, r).is_handle_internal
      /\ new(h, r).data = [region |-> r, byte |-> 0]
      /\ new(h, r).length = size["bin"] /\ new(h, r).mapped_length = size["bin"]
  OBVIOUS
<1> HIDE DEF new
<1>10. /\ descriptors' \in [Handles -> Files \cup {Closed}]
       /\ \A g \in Handles : descriptors'[g] # Closed <=> g \in stranded \cup {h}
       /\ descriptors'[h] = "bin"
  <2>1. descriptors \in [Handles -> Files \cup {Closed}]
    BY DEF Types, MemoryTypeOK
  <2>2. ASSUME NEW g \in Handles
        PROVE  descriptors'[g] # Closed <=> g \in stranded \cup {h}
    <3>1. CASE g = h
      BY <1>5, <1>6, <2>1, <3>1, Constants
    <3>2. CASE g # h
      BY <1>2, <1>5, <1>6, <2>1, <3>2 DEF AtRest
    <3> QED BY <3>1, <3>2
  <2> QED BY <1>5, <1>6, <2>1, <2>2, Constants
<1>11. regions' = [q \in Regions |-> IF q = r THEN size["bin"] ELSE 0]
  BY <1>2, <1>5 DEF AtRest
<1>12. Types'
  <2>1. regions' \in [Regions -> Nat]
    BY <1>4, <1>11
  <2>2. MemoryTypeOK'
    BY <1>1, <1>5, <1>8, <1>10, <2>1 DEF Types, MemoryTypeOK
  <2> QED BY <1>1, <2>2 DEF Types, binary
<1>13. Exporting'
  BY <1>1 DEF Exporting, binary
<1>14. Written'
  BY <1>1 DEF Written
<1>15. Mapped("mmap")'
  <2>1. size["bin"] = TotalBytes(recorded["bin"])
    BY <1>5 DEF Written
  <2>2. /\ mmap'["mmap"].file_handle = h /\ mmap'["mmap"].is_handle_internal
        /\ mmap'["mmap"].data = [region |-> r, byte |-> 0]
        /\ mmap'["mmap"].length = size'["bin"]
        /\ mmap'["mmap"].mapped_length = size'["bin"]
    BY <1>1, <1>8, <1>9
  <2>3. h \in Handles \ stranded' /\ size'["bin"] > 0
        /\ size'["bin"] = TotalBytes(recorded'["bin"])
    BY <1>1, <1>5, <1>6, <2>1
  <2>4. regions' =
          [q \in Regions |-> IF q = r THEN mmap'["mmap"].mapped_length ELSE 0]
    BY <1>1, <1>11, <2>2
  <2> QED BY <1>1, <1>10, <2>2, <2>3, <2>4 DEF Mapped
<1>16. Holding'
  BY <1>1, <1>2, <1>5, <1>8, <1>15 DEF Holding, AtRest, Unmapped
<1> QED
  BY <1>12, <1>13, <1>14, <1>16

(* make_mmap fails, and may have opened the file.                          *)
LEMMA MapBinaryFailsKeepsIInv ==
  ASSUME IInv, MapBinaryFails
  PROVE  IInv'
<1> USE DEF IInv
<1>1. /\ pc = "map" /\ pc' = "return" /\ error' = TRUE
      /\ stranded' = stranded \cup {h \in Handles : descriptors'[h] # descriptors[h]}
      /\ \/ descriptors' = descriptors
         \/ \E h \in FreeHandles : descriptors' = [descriptors EXCEPT ![h] = "bin"]
      /\ UNCHANGED <<regions, mmap, size, items, stream, history, todo, reported,
                     recorded, calls>>
  BY DEF MapBinaryFails, MapPathFails
<1>2. AtRest /\ stream = invalid_handle
  BY <1>1, RestIsHolding DEF Types
<1>3. descriptors \in [Handles -> Files \cup {Closed}]
  BY DEF Types, MemoryTypeOK
<1>4. /\ descriptors' \in [Handles -> Files \cup {Closed}]
      /\ \A g \in Handles : descriptors'[g] # Closed <=> g \in stranded'
  <2>1. CASE descriptors' = descriptors
    BY <1>1, <1>2, <1>3, <2>1 DEF AtRest
  <2>2. CASE \E h \in FreeHandles : descriptors' = [descriptors EXCEPT ![h] = "bin"]
    <3>1. PICK h \in FreeHandles : descriptors' = [descriptors EXCEPT ![h] = "bin"]
      BY <2>2
    <3>2. h \in Handles /\ descriptors[h] = Closed
      BY <3>1 DEF FreeHandles
    <3>3. ASSUME NEW g \in Handles
          PROVE  descriptors'[g] # Closed <=> g \in stranded'
      <4>1. CASE g = h
        BY <1>1, <1>3, <3>1, <3>2, <4>1, Constants
      <4>2. CASE g # h
        <5>1. descriptors'[g] = descriptors[g]
          BY <1>3, <3>1, <3>2, <4>2
        <5> QED BY <1>1, <1>2, <5>1 DEF AtRest
      <4> QED BY <4>1, <4>2
    <3> QED BY <1>3, <3>1, <3>2, <3>3, Constants
  <2> QED BY <1>1, <2>1, <2>2
<1>5. stranded' \in SUBSET Handles
  BY <1>1 DEF Types
<1>6. Types'
  BY <1>1, <1>4, <1>5 DEF Types, MemoryTypeOK, binary
<1>7. Exporting'
  BY <1>1 DEF Exporting, binary
<1>8. Written'
  BY <1>1 DEF Written
<1>9. Holding'
  <2>1. NothingMapped'
    BY <1>1, <1>2, <1>4, <1>5, Constants DEF NothingMapped, AtRest
  <2>2. Unmapped("mmap")' /\ Unmapped("sink")'
    BY <1>1, <1>2 DEF AtRest, Unmapped
  <2> QED BY <1>1, <2>1, <2>2 DEF Holding
<1> QED
  BY <1>6, <1>7, <1>8, <1>9

(* make_mmap hands its mapping to the export's sink.                       *)
LEMMA GetSinkKeepsIInv ==
  ASSUME IInv, GetSink
  PROVE  IInv'
<1> USE DEF IInv
<1>1. /\ pc = "return" /\ pc' = IF error THEN "refuse" ELSE "fill"
      /\ mmap' = [mmap EXCEPT !["sink"] = mmap["mmap"], !["mmap"] = Gone]
      /\ UNCHANGED <<size, descriptors, regions, error, history, todo, reported,
                     recorded, stranded, calls, items, stream>>
  BY DEF GetSink, ReturnMapping, control
<1>2. Gone \in Mmap
  BY DEF Gone, Released, Mmap
<1>3. /\ mmap' \in [Objects -> Mmap]
      /\ mmap'["sink"] = mmap["mmap"] /\ mmap'["mmap"] = Gone
  BY <1>1, <1>2, Constants DEF Types, MemoryTypeOK
<1>4. Types'
  <2>1. MemoryTypeOK'
    BY <1>1, <1>3 DEF Types, MemoryTypeOK
  <2>2. pc' \in {"refuse", "fill"}
    BY <1>1
  <2> QED BY <1>1, <2>1, <2>2 DEF Types, binary
<1>5. Exporting'
  BY <1>1 DEF Exporting, binary
<1>6. Written'
  <2>1. Len(BinaryLayout(recorded["bin"])) >= 3
    BY Constants, HistoriesOfSnapshots, LayoutFacts DEF Types
  <2>2. Len(items["bin"]) = 0
    BY <1>1 DEF Written
  <2>3. Len(items["bin"]) < Len(BinaryLayout(recorded["bin"]))
    <3>1. Len(BinaryLayout(recorded["bin"])) \in Nat
      BY Constants, HistoriesOfSnapshots, LayoutFacts DEF Types
    <3> QED BY <2>1, <2>2, <3>1
  <2> QED BY <1>1, <2>3 DEF Written
<1>7. Holding'
  <2>1. Unmapped("mmap")'
    BY <1>3 DEF Unmapped, Gone
  <2>2. Mapped("mmap") => Mapped("sink")'
    <3> SUFFICES ASSUME Mapped("mmap") PROVE Mapped("sink")'
      OBVIOUS
    <3>0. PICK m : m = mmap["mmap"]
      OBVIOUS
    <3>1. PICK r \in Regions :
            /\ m.data = [region |-> r, byte |-> 0]
            /\ regions = [q \in Regions |-> IF q = r THEN m.mapped_length ELSE 0]
      BY <3>0 DEF Mapped
    <3>2. /\ m.file_handle \in Handles \ stranded
          /\ descriptors[m.file_handle] = "bin"
          /\ \A h \in Handles : descriptors[h] # Closed
                                  <=> h \in stranded \cup {m.file_handle}
          /\ m.is_handle_internal
          /\ m.mapped_length = m.length
          /\ m.length = size["bin"] /\ size["bin"] > 0
          /\ size["bin"] = TotalBytes(recorded["bin"])
      BY <3>0 DEF Mapped
    <3>3. mmap'["sink"] = m
      BY <1>3, <3>0
    <3>4. /\ m.file_handle \in Handles \ stranded'
          /\ descriptors'[m.file_handle] = "bin"
          /\ \A h \in Handles : descriptors'[h] # Closed
                                  <=> h \in stranded' \cup {m.file_handle}
          /\ m.length = size'["bin"] /\ size'["bin"] > 0
          /\ size'["bin"] = TotalBytes(recorded'["bin"])
          /\ regions' = [q \in Regions |-> IF q = r THEN m.mapped_length ELSE 0]
      BY <1>1, <3>1, <3>2
    <3> QED BY <3>1, <3>2, <3>3, <3>4 DEF Mapped
  <2>3. Unmapped("mmap") => Unmapped("sink")'
    BY <1>1, <1>3 DEF Unmapped
  <2>4. NothingMapped => NothingMapped'
    BY <1>1 DEF NothingMapped
  <2> QED BY <1>1, <2>1, <2>2, <2>3, <2>4 DEF Holding
<1> QED
  BY <1>4, <1>5, <1>6, <1>7

(* The destruction of the sink releases whatever it has.                   *)
LEMMA DestroyFacts ==
  ASSUME IInv, pc \in {"refuse", "leave"}, Destroy("sink"), UNCHANGED stranded
  PROVE  /\ descriptors' \in [Handles -> Files \cup {Closed}]
         /\ regions' \in [Regions -> Nat] /\ mmap' \in [Objects -> Mmap]
         /\ AtRest'
<1> USE DEF IInv
<1>1. /\ mmap' = [mmap EXCEPT !["sink"] = Gone]
      /\ descriptors' = DescriptorsWithout(mmap["sink"])
      /\ regions' = RegionsWithout(mmap["sink"])
  BY DEF Destroy
<1>2. Gone \in Mmap
  BY DEF Gone, Released, Mmap
<1>3. /\ mmap' \in [Objects -> Mmap]
      /\ mmap'["sink"] = Gone /\ mmap'["mmap"] = mmap["mmap"]
  BY <1>1, <1>2, Constants DEF Types, MemoryTypeOK
<1>4. Unmapped("mmap")
  BY DEF Holding
<1>5. Unmapped("mmap")' /\ Unmapped("sink")'
  BY <1>3, <1>4 DEF Unmapped, Gone
<1>6. /\ descriptors' \in [Handles -> Files \cup {Closed}]
      /\ regions' = [r \in Regions |-> 0]
      /\ \A h \in Handles : descriptors'[h] # Closed <=> h \in stranded
  <2>1. CASE Mapped("sink")
    <3>1. MemoryTypeOK
      BY DEF Types
    <3> QED BY <1>1, <2>1, <3>1, Constants, AllIsReleased
  <2>2. CASE Unmapped("sink") /\ NothingMapped
    <3>1. descriptors' = descriptors /\ regions' = regions
      BY <1>1, <2>2, Constants, NothingToRelease
    <3>2. stream \notin Handles /\ descriptors \in [Handles -> Files \cup {Closed}]
      BY Constants DEF Types, MemoryTypeOK
    <3> QED BY <2>2, <3>1, <3>2 DEF NothingMapped
  <2> QED BY <2>1, <2>2 DEF Holding
<1> QED
  BY <1>3, <1>5, <1>6 DEF AtRest

(* The export gives up.                                                    *)
LEMMA RefuseBinaryKeepsIInv ==
  ASSUME IInv, RefuseBinary
  PROVE  IInv'
<1> USE DEF IInv
<1>1. /\ pc = "refuse" /\ Destroy("sink") /\ Report("failed")
      /\ UNCHANGED <<size, error, items, stream, history, recorded, stranded,
                     calls>>
  BY DEF RefuseBinary
<1>2. todo # <<>>
  BY <1>1 DEF Exporting, binary
<1>3. /\ reported' \in [Files -> {"nothing", "exported", "failed"}]
      /\ todo' \in Seq(Files) /\ pc' = "next"
      /\ reported'["bin"] = "exported" => reported["bin"] = "exported"
  BY <1>1, <1>2, ReportFacts
<1>4. /\ descriptors' \in [Handles -> Files \cup {Closed}]
      /\ regions' \in [Regions -> Nat] /\ mmap' \in [Objects -> Mmap]
      /\ AtRest'
  BY <1>1, DestroyFacts
<1>5. Types'
  BY <1>1, <1>3, <1>4 DEF Types, MemoryTypeOK
<1>6. Exporting'
  BY <1>3 DEF Exporting, binary
<1>7. Written'
  BY <1>1, <1>3, WrittenStays
<1>8. Holding'
  <2>1. stranded' \subseteq Handles /\ stream' \notin Handles
    BY <1>1, <1>5, Constants DEF Types
  <2> QED BY <1>3, <1>4, <2>1 DEF Holding, AtRest, NothingMapped
<1> QED
  BY <1>5, <1>6, <1>7, <1>8

(* The export returns.                                                     *)
LEMMA LeaveBinaryKeepsIInv ==
  ASSUME IInv, LeaveBinary
  PROVE  IInv'
<1> USE DEF IInv
<1>1. /\ pc = "leave" /\ Destroy("sink") /\ Report("exported")
      /\ UNCHANGED <<size, error, items, stream, history, recorded, stranded,
                     calls>>
  BY DEF LeaveBinary
<1>2. todo # <<>>
  BY <1>1 DEF Exporting, binary
<1>3. /\ reported' \in [Files -> {"nothing", "exported", "failed"}]
      /\ todo' \in Seq(Files) /\ pc' = "next"
  BY <1>1, <1>2, ReportFacts
<1>4. /\ descriptors' \in [Handles -> Files \cup {Closed}]
      /\ regions' \in [Regions -> Nat] /\ mmap' \in [Objects -> Mmap]
      /\ AtRest'
  BY <1>1, DestroyFacts
<1>5. Types'
  BY <1>1, <1>3, <1>4 DEF Types, MemoryTypeOK
<1>6. Exporting'
  BY <1>3 DEF Exporting, binary
<1>7. Written'
  BY <1>1, <1>3 DEF Written
<1>8. Holding'
  <2>1. stranded' \subseteq Handles /\ stream' \notin Handles
    BY <1>1, <1>5, Constants DEF Types
  <2> QED BY <1>3, <1>4, <2>1 DEF Holding, AtRest, NothingMapped
<1> QED
  BY <1>5, <1>6, <1>7, <1>8

(* The sink is filled with the next record.                                *)
LEMMA FillBinaryKeepsIInv ==
  ASSUME IInv, FillBinary
  PROVE  IInv'
<1> USE DEF IInv
<1> DEFINE document == BinaryLayout(recorded["bin"])
           file == items["bin"]
           next == Append(file, document[Len(file) + 1])
<1>1. pc = "fill" /\ recorded["bin"] = history
  BY DEF FillBinary, Exporting, binary
<1>2. /\ items' = [items EXCEPT !["bin"] = next]
      /\ pc' = IF Len(items'["bin"]) = Len(document) THEN "sync" ELSE "fill"
      /\ UNCHANGED <<size, descriptors, regions, mmap, error, history, todo,
                     reported, recorded, stranded, calls, stream>>
  BY <1>1 DEF FillBinary, memory, control
<1>3. DOMAIN items' = Files /\ items'["bin"] = next
  BY <1>2, Constants DEF Types
<1>4. document \in Seq(Entry) /\ Len(document) \in Nat
  BY Constants, HistoriesOfSnapshots, LayoutFacts DEF Types
<1>5. /\ file \in Seq(Entry) /\ Len(file) \in Nat /\ Len(file) < Len(document)
      /\ \A k \in 1 .. Len(file) : file[k] = document[k]
      /\ size["bin"] \in {0, TotalBytes(recorded["bin"])}
  BY <1>1, LenProperties DEF Written
<1>6. document[Len(file) + 1] \in Entry
  <2>1. Len(file) + 1 \in 1 .. Len(document)
    BY <1>4, <1>5
  <2> HIDE DEF document, file
  <2> QED BY <1>4, <2>1, ElementOfSeq
<1>7. /\ next \in Seq(Entry) /\ Len(next) = Len(file) + 1
      /\ \A k \in 1 .. Len(file) : next[k] = file[k]
      /\ next[Len(file) + 1] = document[Len(file) + 1]
  <2> HIDE DEF document, file
  <2> QED BY <1>5, <1>6, AppendProperties
<1> HIDE DEF next
<1>8. Len(next) <= Len(document) /\ \A k \in 1 .. Len(next) : next[k] = document[k]
  <2> HIDE DEF document, file
  <2> QED BY <1>4, <1>5, <1>7
<1>9. Len(next) = Len(document) => next = document
  <2> HIDE DEF document, file
  <2> QED BY <1>4, <1>7, <1>8, SeqEqual
<1>10. size["bin"] = TotalBytes(recorded["bin"])
  BY <1>1 DEF Holding, Mapped
<1>11. pc' \in {"fill", "sync"}
  BY <1>2
<1>12. Types'
  <2>1. MemoryTypeOK'
    BY <1>2 DEF Types, MemoryTypeOK
  <2> HIDE DEF document, file
  <2>2. stream = invalid_handle
    BY <1>1 DEF Types
  <2> QED BY <1>2, <1>3, <1>11, <2>1, <2>2 DEF Types, binary
<1>13. Exporting'
  BY <1>1, <1>2, <1>11 DEF Exporting, binary
<1>14. Written'
  <2>1. BinaryLayout(recorded'["bin"]) = document
    BY <1>2
  <2>2. pc' = "fill" => Len(next) < Len(document)
    <3> HIDE DEF document, file
    <3> QED BY <1>2, <1>3, <1>4, <1>5, <1>7, <1>8
  <2>3. pc' = "sync" => next = document
    BY <1>2, <1>3, <1>9
  <2>4. reported["bin"] = "nothing"
    BY <1>1 DEF Exporting, binary
  <2> HIDE DEF document
  <2> QED BY <1>2, <1>3, <1>7, <1>8, <1>10, <1>11, <2>1, <2>2, <2>3, <2>4 DEF Written
<1>15. Holding'
  BY <1>1, <1>2, <1>11 DEF Holding, Unmapped, Mapped
<1> QED
  BY <1>12, <1>13, <1>14, <1>15

(* The mapping is synchronised, or is not.                                 *)
LEMMA SyncBinaryKeepsIInv ==
  ASSUME IInv, SyncBinary
  PROVE  IInv'
<1> USE DEF IInv
<1>1. /\ pc = "sync" /\ pc' \in {"refuse", "unmap"} /\ error' \in BOOLEAN
      /\ UNCHANGED <<size, descriptors, regions, mmap, history, todo, reported,
                     recorded, stranded, calls, items, stream>>
  BY DEF SyncBinary, Sync, control
<1>2. Types'
  BY <1>1 DEF Types, MemoryTypeOK, binary
<1>3. Exporting'
  BY <1>1 DEF Exporting, binary
<1>4. Written'
  BY <1>1 DEF Written
<1>5. Holding'
  BY <1>1 DEF Holding, Unmapped, Mapped
<1> QED
  BY <1>2, <1>3, <1>4, <1>5

(* The sink is unmapped.                                                   *)
LEMMA UnmapBinaryKeepsIInv ==
  ASSUME IInv, UnmapBinary
  PROVE  IInv'
<1> USE DEF IInv
<1>1. /\ pc = "unmap" /\ pc' = "leave" /\ Unmap("sink")
      /\ UNCHANGED <<size, error, history, todo, reported, recorded, stranded,
                     calls, items, stream>>
  BY DEF UnmapBinary, control
<1>2. Mapped("sink") /\ Unmapped("mmap") /\ MemoryTypeOK
  BY <1>1 DEF Holding, Types
<1>3. /\ is_open(mmap["sink"]) /\ mmap["sink"].is_handle_internal
      /\ descriptors' \in [Handles -> Files \cup {Closed}]
      /\ \A h \in Handles : descriptors'[h] # Closed <=> h \in stranded
      /\ regions' = [r \in Regions |-> 0]
  BY <1>1, <1>2, Constants, AllIsReleased DEF Unmap
<1>4. PICK internal \in BOOLEAN : internal = mmap["sink"].is_handle_internal
  BY <1>2, Constants DEF MemoryTypeOK, Mmap
<1>5. Released(internal) \in Mmap
  BY DEF Released, Mmap
<1>6. /\ mmap' \in [Objects -> Mmap]
      /\ mmap'["sink"] = Released(internal) /\ mmap'["mmap"] = mmap["mmap"]
  BY <1>1, <1>2, <1>3, <1>4, <1>5, Constants DEF Unmap, MemoryTypeOK
<1>7. AtRest'
  BY <1>1, <1>2, <1>3, <1>6 DEF AtRest, Unmapped
<1>8. Types'
  <2>1. regions' \in [Regions -> Nat]
    BY <1>3
  <2>2. MemoryTypeOK'
    BY <1>1, <1>2, <1>3, <1>6, <2>1 DEF MemoryTypeOK
  <2> QED BY <1>1, <2>2 DEF Types, binary
<1>9. Exporting'
  BY <1>1 DEF Exporting, binary
<1>10. Written'
  BY <1>1 DEF Written
<1>11. Holding'
  <2>1. stranded' \subseteq Handles /\ stream' \notin Handles
    BY <1>1, <1>8, Constants DEF Types
  <2> QED BY <1>1, <1>7, <2>1 DEF Holding, AtRest, NothingMapped
<1> QED
  BY <1>8, <1>9, <1>10, <1>11

(* The process is killed.                                                  *)
LEMMA CrashKeepsIInv ==
  ASSUME IInv, Crash
  PROVE  IInv'
<1> USE DEF IInv
<1>1. /\ descriptors' = [h \in Handles |-> Closed]
      /\ regions' = [r \in Regions |-> 0]
      /\ mmap' = [o \in Objects |-> Gone]
      /\ error' = FALSE
      /\ history' = <<>> /\ todo' = <<>> /\ pc' = "next"
      /\ stream' = invalid_handle /\ stranded' = {}
      /\ UNCHANGED <<size, items, reported, recorded, calls>>
  BY DEF Crash, ProcessDies
<1>2. Gone \in Mmap
  BY DEF Gone, Released, Mmap
<1>3. MemoryTypeOK'
  BY <1>1, <1>2 DEF Types, MemoryTypeOK
<1>4. Types'
  BY <1>1, <1>3, EmptySeq DEF Types
<1>5. Exporting'
  BY <1>1 DEF Exporting, binary
<1>6. Written'
  BY <1>1, WrittenStays
<1>7. Holding'
  <2>1. Unmapped("mmap")' /\ Unmapped("sink")'
    BY <1>1, Constants DEF Unmapped, Gone
  <2>2. NothingMapped'
    BY <1>1, Constants DEF NothingMapped
  <2> QED BY <1>1, <2>1, <2>2 DEF Holding
<1> QED
  BY <1>4, <1>5, <1>6, <1>7

-----------------------------------------------------------------------------
(* Every step keeps the invariant.                                         *)
LEMMA StepsKeepIInv == IInv /\ [Next]_vars => IInv'
<1> SUFFICES ASSUME IInv, [Next]_vars PROVE IInv'
  OBVIOUS
<1>1. ASSUME NEW years \in YearLists, NEW exports \in Exports,
             RunSimulation(years, exports)
      PROVE  IInv'
  BY <1>1, RunSimulationKeepsIInv
<1>2. CASE Clear
  BY <1>2, ClearKeepsIInv
<1>3. CASE Step
  <2>1. CASE Open("json", "write") \/ Open("bin", "resize")
    BY <2>1, OpenKeepsIInv
  <2>2. CASE OpenFails
    BY <2>2, OpenFailsKeepsIInv
  <2>3. CASE WriteJson
    BY <2>3, WriteJsonKeepsIInv
  <2>4. CASE WriteJsonFails
    BY <2>4, WriteJsonFailsKeepsIInv
  <2>5. CASE CloseJson
    BY <2>5, CloseJsonKeepsIInv
  <2>6. CASE ResizeBinary
    BY <2>6, ResizeBinaryKeepsIInv
  <2>7. CASE MakeSink
    BY <2>7, MakeSinkKeepsIInv
  <2>8. CASE MapBinary
    BY <2>8, MapBinaryKeepsIInv
  <2>9. CASE MapBinaryFails
    BY <2>9, MapBinaryFailsKeepsIInv
  <2>10. CASE GetSink
    BY <2>10, GetSinkKeepsIInv
  <2>11. CASE FillBinary
    BY <2>11, FillBinaryKeepsIInv
  <2>12. CASE SyncBinary
    BY <2>12, SyncBinaryKeepsIInv
  <2>13. CASE UnmapBinary
    BY <2>13, UnmapBinaryKeepsIInv
  <2>14. CASE LeaveBinary
    BY <2>14, LeaveBinaryKeepsIInv
  <2>15. CASE RefuseBinary
    BY <2>15, RefuseBinaryKeepsIInv
  <2> QED
    BY <1>3, <2>1, <2>2, <2>3, <2>4, <2>5, <2>6, <2>7, <2>8, <2>9, <2>10,
       <2>11, <2>12, <2>13, <2>14, <2>15 DEF Step
<1>4. CASE Crash
  BY <1>4, CrashKeepsIInv
<1>5. CASE UNCHANGED vars
  <2>1. UNCHANGED <<size, descriptors, regions, mmap, error, history, todo,
                    reported, recorded, stranded, calls, items, pc, stream>>
    BY <1>5 DEF vars, memory, control
  <2>2. Types'
    BY <2>1 DEF IInv, Types, MemoryTypeOK
  <2>3. Exporting'
    BY <2>1 DEF IInv, Exporting
  <2>4. Written'
    BY <2>1 DEF IInv, Written
  <2>5. Holding'
    <3>1. /\ Unmapped("mmap")' = Unmapped("mmap")
          /\ Unmapped("sink")' = Unmapped("sink")
      BY <2>1 DEF Unmapped
    <3>2. Mapped("mmap") => Mapped("mmap")'
      BY <2>1 DEF Mapped
    <3>3. Mapped("sink") => Mapped("sink")'
      BY <2>1 DEF Mapped
    <3>4. NothingMapped => NothingMapped'
      BY <2>1 DEF NothingMapped
    <3> QED BY <2>1, <3>1, <3>2, <3>3, <3>4 DEF IInv, Holding
  <2> QED BY <2>2, <2>3, <2>4, <2>5 DEF IInv
<1> QED
  BY <1>1, <1>2, <1>3, <1>4, <1>5 DEF Next

(* The invariant is one.                                                   *)
LEMMA IInvAlways == Spec => []IInv
<1>1. Init => IInv
  BY InitIInv
<1>2. IInv /\ [Next]_vars => IInv'
  BY StepsKeepIInv
<1> QED
  BY <1>1, <1>2, PTL DEF Spec

(* Every variable has its type, and the binary file never holds more       *)
(* records than the history it is written from.                            *)
THEOREM TelemetryTypeCorrect == Spec => []TypeOK
<1>1. IInv => TypeOK
  BY DEF IInv, Types, Written, TypeOK, binary
<1> QED
  BY <1>1, IInvAlways, PTL

(* While export_to_binary_mmap writes, its sink maps the whole file and    *)
(* nothing is written past the end of it; when all is written exactly one  *)
(* amount per year is left: whatever the years record.                     *)
THEOREM WriterNeverOverruns == Spec => []WriterStaysMapped
<1>1. ASSUME IInv, pc \in {"fill", "sync"}
      PROVE  WriterStaysMapped
  <2> DEFINE sink == mmap["sink"]
             document == BinaryLayout(recorded["bin"])
             file == items["bin"]
  <2>1. /\ sink.file_handle \in Handles /\ descriptors[sink.file_handle] = "bin"
        /\ sink.mapped_length = sink.length /\ sink.length = size["bin"]
        /\ size["bin"] = TotalBytes(recorded["bin"])
    BY <1>1 DEF IInv, Holding, Mapped
  <2>2. is_open(sink)
    BY <2>1, Constants DEF is_open
  <2>3. regions[sink.data.region] = sink.mapped_length
    <3>1. PICK r \in Regions :
            /\ sink.data = [region |-> r, byte |-> 0]
            /\ regions = [q \in Regions |-> IF q = r THEN sink.mapped_length ELSE 0]
      BY <1>1 DEF IInv, Holding, Mapped
    <3>2. sink.data.region = r
      BY <3>1
    <3>3. regions[r] = sink.mapped_length
      BY <3>1
    <3> QED BY <3>2, <3>3
  <2>4. /\ recorded["bin"] = history /\ recorded["bin"] \in Histories
    BY <1>1, Constants, HistoriesOfSnapshots DEF IInv, Types, Exporting, binary
  <2>5. /\ document \in Seq(Entry) /\ BytesOf(document) \in Nat
        /\ TotalBytes(recorded["bin"]) = BytesOf(document) + F64 * Len(recorded["bin"])
        /\ Len(recorded["bin"]) \in Nat
    BY <2>4, LayoutFacts, YearFacts
  <2>6. /\ file \in Seq(Entry) /\ Len(file) <= Len(document)
        /\ \A k \in 1 .. Len(file) : file[k] = document[k]
        /\ pc = "sync" => file = document
    BY <1>1 DEF IInv, Written
  <2>7. BytesOf(file) <= BytesOf(document) /\ BytesOf(file) \in Nat
    <3> HIDE DEF file, document
    <3> QED BY <2>5, <2>6, BytesOfStart, BytesAreNatural
  <2>8. BytesOf(file) <= sink.length
    <3>1. sink.length = BytesOf(document) + F64 * Len(recorded["bin"])
      BY <2>1, <2>5
    <3>2. F64 * Len(recorded["bin"]) \in Nat
      BY <2>5, RecordSizes
    <3> HIDE DEF file, document, sink
    <3> QED BY <2>5, <2>7, <3>1, <3>2
  <2>9. pc = "sync" => sink.length = BytesOf(file) + F64 * Len(history)
    BY <2>1, <2>4, <2>5, <2>6
  <2> QED BY <1>1, <2>1, <2>2, <2>3, <2>8, <2>9 DEF WriterStaysMapped
<1>2. IInv => WriterStaysMapped
  BY <1>1 DEF WriterStaysMapped
<1> QED
  BY <1>2, IInvAlways, PTL

(* Between two exports nothing is mapped and no descriptor is open but     *)
(* those that failed maps have left: whichever calls failed before, and    *)
(* however large the tables are.                                           *)
THEOREM EverythingIsGivenBack == Spec => []NothingStaysMapped
<1>1. ASSUME IInv, pc = "next"
      PROVE  NothingStaysMapped
  <2>1. AtRest
    BY <1>1, RestIsHolding DEF IInv
  <2>2. \A o \in Objects : ~is_open(mmap[o])
    BY <2>1, Constants, NothingToRelease DEF AtRest
  <2>3. stranded \subseteq Handles
    BY <1>1 DEF IInv, Types
  <2>4. {h \in Handles : descriptors[h] # Closed} = stranded
    BY <2>1, <2>3 DEF AtRest
  <2>5. \A r \in Regions : regions[r] = 0
    BY <2>1 DEF AtRest
  <2> QED BY <2>2, <2>4, <2>5 DEF NothingStaysMapped
<1>2. IInv => NothingStaysMapped
  BY <1>1 DEF NothingStaysMapped
<1> QED
  BY <1>2, IInvAlways, PTL

-----------------------------------------------------------------------------
(* What the parser finds in the layout.                                    *)

(* The records of year k, of b branches and e heirs, behind the first s.   *)
YearAt(d, s, k, b, e) ==
  /\ d[s + 1].value = <<"year", k>>
  /\ d[s + 2].value = <<"count", b>>
  /\ \A j \in 1 .. b : d[s + 2 + j].value = <<"branch", k, j>>
  /\ d[s + 3 + b].value = <<"count", e>>
  /\ \A j \in 1 .. e : d[s + 3 + b + j].value = <<"heir", k, j>>

(* Each year of the layout starts behind the years before it.              *)
LEMMA YearsInLayout ==
  ASSUME NEW h \in Histories, NEW k \in 1 .. Len(h)
  PROVE  LET s == Len(UpTo(h)[k - 1])
             b == h[k].branches
             e == h[k].heirs
         IN  /\ s \in Nat /\ Len(UpTo(h)[k]) = s + 3 + b + e
             /\ s + 3 + b + e <= Len(BinaryLayout(h))
             /\ YearAt(BinaryLayout(h), s, k, b, e)
<1>1. k \in 0 .. Len(h) /\ k - 1 \in 0 .. Len(h) /\ k \in Nat
  BY YearFacts
<1>2. PICK b, e \in Nat : b = h[k].branches /\ e = h[k].heirs
  BY YearFacts
<1>3. PICK d : d = BinaryLayout(h)
  OBVIOUS
<1>4. PICK before : before = UpTo(h)[k - 1]
  OBVIOUS
<1>5. PICK s : s = Len(before)
  OBVIOUS
<1>6. before \in Seq(Entry) /\ s \in Nat
  BY <1>1, <1>4, <1>5, UpToFacts, LenProperties DEF SizedUpTo
<1>7. PICK year : year = PutSnapshot(k, h[k])
  OBVIOUS
<1>8. IsJoined(Entry, UpTo(h)[k], before, year, s, YearRecords(h[k]))
  BY <1>4, <1>5, <1>6, <1>7, NextYear
<1>9. YearRecords(h[k]) = 3 + b + e
  BY <1>2 DEF YearRecords
<1>10. PICK u : u = UpTo(h)[k]
  OBVIOUS
<1>11. Len(u) = s + (3 + b + e) /\ \A i \in 1 .. 3 + b + e : u[s + i] = year[i]
  <2>1. Len(u) = s + (3 + b + e)
    BY <1>8, <1>9, <1>10 DEF IsJoined
  <2>2. ASSUME NEW i \in 1 .. 3 + b + e PROVE u[s + i] = year[i]
    <3>1. s + i \in 1 .. s + (3 + b + e) /\ ~(s + i <= s) /\ (s + i) - s = i
      BY <1>6
    <3>2. u[s + i] = year[(s + i) - s]
      BY <1>8, <1>9, <1>10, <3>1 DEF IsJoined
    <3> QED BY <3>1, <3>2
  <2> QED BY <2>1, <2>2
<1>12. Begins(u, d)
  BY <1>1, <1>3, <1>10, LayoutBegins
<1>13. Len(d) \in Nat
  BY <1>3, LayoutFacts
<1>14. s + 3 + b + e <= Len(d)
  BY <1>6, <1>11, <1>12, <1>13 DEF Begins
<1>15. ASSUME NEW i \in 1 .. 3 + b + e PROVE d[s + i] = year[i]
  <2>1. s + i \in 1 .. Len(u)
    BY <1>6, <1>11
  <2> QED BY <1>11, <1>12, <2>1 DEF Begins
<1>16. /\ year[1].value = <<"year", k>>
       /\ year[2].value = <<"count", b>>
       /\ \A j \in 1 .. b : year[2 + j].value = <<"branch", k, j>>
       /\ year[3 + b].value = <<"count", e>>
       /\ \A j \in 1 .. e : year[3 + b + j].value = <<"heir", k, j>>
  BY ZenonT(30), <1>1, <1>2, <1>7, YearFacts, SnapshotFacts
<1>17. d[s + 1].value = <<"year", k>> /\ d[s + 2].value = <<"count", b>>
  <2>1. 1 \in 1 .. 3 + b + e /\ 2 \in 1 .. 3 + b + e
    OBVIOUS
  <2> QED BY <1>15, <1>16, <2>1
<1>18. ASSUME NEW j \in 1 .. b PROVE d[s + 2 + j].value = <<"branch", k, j>>
  <2>1. 2 + j \in 1 .. 3 + b + e /\ s + (2 + j) = s + 2 + j
    BY <1>6
  <2>2. d[s + (2 + j)] = year[2 + j]
    BY <1>15, <2>1
  <2> QED BY <1>16, <2>1, <2>2
<1>19. d[s + 3 + b].value = <<"count", e>>
  <2>1. 3 + b \in 1 .. 3 + b + e /\ s + (3 + b) = s + 3 + b
    BY <1>6
  <2>2. d[s + (3 + b)] = year[3 + b]
    BY <1>15, <2>1
  <2> QED BY <1>16, <2>1, <2>2
<1>20. ASSUME NEW j \in 1 .. e PROVE d[s + 3 + b + j].value = <<"heir", k, j>>
  <2>1. 3 + b + j \in 1 .. 3 + b + e /\ s + (3 + b + j) = s + 3 + b + j
    BY <1>6
  <2>2. d[s + (3 + b + j)] = year[3 + b + j]
    BY <1>15, <2>1
  <2> QED BY <1>16, <2>1, <2>2
<1>21. YearAt(d, s, k, b, e)
  BY <1>17, <1>18, <1>19, <1>20 DEF YearAt
<1>22. Len(UpTo(h)[k]) = s + 3 + b + e
  BY <1>6, <1>10, <1>11
<1> QED
  BY <1>2, <1>3, <1>4, <1>5, <1>6, <1>14, <1>21, <1>22

(* The layout starts with the header.                                      *)
LEMMA HeaderInLayout ==
  ASSUME NEW h \in Histories
  PROVE  /\ BinaryLayout(h)[1].value = <<"MAGIC">>
         /\ BinaryLayout(h)[2].value = <<"VERSION">>
         /\ BinaryLayout(h)[3].value = <<"count", Len(h)>>
         /\ Len(UpTo(h)[0]) = 3
<1>1. Len(h) \in Nat /\ 0 \in 0 .. Len(h)
  BY YearFacts
<1>2. UpTo(h)[0] = BinaryHeader(Len(h))
  BY <1>1, LayoutUnfolds
<1>3. Begins(BinaryHeader(Len(h)), BinaryLayout(h))
  BY <1>1, <1>2, LayoutBegins
<1>4. Len(BinaryHeader(Len(h))) = 3
  BY <1>1, HeaderFacts
<1>5. /\ BinaryLayout(h)[1] = BinaryHeader(Len(h))[1]
      /\ BinaryLayout(h)[2] = BinaryHeader(Len(h))[2]
      /\ BinaryLayout(h)[3] = BinaryHeader(Len(h))[3]
  BY <1>3, <1>4 DEF Begins
<1> QED
  BY <1>1, <1>2, <1>4, <1>5, HeaderFacts

-----------------------------------------------------------------------------
(* The parser, with the recursion of ReadFile named.                       *)
RecordsRead(snap) == 3 + Len(snap.branch_states) + Len(snap.heir_states)

BytesRead(snap) ==
  HeadBytes + 2 * U32 + Len(snap.branch_states) * BranchBytes
    + Len(snap.heir_states) * HeirBytes

ReadBody(u, k) ==
  IF k = 0 THEN [snapshots |-> <<>>, at |-> 4, bytes |-> 3 * U32]
  ELSE [snapshots |-> Append(u[k - 1].snapshots, ReadSnapshot(u[k - 1].at)),
        at |-> u[k - 1].at + RecordsRead(ReadSnapshot(u[k - 1].at)),
        bytes |-> u[k - 1].bytes + BytesRead(ReadSnapshot(u[k - 1].at))]

After == CHOOSE u : u = [k \in 0 .. CountAt(3) |-> ReadBody(u, k)]

(* The recursion has a solution.                                           *)
LEMMA AfterExists ==
  ASSUME CountAt(3) \in Nat
  PROVE  \E u : u = [k \in 0 .. CountAt(3) |-> ReadBody(u, k)]
<1> DEFINE K == 0 .. CountAt(3)
           L == {n \in Nat : \E u : \A k \in K : k <= n => u[k] = ReadBody(u, k)}
<1>1. 0 \in L
  <2> DEFINE u == [k \in K |-> [snapshots |-> <<>>, at |-> 4, bytes |-> 3 * U32]]
  <2>1. \A k \in K : k <= 0 => u[k] = ReadBody(u, k)
    BY DEF ReadBody
  <2> HIDE DEF u
  <2> QED BY <2>1
<1>2. ASSUME NEW n \in Nat, n \in L PROVE n + 1 \in L
  <2>1. PICK u : \A k \in K : k <= n => u[k] = ReadBody(u, k)
    BY <1>2
  <2> DEFINE v == [k \in K |-> ReadBody(u, k)]
  <2>2. \A k \in K : k <= n => v[k] = u[k]
    BY <2>1
  <2>3. ASSUME NEW k \in K, k <= n + 1
        PROVE  v[k] = ReadBody(v, k)
    <3>1. v[k] = ReadBody(u, k)
      OBVIOUS
    <3> HIDE DEF v
    <3>2. k # 0 => v[k - 1] = u[k - 1]
      BY <2>2, <2>3
    <3> QED
      BY <3>1, <3>2 DEF ReadBody
  <2> HIDE DEF v
  <2> QED BY <2>3
<1>3. Nat \subseteq L
  <2> HIDE DEF L
  <2> QED BY <1>1, <1>2, NatSet
<1>4. PICK u : \A k \in K : u[k] = ReadBody(u, k)
  BY <1>3
<1> DEFINE v == [k \in K |-> u[k]]
<1>5. \A k \in K : ReadBody(u, k) = ReadBody(v, k)
  <2> SUFFICES ASSUME NEW k \in K PROVE ReadBody(u, k) = ReadBody(v, k)
    OBVIOUS
  <2>1. k # 0 => v[k - 1] = u[k - 1]
    OBVIOUS
  <2> HIDE DEF v
  <2> QED BY <2>1 DEF ReadBody
<1>6. v = [k \in K |-> ReadBody(v, k)]
  <2>1. v = [k \in K |-> ReadBody(u, k)]
    BY <1>4
  <2> HIDE DEF v
  <2> QED BY <1>5, <2>1
<1> QED
  <2> HIDE DEF v
  <2> QED BY <1>6

(* The parser reads one snapshot after the other.                          *)
LEMMA ReadFileUnfolds ==
  ASSUME CountAt(3) \in Nat
  PROVE  /\ ReadFile = After[CountAt(3)]
         /\ \A k \in 0 .. CountAt(3) : After[k] = ReadBody(After, k)
<1> DEFINE P(u) == u = [k \in 0 .. CountAt(3) |-> ReadBody(u, k)]
<1>0. ReadFile = After[CountAt(3)]
  BY DEF ReadFile, After, ReadBody, RecordsRead, BytesRead
<1>1. \E u : P(u)
  BY AfterExists
<1>2. After = CHOOSE u : P(u)
  BY DEF After
<1> HIDE DEF P
<1>3. P(CHOOSE u : P(u))
  BY <1>1
<1>4. After = [k \in 0 .. CountAt(3) |-> ReadBody(After, k)]
  BY <1>2, <1>3 DEF P
<1> QED
  BY <1>0, <1>4

-----------------------------------------------------------------------------
(* What the parser reads.                                                  *)

Values == Seq(Words)

Readings == [year : Values, branch_states : Seq(Values), heir_states : Seq(Values)]

(* A record is read where it was written, and zeros behind the last one.   *)
LEMMA RecordFacts ==
  ASSUME IInv
  PROVE  /\ \A at \in Nat \ {0} : RecordAt(at) \in Values
         /\ \A at \in 1 .. Len(items["bin"]) :
              RecordAt(at) = BinaryLayout(recorded["bin"])[at].value
         /\ \A at \in Nat : at > Len(items["bin"]) =>
              RecordAt(at) = Blank /\ CountAt(at) = 0
<1>1. /\ items["bin"] \in Seq(Entry)
      /\ \A k \in 1 .. Len(items["bin"]) :
           items["bin"][k] = BinaryLayout(recorded["bin"])[k]
  BY DEF IInv, Written
<1>2. /\ Len(items["bin"]) \in Nat
      /\ \A k \in 1 .. Len(items["bin"]) : items["bin"][k] \in Entry
  BY <1>1, LenProperties, ElementOfSeq
<1>3. \A k \in 1 .. Len(items["bin"]) : items["bin"][k].value \in Values
  BY <1>2 DEF Entry, Values
<1>4. Blank \in Values
  BY EmptySeq DEF Blank, Values
<1>5. ASSUME NEW at \in Nat \ {0} PROVE RecordAt(at) \in Values
  BY <1>2, <1>3, <1>4 DEF RecordAt
<1>6. ASSUME NEW at \in 1 .. Len(items["bin"])
      PROVE  RecordAt(at) = BinaryLayout(recorded["bin"])[at].value
  BY <1>1, <1>2 DEF RecordAt
<1>7. ASSUME NEW at \in Nat, at > Len(items["bin"])
      PROVE  RecordAt(at) = Blank /\ CountAt(at) = 0
  <2>1. RecordAt(at) = Blank
    BY <1>2, <1>7 DEF RecordAt
  <2> QED BY <2>1 DEF CountAt
<1> QED
  BY <1>5, <1>6, <1>7

(* A count is read as what it counts.                                      *)
LEMMA CountFacts ==
  ASSUME NEW at, NEW c \in Nat, RecordAt(at) = <<"count", c>>
  PROVE  CountAt(at) = c
<1>1. <<"count", c>> # <<>> /\ <<"count", c>>[1] = "count" /\ <<"count", c>>[2] = c
  OBVIOUS
<1> QED
  BY <1>1 DEF CountAt, Blank

(* The snapshot that is read at a place, by the counts found there.        *)
IsReading(snap, at, b, e) ==
  /\ snap \in Readings
  /\ snap.year = RecordAt(at)
  /\ Len(snap.branch_states) = b /\ Len(snap.heir_states) = e
  /\ snap.branch_states = [j \in 1 .. b |-> RecordAt(at + 1 + j)]
  /\ snap.heir_states = [j \in 1 .. e |-> RecordAt(at + 2 + b + j)]

(* The parser reads as many records as the counts say.                     *)
LEMMA ReadSnapshotFacts ==
  ASSUME IInv, NEW at \in Nat \ {0}, NEW b \in Nat, NEW e \in Nat,
         CountAt(at + 1) = b, CountAt(at + 2 + b) = e
  PROVE  IsReading(ReadSnapshot(at), at, b, e)
<1>1. PICK branches : branches = [j \in 1 .. b |-> RecordAt(at + 1 + j)]
  OBVIOUS
<1>2. PICK heirs : heirs = [j \in 1 .. e |-> RecordAt(at + 2 + b + j)]
  OBVIOUS
<1>3. ReadSnapshot(at) =
        [year |-> RecordAt(at), branch_states |-> branches, heir_states |-> heirs]
  BY <1>1, <1>2 DEF ReadSnapshot
<1>4. \A i \in Nat \ {0} : RecordAt(i) \in Values
  BY RecordFacts
<1>5. branches \in [1 .. b -> Values] /\ heirs \in [1 .. e -> Values]
  <2>1. \A j \in 1 .. b : at + 1 + j \in Nat \ {0}
    OBVIOUS
  <2>2. \A j \in 1 .. e : at + 2 + b + j \in Nat \ {0}
    OBVIOUS
  <2> QED BY <1>1, <1>2, <1>4, <2>1, <2>2
<1>6. /\ branches \in Seq(Values) /\ Len(branches) = b
      /\ heirs \in Seq(Values) /\ Len(heirs) = e
  BY <1>5, FunctionsAreSequences
<1>7. /\ ReadSnapshot(at).year = RecordAt(at)
      /\ ReadSnapshot(at).branch_states = branches
      /\ ReadSnapshot(at).heir_states = heirs
  BY <1>3
<1>8. ReadSnapshot(at) \in Readings
  BY <1>3, <1>4, <1>6 DEF Readings
<1> QED
  BY <1>1, <1>2, <1>6, <1>7, <1>8 DEF IsReading

(* A year that is whole in the file is read as it was recorded, and the    *)
(* parser goes on with the next.                                           *)
LEMMA WholeYear ==
  ASSUME IInv, NEW h, h = recorded["bin"], NEW k \in 1 .. Len(h),
         NEW at, at = Len(UpTo(h)[k - 1]) + 1,
         Len(UpTo(h)[k]) <= Len(items["bin"])
  PROVE  /\ ReadSnapshot(at) \in Readings
         /\ ReadSnapshot(at) = YearOf(h, k)
         /\ at + RecordsRead(ReadSnapshot(at)) = Len(UpTo(h)[k]) + 1
         /\ BytesRead(ReadSnapshot(at)) + F64 = YearBytes(h[k])
<1>1. h \in Histories
  BY Constants, HistoriesOfSnapshots DEF IInv, Types
<1>2. PICK b, e \in Nat : b = h[k].branches /\ e = h[k].heirs
  BY <1>1, YearFacts
<1>3. PICK s : s = Len(UpTo(h)[k - 1])
  OBVIOUS
<1>4. PICK d : d = BinaryLayout(h)
  OBVIOUS
<1>5. PICK n : n = Len(items["bin"])
  OBVIOUS
<1>6. n \in Nat /\ \A i \in 1 .. n : RecordAt(i) = d[i].value
  <2>1. n \in Nat
    BY <1>5, LenProperties DEF IInv, Written
  <2> QED BY <1>4, <1>5, <2>1, RecordFacts
<1>7. /\ s \in Nat /\ Len(UpTo(h)[k]) = s + 3 + b + e
      /\ YearAt(d, s, k, b, e)
  BY <1>1, <1>2, <1>3, <1>4, YearsInLayout
<1>8. at = s + 1 /\ s + 3 + b + e <= n
  BY <1>3, <1>5, <1>7
<1>9. RecordAt(at) = <<"year", k>>
  <2>1. at \in 1 .. n
    BY <1>6, <1>7, <1>8
  <2> QED BY <1>6, <1>7, <1>8, <2>1 DEF YearAt
<1>10. CountAt(at + 1) = b
  <2>1. at + 1 = s + 2 /\ s + 2 \in 1 .. n
    BY <1>6, <1>7, <1>8
  <2>2. RecordAt(at + 1) = <<"count", b>>
    BY <1>6, <1>7, <2>1 DEF YearAt
  <2> QED BY <2>2, CountFacts
<1>11. CountAt(at + 2 + b) = e
  <2>1. at + 2 + b = s + 3 + b /\ s + 3 + b \in 1 .. n
    BY <1>6, <1>7, <1>8
  <2>2. RecordAt(at + 2 + b) = <<"count", e>>
    BY <1>6, <1>7, <2>1 DEF YearAt
  <2> QED BY <2>2, CountFacts
<1>12. PICK snap : snap = ReadSnapshot(at)
  OBVIOUS
<1>13. IsReading(snap, at, b, e)
  <2>1. at \in Nat \ {0}
    BY <1>7, <1>8
  <2> QED BY <1>10, <1>11, <1>12, <2>1, ReadSnapshotFacts
<1>14. ASSUME NEW j \in 1 .. b PROVE RecordAt(at + 1 + j) = <<"branch", k, j>>
  <2>1. at + 1 + j = s + 2 + j /\ s + 2 + j \in 1 .. n
    BY SMTT(30), <1>6, <1>7, <1>8
  <2> QED BY <1>6, <1>7, <2>1 DEF YearAt
<1>15. ASSUME NEW j \in 1 .. e PROVE RecordAt(at + 2 + b + j) = <<"heir", k, j>>
  <2>1. at + 2 + b + j = s + 3 + b + j /\ s + 3 + b + j \in 1 .. n
    BY <1>6, <1>7, <1>8
  <2> QED BY <1>6, <1>7, <2>1 DEF YearAt
<1>16. snap = YearOf(h, k)
  <2>1. snap.branch_states = [j \in 1 .. b |-> <<"branch", k, j>>]
    BY <1>13, <1>14 DEF IsReading
  <2>2. snap.heir_states = [j \in 1 .. e |-> <<"heir", k, j>>]
    BY <1>13, <1>15 DEF IsReading
  <2>3. snap = [year |-> snap.year, branch_states |-> snap.branch_states,
                heir_states |-> snap.heir_states]
    BY <1>13 DEF IsReading, Readings
  <2>4. snap.year = <<"year", k>>
    BY <1>9, <1>13 DEF IsReading
  <2> QED BY <1>2, <2>1, <2>2, <2>3, <2>4 DEF YearOf
<1>17. at + RecordsRead(snap) = Len(UpTo(h)[k]) + 1
  <2>1. RecordsRead(snap) = 3 + b + e
    BY <1>13 DEF RecordsRead, IsReading
  <2>2. PICK x \in Nat : x = s
    BY <1>7
  <2>3. (x + 1) + (3 + b + e) = (x + 3 + b + e) + 1
    OBVIOUS
  <2> QED BY <1>7, <1>8, <2>1, <2>2, <2>3
<1>18. BytesRead(snap) + F64 = YearBytes(h[k])
  <2>1. BytesRead(snap) = 60 + 2 * 4 + b * 44 + e * 56
    BY <1>13, RecordSizes DEF IsReading, BytesRead
  <2>2. YearBytes(h[k]) = 4 + 8 * 8 + 4 + b * 44 + 4 + e * 56
    BY <1>2, RecordSizes DEF YearBytes
  <2> QED BY <2>1, <2>2, RecordSizes
<1>19. snap \in Readings
  BY <1>13 DEF IsReading
<1> QED
  BY <1>12, <1>16, <1>17, <1>18, <1>19

(* From a year that is not whole in the file the parser takes no more than *)
(* was recorded, and leaves it behind the last record.                     *)
LEMMA TornYear ==
  ASSUME IInv, NEW h, h = recorded["bin"], NEW k \in 1 .. Len(h),
         NEW at, at = Len(UpTo(h)[k - 1]) + 1,
         Len(UpTo(h)[k]) > Len(items["bin"])
  PROVE  /\ ReadSnapshot(at) \in Readings
         /\ RecordsRead(ReadSnapshot(at)) \in Nat /\ BytesRead(ReadSnapshot(at)) \in Nat
         /\ at + RecordsRead(ReadSnapshot(at)) > Len(items["bin"])
         /\ BytesRead(ReadSnapshot(at)) + F64 <= YearBytes(h[k])
<1>1. h \in Histories
  BY Constants, HistoriesOfSnapshots DEF IInv, Types
<1>2. PICK b, e \in Nat : b = h[k].branches /\ e = h[k].heirs
  BY <1>1, YearFacts
<1>3. PICK s : s = Len(UpTo(h)[k - 1])
  OBVIOUS
<1>4. PICK d : d = BinaryLayout(h)
  OBVIOUS
<1>5. PICK n : n = Len(items["bin"])
  OBVIOUS
<1>6. n \in Nat /\ \A i \in 1 .. n : RecordAt(i) = d[i].value
  <2>1. n \in Nat
    BY <1>5, LenProperties DEF IInv, Written
  <2> QED BY <1>4, <1>5, <2>1, RecordFacts
<1>7. /\ s \in Nat /\ Len(UpTo(h)[k]) = s + 3 + b + e
      /\ YearAt(d, s, k, b, e)
  BY <1>1, <1>2, <1>3, <1>4, YearsInLayout
<1>8. at = s + 1 /\ s + 3 + b + e > n /\ at \in Nat \ {0}
  BY <1>3, <1>5, <1>7
<1>9. \A i \in Nat : i > n => CountAt(i) = 0
  BY <1>5, RecordFacts
<1>10. PICK snap : snap = ReadSnapshot(at)
  OBVIOUS
<1>11. \E p, q \in Nat : /\ IsReading(snap, at, p, q)
                         /\ p <= b /\ q <= e /\ at + 3 + p + q > n
  <2>1. CASE at + 1 > n
    <3>1. CountAt(at + 1) = 0 /\ CountAt(at + 2 + 0) = 0
      BY <1>6, <1>8, <1>9, <2>1
    <3>2. IsReading(snap, at, 0, 0)
      BY <1>8, <1>10, <3>1, ReadSnapshotFacts
    <3> QED BY <1>6, <1>8, <2>1, <3>2
  <2>2. CASE at + 1 <= n
    <3>1. CountAt(at + 1) = b
      <4>1. at + 1 = s + 2 /\ s + 2 \in 1 .. n
        BY <1>6, <1>7, <1>8, <2>2
      <4>2. RecordAt(at + 1) = <<"count", b>>
        BY <1>6, <1>7, <4>1 DEF YearAt
      <4> QED BY <4>2, CountFacts
    <3>2. CASE at + 2 + b > n
      <4>1. CountAt(at + 2 + b) = 0
        BY <1>6, <1>8, <1>9, <3>2
      <4>2. IsReading(snap, at, b, 0)
        BY <1>8, <1>10, <3>1, <4>1, ReadSnapshotFacts
      <4> QED BY <1>6, <1>8, <3>2, <4>2
    <3>3. CASE at + 2 + b <= n
      <4>0. at + 2 + b = s + 3 + b
        BY SMTT(30), <1>7, <1>8
      <4>1. at + 2 + b = s + 3 + b /\ s + 3 + b \in 1 .. n
        BY <1>6, <1>7, <3>3, <4>0
      <4>2. RecordAt(at + 2 + b) = <<"count", e>>
        BY <1>6, <1>7, <4>1 DEF YearAt
      <4>3. CountAt(at + 2 + b) = e
        BY <4>2, CountFacts
      <4>4. IsReading(snap, at, b, e)
        BY <1>8, <1>10, <3>1, <4>3, ReadSnapshotFacts
      <4> QED BY <1>6, <1>7, <1>8, <4>4
    <3> QED BY <1>6, <1>8, <3>2, <3>3
  <2> QED BY <1>6, <1>8, <2>1, <2>2
<1>12. PICK p, q \in Nat : /\ IsReading(snap, at, p, q)
                           /\ p <= b /\ q <= e /\ at + 3 + p + q > n
  BY <1>11
<1>13. snap \in Readings /\ RecordsRead(snap) = 3 + p + q
  BY <1>12 DEF IsReading, RecordsRead
<1>14. BytesRead(snap) = 60 + 2 * 4 + p * 44 + q * 56
  BY <1>12, RecordSizes DEF IsReading, BytesRead
<1>15. YearBytes(h[k]) = 4 + 8 * 8 + 4 + b * 44 + 4 + e * 56
  BY <1>2, RecordSizes DEF YearBytes
<1>16. BytesRead(snap) \in Nat /\ BytesRead(snap) + F64 <= YearBytes(h[k])
  BY <1>12, <1>14, <1>15, RecordSizes
<1>17. RecordsRead(snap) \in Nat /\ at + RecordsRead(snap) > n
  <2>1. PICK x, y, z \in Nat : x = at /\ y = p /\ z = q
    BY <1>8
  <2>2. x + 3 + y + z > n
    BY <1>12, <2>1
  <2>3. x + (3 + y + z) > n
    BY <1>6, <2>2
  <2>4. RecordsRead(snap) = 3 + y + z
    BY <1>13, <2>1
  <2>5. RecordsRead(snap) \in Nat
    BY <2>4
  <2>6. x + RecordsRead(snap) > n
    BY <2>3, <2>4
  <2> QED BY <2>1, <2>5, <2>6
<1> QED
  BY <1>5, <1>10, <1>13, <1>16, <1>17

(* Behind the last record the parser reads a blank year.                   *)
LEMMA BlankYears ==
  ASSUME IInv, NEW at \in Nat, at > Len(items["bin"])
  PROVE  /\ ReadSnapshot(at) \in Readings /\ ReadSnapshot(at) = BlankYear
         /\ RecordsRead(ReadSnapshot(at)) = 3
         /\ BytesRead(ReadSnapshot(at)) = 68
<1>1. PICK n : n = Len(items["bin"])
  OBVIOUS
<1>2. n \in Nat
  BY <1>1, LenProperties DEF IInv, Written
<1>3. at \in Nat \ {0} /\ at > n /\ at + 1 > n /\ at + 2 + 0 > n
  BY <1>1, <1>2
<1>4. RecordAt(at) = Blank /\ CountAt(at + 1) = 0 /\ CountAt(at + 2 + 0) = 0
  <2>1. at + 1 \in Nat /\ at + 2 + 0 \in Nat
    OBVIOUS
  <2> QED BY <1>1, <1>3, <2>1, RecordFacts
<1>5. PICK snap : snap = ReadSnapshot(at)
  OBVIOUS
<1>6. IsReading(snap, at, 0, 0)
  BY <1>3, <1>4, <1>5, ReadSnapshotFacts
<1>7. snap \in Readings /\ Len(snap.branch_states) = 0 /\ Len(snap.heir_states) = 0
  BY <1>6 DEF IsReading
<1>8. snap.branch_states = <<>> /\ snap.heir_states = <<>>
  BY <1>7, EmptySeq DEF Readings
<1>9. snap = BlankYear
  <2>1. snap = [year |-> snap.year, branch_states |-> snap.branch_states,
                heir_states |-> snap.heir_states]
    BY <1>7 DEF Readings
  <2>2. snap.year = Blank
    BY <1>4, <1>6 DEF IsReading
  <2> QED BY <1>8, <2>1, <2>2 DEF BlankYear
<1>10. RecordsRead(snap) = 3
  BY <1>7 DEF RecordsRead
<1>11. BytesRead(snap) = 68
  BY <1>7, RecordSizes DEF BytesRead
<1> QED
  BY <1>5, <1>7, <1>9, <1>10, <1>11

(* The first k years that were read: all as they were recorded, or the     *)
(* first w, one that is torn and blank ones.                               *)
ReadWhole(h, k) ==
  /\ After[k].at = Len(UpTo(h)[k]) + 1
  /\ Len(UpTo(h)[k]) <= Len(items["bin"])
  /\ \A j \in 1 .. k : After[k].snapshots[j] = YearOf(h, j)

ReadTorn(h, k, w) ==
  /\ After[k].at > Len(items["bin"])
  /\ Len(UpTo(h)[w + 1]) > Len(items["bin"])
  /\ \A j \in 1 .. w : After[k].snapshots[j] = YearOf(h, j)
  /\ \A j \in w + 2 .. k : After[k].snapshots[j] = BlankYear

ReadUpTo(h, k) ==
  /\ After[k].snapshots \in Seq(Readings) /\ Len(After[k].snapshots) = k
  /\ After[k].at \in Nat /\ After[k].bytes \in Nat
  /\ After[k].bytes + F64 * k <= 3 * U32 + Total(YearSizes(h), 1 .. k)
  /\ ReadWhole(h, k) \/ \E w \in 0 .. k - 1 : ReadTorn(h, k, w)

(* A reading has a number of records and of bytes.                         *)
LEMMA ReadingSizes ==
  ASSUME NEW snap \in Readings
  PROVE  RecordsRead(snap) \in Nat /\ BytesRead(snap) \in Nat
<1>1. /\ snap.branch_states \in Seq(Values) /\ snap.heir_states \in Seq(Values)
  BY DEF Readings
<1>2. PICK p, q \in Nat : p = Len(snap.branch_states) /\ q = Len(snap.heir_states)
  BY <1>1, LenProperties
<1>3. RecordsRead(snap) = 3 + p + q
  BY <1>2 DEF RecordsRead
<1>4. BytesRead(snap) = 60 + 2 * 4 + p * 44 + q * 56
  BY <1>2, RecordSizes DEF BytesRead
<1> QED
  BY <1>3, <1>4

(* With the count of the years in the file, the parser reads that many.    *)
LEMMA ReadFacts ==
  ASSUME IInv, NEW h, h = recorded["bin"], Len(items["bin"]) >= 3
  PROVE  /\ CountAt(3) = Len(h) /\ ReadFile = After[Len(h)]
         /\ \A k \in 0 .. Len(h) : ReadUpTo(h, k)
<1> DEFINE n == Len(items["bin"])
           L == {k \in Nat : k \in 0 .. Len(h) => ReadUpTo(h, k)}
<1>1. h \in Histories /\ Len(h) \in Nat /\ n \in Nat
  BY Constants, HistoriesOfSnapshots, YearFacts, LenProperties
     DEF IInv, Types, Written
<1>2. CountAt(3) = Len(h)
  <2>1. 3 \in 1 .. n
    BY <1>1
  <2>2. RecordAt(3) = <<"count", Len(h)>>
    BY <1>1, <2>1, RecordFacts, HeaderInLayout
  <2> QED BY <1>1, <2>2, CountFacts
<1>3. /\ ReadFile = After[Len(h)]
      /\ \A k \in 0 .. Len(h) : After[k] = ReadBody(After, k)
  BY <1>1, <1>2, ReadFileUnfolds
<1>4. 0 \in L
  <2>1. After[0] = [snapshots |-> <<>>, at |-> 4, bytes |-> 3 * U32]
    <3>1. After[0] = ReadBody(After, 0)
      BY <1>1, <1>3
    <3> QED BY <3>1 DEF ReadBody
  <2>2. /\ After[0].snapshots = <<>> /\ After[0].at = 4
        /\ After[0].bytes = 12
    BY <2>1, RecordSizes
  <2>3. Len(UpTo(h)[0]) = 3
    BY <1>1, HeaderInLayout
  <2>4. Total(YearSizes(h), 1 .. 0) = 0
    <3>1. 1 .. 0 = {}
      OBVIOUS
    <3> QED BY <3>1, TotalEmpty
  <2>5. <<>> \in Seq(Readings) /\ Len(<<>>) = 0
    BY EmptySeq
  <2>6. ReadWhole(h, 0)
    BY <2>2, <2>3 DEF ReadWhole
  <2>7. ReadUpTo(h, 0)
    BY <2>2, <2>4, <2>5, <2>6, RecordSizes DEF ReadUpTo
  <2> QED BY <2>7
<1>5. ASSUME NEW m \in Nat, m \in L PROVE m + 1 \in L
  <2> SUFFICES ASSUME m + 1 \in 0 .. Len(h) PROVE ReadUpTo(h, m + 1)
    OBVIOUS
  <2>1. PICK k \in 1 .. Len(h) : k = m + 1
    BY <1>1
  <2>2. m = k - 1 /\ m \in 0 .. Len(h) /\ k \in 0 .. Len(h) /\ k \in Nat
    BY <1>1, <2>1
  <2>3. ReadUpTo(h, m)
    BY <1>5, <2>2
  <2>4. PICK a : a = After[m]
    OBVIOUS
  <2>5. PICK snap : snap = ReadSnapshot(a.at)
    OBVIOUS
  <2>6. PICK b : b = After[k]
    OBVIOUS
  <2>7. /\ b.snapshots = Append(a.snapshots, snap)
        /\ b.at = a.at + RecordsRead(snap)
        /\ b.bytes = a.bytes + BytesRead(snap)
    <3>1. b = ReadBody(After, k)
      BY <1>3, <2>2, <2>6
    <3>2. ReadBody(After, k) =
            [snapshots |-> Append(After[k - 1].snapshots, ReadSnapshot(After[k - 1].at)),
             at |-> After[k - 1].at + RecordsRead(ReadSnapshot(After[k - 1].at)),
             bytes |-> After[k - 1].bytes + BytesRead(ReadSnapshot(After[k - 1].at))]
      BY DEF ReadBody
    <3>3. After[k - 1] = a
      BY <2>2, <2>4
    <3> QED BY <2>5, <3>1, <3>2, <3>3
  <2>8. /\ a.snapshots \in Seq(Readings) /\ Len(a.snapshots) = m
        /\ a.at \in Nat /\ a.bytes \in Nat
        /\ a.bytes + F64 * m <= 3 * U32 + Total(YearSizes(h), 1 .. m)
    BY <2>3, <2>4 DEF ReadUpTo
  <2> DEFINE Good == /\ snap \in Readings
                     /\ RecordsRead(snap) \in Nat /\ BytesRead(snap) \in Nat
                     /\ BytesRead(snap) + F64 <= YearSizes(h)[k]
             Whole == /\ ReadWhole(h, m) /\ Len(UpTo(h)[k]) <= n
                      /\ snap = YearOf(h, k) /\ b.at = Len(UpTo(h)[k]) + 1
             Tears == /\ ReadWhole(h, m) /\ Len(UpTo(h)[k]) > n
                      /\ b.at > n
             Blanks == /\ \E w \in 0 .. m - 1 : ReadTorn(h, m, w)
                       /\ snap = BlankYear /\ b.at > n
  <2>9. YearSizes(h)[k] = YearBytes(h[k]) /\ YearSizes(h)[k] \in Nat
    BY <1>1, YearFacts
  <2>10. Good /\ (Whole \/ Tears \/ Blanks)
    <3>1. CASE ReadWhole(h, m)
      <4>1. a.at = Len(UpTo(h)[k - 1]) + 1
        BY <2>2, <2>4, <3>1 DEF ReadWhole
      <4>2. Len(UpTo(h)[k]) \in Nat
        BY <1>1, <2>2, UpToFacts, LenProperties DEF SizedUpTo
      <4>3. CASE Len(UpTo(h)[k]) <= n
        <5>1. /\ snap \in Readings /\ snap = YearOf(h, k)
              /\ a.at + RecordsRead(snap) = Len(UpTo(h)[k]) + 1
              /\ BytesRead(snap) + F64 = YearBytes(h[k])
          BY <2>5, <4>1, <4>3, WholeYear
        <5>2. RecordsRead(snap) \in Nat /\ BytesRead(snap) \in Nat
          BY <5>1, ReadingSizes
        <5> QED BY <2>7, <2>9, <3>1, <4>3, <5>1, <5>2
      <4>4. CASE Len(UpTo(h)[k]) > n
        <5>1. /\ snap \in Readings
              /\ RecordsRead(snap) \in Nat /\ BytesRead(snap) \in Nat
              /\ a.at + RecordsRead(snap) > n
              /\ BytesRead(snap) + F64 <= YearBytes(h[k])
          BY <2>5, <4>1, <4>4, TornYear
        <5> QED BY <2>7, <2>9, <3>1, <4>4, <5>1
      <4> QED BY <1>1, <4>2, <4>3, <4>4
    <3>2. CASE \E w \in 0 .. m - 1 : ReadTorn(h, m, w)
      <4>1. a.at > n
        BY <2>4, <3>2 DEF ReadTorn
      <4>2. /\ snap \in Readings /\ snap = BlankYear
            /\ RecordsRead(snap) = 3 /\ BytesRead(snap) = 68
        BY <2>5, <2>8, <4>1, BlankYears
      <4>3. 68 + F64 <= YearSizes(h)[k]
        <5>1. PICK p, q \in Nat : p = h[k].branches /\ q = h[k].heirs
          BY <1>1, YearFacts
        <5>2. YearBytes(h[k]) = 4 + 8 * 8 + 4 + p * 44 + 4 + q * 56
          BY <5>1, RecordSizes DEF YearBytes
        <5> QED BY <2>9, <5>2, RecordSizes
      <4>4. b.at > n
        BY <1>1, <2>7, <2>8, <4>1, <4>2
      <4> QED BY <3>2, <4>2, <4>3, <4>4
    <3> QED BY <2>3, <3>1, <3>2 DEF ReadUpTo
  <2>11. /\ b.snapshots \in Seq(Readings) /\ Len(b.snapshots) = k
         /\ \A j \in 1 .. m : b.snapshots[j] = a.snapshots[j]
         /\ b.snapshots[k] = snap
    <3>1. PICK c : c = a.snapshots
      OBVIOUS
    <3>2. c \in Seq(Readings) /\ snap \in Readings /\ Len(c) = m
      BY <2>8, <2>10, <3>1
    <3>3. /\ Append(c, snap) \in Seq(Readings)
          /\ Len(Append(c, snap)) = m + 1
          /\ \A j \in 1 .. m : Append(c, snap)[j] = c[j]
          /\ Append(c, snap)[m + 1] = snap
      BY <3>2, AppendProperties
    <3> QED BY <2>1, <2>7, <3>1, <3>3
  <2>12. b.at \in Nat /\ b.bytes \in Nat
    BY SMTT(30), <2>7, <2>8, <2>10
  <2>13. b.bytes + F64 * k <= 3 * U32 + Total(YearSizes(h), 1 .. k)
    <3>1. /\ Total(YearSizes(h), 1 .. k)
               = YearSizes(h)[k] + Total(YearSizes(h), 1 .. m)
          /\ Total(YearSizes(h), 1 .. m) \in Nat
      BY <1>1, <2>1, YearTotals
    <3>2. PICK p, q, r, t \in Nat :
            /\ p = a.bytes /\ q = BytesRead(snap)
            /\ r = YearSizes(h)[k] /\ t = Total(YearSizes(h), 1 .. m)
      BY <2>8, <2>9, <2>10, <3>1
    <3>3. p + 8 * m <= 12 + t /\ q + 8 <= r
      BY <2>8, <2>10, <3>2, RecordSizes
    <3>4. (p + q) + 8 * (m + 1) <= 12 + (r + t)
      BY <3>3
    <3>5. b.bytes = p + q /\ Total(YearSizes(h), 1 .. k) = r + t
      BY <2>7, <3>1, <3>2
    <3> QED BY <2>1, <3>4, <3>5, RecordSizes
  <2>14. ReadWhole(h, k) \/ \E w \in 0 .. k - 1 : ReadTorn(h, k, w)
    <3>1. CASE Whole
      <4>1. \A j \in 1 .. m : b.snapshots[j] = YearOf(h, j)
        BY <2>4, <2>11, <3>1 DEF ReadWhole
      <4>2. \A j \in 1 .. k : j \in 1 .. m \/ j = k
        BY <2>1
      <4>3. ReadWhole(h, k)
        BY <2>6, <2>11, <3>1, <4>1, <4>2 DEF ReadWhole
      <4> QED BY <4>3
    <3>2. CASE Tears
      <4>1. \A j \in 1 .. m : b.snapshots[j] = YearOf(h, j)
        BY <2>4, <2>11, <3>2 DEF ReadWhole
      <4>2. m \in 0 .. k - 1 /\ m + 2 .. k = {}
        BY <2>1
      <4>3. ReadTorn(h, k, m)
        BY <2>1, <2>6, <3>2, <4>1, <4>2 DEF ReadTorn
      <4> QED BY <4>2, <4>3
    <3>3. CASE Blanks
      <4>1. PICK w \in 0 .. m - 1 : ReadTorn(h, m, w)
        BY <3>3
      <4>2. /\ w \in 0 .. k - 1
            /\ \A j \in 1 .. w : j \in 1 .. m
            /\ \A j \in w + 2 .. k : (j \in 1 .. m /\ j \in w + 2 .. m) \/ j = k
        BY <2>1
      <4>3. Len(UpTo(h)[w + 1]) > n /\ b.at > n
        BY <3>3, <4>1 DEF ReadTorn
      <4>4. \A j \in 1 .. w : b.snapshots[j] = YearOf(h, j)
        BY <2>4, <2>11, <4>1, <4>2 DEF ReadTorn
      <4>5. \A j \in w + 2 .. k : b.snapshots[j] = BlankYear
        BY <2>4, <2>11, <3>3, <4>1, <4>2 DEF ReadTorn
      <4>6. ReadTorn(h, k, w)
        BY <2>6, <4>3, <4>4, <4>5 DEF ReadTorn
      <4> QED BY <4>2, <4>6
    <3> QED BY <2>10, <3>1, <3>2, <3>3
  <2>15. ReadUpTo(h, k)
    BY <2>6, <2>11, <2>12, <2>13, <2>14 DEF ReadUpTo
  <2> QED BY <2>1, <2>15
<1>6. Nat \subseteq L
  <2> HIDE DEF L
  <2> QED BY <1>4, <1>5, NatSet
<1> QED
  BY <1>2, <1>3, <1>6

(* Without a count the parser reads no snapshot.                           *)
LEMMA NothingToRead ==
  ASSUME IInv, Len(items["bin"]) < 3
  PROVE  ReadFile = [snapshots |-> <<>>, at |-> 4, bytes |-> 3 * U32]
<1>1. Len(items["bin"]) \in Nat
  BY LenProperties DEF IInv, Written
<1>2. CountAt(3) = 0
  <2>1. 3 \in Nat /\ 3 > Len(items["bin"])
    BY <1>1
  <2> QED BY <2>1, RecordFacts
<1>3. ReadFile = ReadBody(After, 0)
  BY <1>2, ReadFileUnfolds
<1> QED
  BY <1>3 DEF ReadBody

(* A file that holds its magic number and version is accepted: what is     *)
(* read of it is never more than its size.                                 *)
LEMMA AcceptedFiles ==
  ASSUME IInv, Len(items["bin"]) >= 2
  PROVE  Accepted
<1>1. PICK h \in Histories : h = recorded["bin"]
  BY Constants, HistoriesOfSnapshots DEF IInv, Types
<1>2. Len(h) \in Nat /\ Len(items["bin"]) \in Nat
  BY <1>1, YearFacts, LenProperties DEF IInv, Written
<1>3. /\ RecordAt(1) = <<"MAGIC">> /\ RecordAt(2) = <<"VERSION">>
  <2>1. 1 \in 1 .. Len(items["bin"]) /\ 2 \in 1 .. Len(items["bin"])
    BY <1>2
  <2> QED BY <1>1, <2>1, RecordFacts, HeaderInLayout
<1>4. size["bin"] = TotalBytes(h)
  <2>1. items["bin"] # <<>>
    BY EmptySeq
  <2> QED BY <1>1, <2>1 DEF IInv, Written
<1>5. Total(YearSizes(h), 1 .. Len(h)) \in Nat
  <2>1. IsFiniteSet(1 .. Len(h)) /\ \A k \in 1 .. Len(h) : YearSizes(h)[k] \in Nat
    BY <1>2, YearFacts, FS_Interval
  <2> QED BY <2>1, TotalNat
<1>6. TotalBytes(h) = 12 + Total(YearSizes(h), 1 .. Len(h))
  BY YearFacts, RecordSizes DEF TotalBytes, YearSizes
<1>7. ReadFile.bytes <= size["bin"]
  <2>1. CASE Len(items["bin"]) >= 3
    <3>1. ReadFile = After[Len(h)] /\ ReadUpTo(h, Len(h))
      BY <1>1, <1>2, <2>1, ReadFacts
    <3>2. /\ ReadFile.bytes \in Nat
          /\ ReadFile.bytes + F64 * Len(h)
               <= 3 * U32 + Total(YearSizes(h), 1 .. Len(h))
      BY <3>1 DEF ReadUpTo
    <3> QED BY <1>2, <1>4, <1>5, <1>6, <3>2, RecordSizes
  <2>2. CASE Len(items["bin"]) = 2
    <3>1. ReadFile = [snapshots |-> <<>>, at |-> 4, bytes |-> 3 * U32]
      BY <2>2, NothingToRead
    <3> QED BY <1>4, <1>5, <1>6, <3>1, RecordSizes
  <2>3. Len(items["bin"]) >= 3 \/ Len(items["bin"]) = 2
    <3>1. PICK n \in Nat : n = Len(items["bin"])
      BY <1>2
    <3>2. n >= 2
      BY <3>1
    <3>3. ASSUME NEW m \in Nat, m >= 2 PROVE m >= 3 \/ m = 2
      BY <3>3
    <3> QED BY <3>1, <3>2, <3>3
  <2> QED BY <2>1, <2>2, <2>3
<1> QED
  BY <1>3, <1>7 DEF Accepted

(* A binary export that was reported as done can be read, and gives back   *)
(* exactly the history that was exported, whatever failed or was killed    *)
(* afterwards.                                                             *)
THEOREM ReportedHistoriesAreReadable == Spec => []ReportedIsReadable
<1>1. ASSUME IInv, reported["bin"] = "exported"
      PROVE  ReportedIsReadable
  <2>1. PICK h \in Histories : h = recorded["bin"]
    BY <1>1, Constants, HistoriesOfSnapshots DEF IInv, Types
  <2>2. Len(h) \in Nat /\ DOMAIN h = 1 .. Len(h) /\ Len(h) \in 0 .. Len(h)
    BY <2>1, YearFacts
  <2>3. items["bin"] = BinaryLayout(h)
    BY <1>1, <2>1 DEF IInv, Written
  <2>4. Len(items["bin"]) \in Nat /\ Len(items["bin"]) >= 3
    BY <2>3, LayoutFacts
  <2>5. ReadFile = After[Len(h)] /\ ReadUpTo(h, Len(h))
    BY <1>1, <2>1, <2>2, <2>4, ReadFacts
  <2>6. ReadWhole(h, Len(h))
    <3>1. ASSUME NEW w \in 0 .. Len(h) - 1, ReadTorn(h, Len(h), w)
          PROVE  FALSE
      <4>1. w + 1 \in 0 .. Len(h)
        BY <2>2
      <4>2. /\ Len(UpTo(h)[w + 1]) <= Len(items["bin"])
            /\ Len(UpTo(h)[w + 1]) \in Nat
        BY <2>3, <4>1, LayoutBegins, UpToFacts, LenProperties DEF Begins, SizedUpTo
      <4>3. Len(UpTo(h)[w + 1]) > Len(items["bin"])
        BY <3>1 DEF ReadTorn
      <4> QED BY <2>4, <4>2, <4>3
    <3> QED BY <2>5, <3>1 DEF ReadUpTo
  <2>7. PICK read : read = ReadFile.snapshots
    OBVIOUS
  <2>8. /\ read \in Seq(Readings) /\ Len(read) = Len(h)
        /\ \A k \in 1 .. Len(h) : read[k] = YearOf(h, k)
    BY <2>5, <2>6, <2>7 DEF ReadUpTo, ReadWhole
  <2>9. read = [k \in 1 .. Len(h) |-> YearOf(h, k)]
    <3>1. read \in [1 .. Len(h) -> Readings]
      BY <2>8, LenProperties
    <3> QED BY <2>8, <3>1
  <2>10. Accepted
    BY <1>1, <2>4, AcceptedFiles
  <2> QED BY <2>1, <2>2, <2>7, <2>9, <2>10 DEF ReportedIsReadable
<1>2. IInv => ReportedIsReadable
  BY <1>1 DEF ReportedIsReadable
<1> QED
  BY <1>2, IInvAlways, PTL

(* A file that was left half-written, by a crash or a failure, is accepted *)
(* as soon as its header is there, and reads as the first years of the     *)
(* history, one that may be incomplete and blank ones: no record is ever   *)
(* taken for another.                                                      *)
THEOREM TornFilesAreHarmless == Spec => []TornFilesEndBlank
<1>1. ASSUME IInv
      PROVE  TornFilesEndBlank
  <2>1. PICK h \in Histories : h = recorded["bin"]
    BY <1>1, Constants, HistoriesOfSnapshots DEF IInv, Types
  <2>2. Len(h) \in Nat /\ Len(h) \in 0 .. Len(h) /\ Len(items["bin"]) \in Nat
    BY <1>1, <2>1, YearFacts, LenProperties DEF IInv, Written
  <2>3. Len(items["bin"]) >= 2 => Accepted
    BY <1>1, AcceptedFiles
  <2>4. PICK read : read = ReadFile.snapshots
    OBVIOUS
  <2>5. CASE Len(items["bin"]) < 3
    <3>1. ReadFile = [snapshots |-> <<>>, at |-> 4, bytes |-> 3 * U32]
      BY <1>1, <2>5, NothingToRead
    <3> QED BY <2>3, <3>1 DEF TornFilesEndBlank
  <2>6. CASE Len(items["bin"]) >= 3
    <3>1. ReadFile = After[Len(h)] /\ ReadUpTo(h, Len(h))
      BY <1>1, <2>1, <2>2, <2>6, ReadFacts
    <3>2. Len(read) = Len(h)
      BY <2>4, <3>1 DEF ReadUpTo
    <3>3. \E w \in 0 .. Len(h) :
            /\ \A k \in 1 .. w : read[k] = YearOf(h, k)
            /\ \A k \in w + 2 .. Len(h) : read[k] = BlankYear
      <4>1. CASE ReadWhole(h, Len(h))
        <5>1. \A k \in 1 .. Len(h) : read[k] = YearOf(h, k)
          BY <2>4, <3>1, <4>1 DEF ReadWhole
        <5>2. Len(h) + 2 .. Len(h) = {}
          BY <2>2
        <5> QED BY <2>2, <5>1, <5>2
      <4>2. CASE \E w \in 0 .. Len(h) - 1 : ReadTorn(h, Len(h), w)
        <5>1. PICK w \in 0 .. Len(h) - 1 : ReadTorn(h, Len(h), w)
          BY <4>2
        <5>2. /\ \A k \in 1 .. w : read[k] = YearOf(h, k)
              /\ \A k \in w + 2 .. Len(h) : read[k] = BlankYear
          BY <2>4, <3>1, <5>1 DEF ReadTorn
        <5>3. w \in 0 .. Len(h)
          BY <2>2
        <5> QED BY <5>2, <5>3
      <4> QED BY <3>1, <4>1, <4>2 DEF ReadUpTo
    <3> QED BY <2>1, <2>3, <2>4, <3>2, <3>3 DEF TornFilesEndBlank
  <2> QED BY <2>2, <2>5, <2>6
<1> QED
  BY <1>1, IInvAlways, PTL

=============================================================================
