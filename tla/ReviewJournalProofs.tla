------------------------- MODULE ReviewJournalProofs -------------------------
(***************************************************************************)
(* The review journal, for every number of requests, threads, deaths and   *)
(* failed writes: an undamaged journal can be read whenever no append is   *)
(* writing, damage is never silent, and the reads of a handler see the     *)
(* journal grow.                                                           *)
(*                                                                         *)
(* Damage is the reason why the invariant does not say what the lines are. *)
(* A failed write lets a second append write into the middle of the first, *)
(* and what is kept of either is only that an entry whose append returned  *)
(* has its first half in some line that is on the disk and ended: either   *)
(* that line is the entry or the journal does not verify.                  *)
(***************************************************************************)
EXTENDS ReviewJournal, SequenceTheorems, Inductions

Entry == [by : ReviewId, sequence : Nat, previous : Nat]
Piece == [entry : Entry, half : {1, 2}]
Line == Seq(Piece)
File == Seq(Line) \ {<<>>}

----------------------------------------------------------------------------
(* What splitlines makes of a file, line by line.                           *)

(* The recursive function that JournalLines is the last value of.           *)
LEMMA LinesFunction ==
  ASSUME NEW file \in Seq(Line)
  PROVE  \E lines \in [0 .. Len(file) -> Seq(Line \ {<<>>})] :
           /\ JournalLines(file) = lines[Len(file)]
           /\ lines[0] = <<>>
           /\ \A n \in 1 .. Len(file) :
                lines[n] = IF file[n] = <<>> THEN lines[n - 1]
                           ELSE Append(lines[n - 1], file[n])
<1> DEFINE X == Seq(Line \ {<<>>})
           N == Len(file)
           D(v, n) == IF file[n] = <<>> THEN v ELSE Append(v, file[n])
           F == [p \in X \X (1 .. N) |-> D(p[1], p[2])]
           c == <<>>
           Def(g) == g = [n \in 0 .. N |-> IF n = 0 THEN <<>> ELSE D(g[n - 1], n)]
           lines == CHOOSE g : Def(g)
<1>1. N \in Nat /\ \A n \in 1 .. N : file[n] \in Line
  OBVIOUS
<1>2. c \in X /\ \A v \in X, n \in 1 .. N : D(v, n) \in X
  <2>1. c \in X
    OBVIOUS
  <2>2. ASSUME NEW v \in X, NEW n \in 1 .. N
        PROVE  D(v, n) \in X
    <3>1. file[n] \in Line
      BY <1>1
    <3>2. CASE file[n] = <<>>
      BY <3>2
    <3>3. CASE file[n] # <<>>
      <4>1. file[n] \in Line \ {<<>>}
        BY <3>1, <3>3
      <4>2. Append(v, file[n]) \in X
        BY <4>1, AppendProperties
      <4>3. QED BY <3>3, <4>2
    <3>4. QED BY <3>2, <3>3
  <2>3. QED BY <2>1, <2>2
<1>3. JournalLines(file) = lines[N]
  BY DEF JournalLines
<1> HIDE DEF D, X, N
<1>4. F \in [X \X (1 .. N) -> X] /\ \A v \in X, n \in 1 .. N : F[<<v, n>>] = D(v, n)
  BY <1>2
<1> HIDE DEF F
<1> HIDE DEF c
<1>5. PICK f \in [0 .. N -> X] : Iterates(f, c, N, F)
  <2>1. c \in X /\ N \in Nat /\ F \in [X \X (1 .. N) -> X]
    BY <1>1, <1>2, <1>4
  <2>2. QED BY <2>1, Recursion
<1>6. \A i \in 1 .. N : f[i - 1] \in X
  BY <1>1
<1>7. Def(f)
  <2>1. \A n \in 0 .. N : n # 0 => n \in 1 .. N
    BY <1>1
  <2>2. \A n \in 0 .. N : f[n] = IF n = 0 THEN <<>> ELSE D(f[n - 1], n)
    BY <1>4, <1>5, <1>6, <2>1 DEF c, Iterates
  <2>3. QED BY <1>5, <2>2
<1>8. Def(lines)
  BY <1>7
<1> HIDE DEF lines
<1>9. lines[0] = <<>> /\ \A i \in 1 .. N : lines[i] = D(lines[i - 1], i)
  BY <1>1, <1>8
<1> DEFINE S == {n \in Nat : n <= N => lines[n] \in X}
<1>10. 0 \in S
  BY <1>2, <1>9 DEF c
<1>11. ASSUME NEW n \in Nat, n \in S
       PROVE  n + 1 \in S
  <2>1. SUFFICES ASSUME n + 1 <= N
                 PROVE  lines[n + 1] \in X
    OBVIOUS
  <2>2. n + 1 \in 1 .. N /\ lines[n] \in X /\ (n + 1) - 1 = n
    BY <1>1, <1>11, <2>1
  <2>3. lines[n + 1] = D(lines[n], n + 1)
    BY <1>9, <2>2
  <2>4. QED BY <1>2, <2>2, <2>3
<1> HIDE DEF S
<1>12. \A n \in 0 .. N : lines[n] \in X
  <2>1. Nat \subseteq S
    BY <1>10, <1>11, SetInduction
  <2>2. QED BY <1>1, <2>1 DEF S
<1>13. lines \in [0 .. N -> X]
  BY <1>8, <1>12
<1>14. QED BY <1>3, <1>9, <1>13 DEF D, X, N

(* No line, no entry.                                                       *)
LEMMA LinesOfNone == JournalLines(<<>>) = <<>>
<1>1. <<>> \in Seq(Line) /\ Len(<<>>) = 0
  OBVIOUS
<1>2. QED BY <1>1, LinesFunction

(* A further line is kept unless it is blank.                               *)
LEMMA LinesAppend ==
  ASSUME NEW file \in Seq(Line), NEW line \in Line
  PROVE  JournalLines(Append(file, line)) =
           IF line = <<>> THEN JournalLines(file) ELSE Append(JournalLines(file), line)
<1> DEFINE g == Append(file, line)
           N == Len(file)
<1>1. /\ N \in Nat /\ g \in Seq(Line) /\ Len(g) = N + 1
      /\ g[N + 1] = line /\ \A i \in 1 .. N : g[i] = file[i]
  BY AppendProperties
<1> HIDE DEF g
<1>2. PICK a \in [0 .. N -> Seq(Line \ {<<>>})] :
        /\ JournalLines(file) = a[N]
        /\ a[0] = <<>>
        /\ \A n \in 1 .. N :
             a[n] = IF file[n] = <<>> THEN a[n - 1] ELSE Append(a[n - 1], file[n])
  BY LinesFunction
<1>3. PICK b \in [0 .. Len(g) -> Seq(Line \ {<<>>})] :
        /\ JournalLines(g) = b[Len(g)]
        /\ b[0] = <<>>
        /\ \A n \in 1 .. Len(g) :
             b[n] = IF g[n] = <<>> THEN b[n - 1] ELSE Append(b[n - 1], g[n])
  BY <1>1, LinesFunction
<1> HIDE DEF N
<1> DEFINE S == {n \in Nat : n <= N => a[n] = b[n]}
<1>4. 0 \in S
  BY <1>2, <1>3
<1>5. ASSUME NEW n \in Nat, n \in S
      PROVE  n + 1 \in S
  <2>1. SUFFICES ASSUME n + 1 <= N
                 PROVE  a[n + 1] = b[n + 1]
    OBVIOUS
  <2>2. /\ n + 1 \in 1 .. N /\ n + 1 \in 1 .. Len(g) /\ (n + 1) - 1 = n
        /\ a[n] = b[n] /\ g[n + 1] = file[n + 1]
    BY <1>1, <1>5, <2>1
  <2>3. QED BY <1>2, <1>3, <2>2
<1> HIDE DEF S
<1>6. a[N] = b[N]
  <2>1. Nat \subseteq S
    BY <1>4, <1>5, SetInduction
  <2>2. QED BY <1>1, <2>1 DEF S
<1>7. N + 1 \in 1 .. Len(g) /\ (N + 1) - 1 = N
  BY <1>1
<1>8. JournalLines(g) = IF line = <<>> THEN b[N] ELSE Append(b[N], line)
  BY <1>1, <1>3, <1>7
<1>9. QED BY <1>2, <1>6, <1>8 DEF g

(* No line that is kept is blank.                                           *)
LEMMA LinesType ==
  ASSUME NEW file \in Seq(Line)
  PROVE  JournalLines(file) \in Seq(Line \ {<<>>})
<1>1. Len(file) \in 0 .. Len(file)
  OBVIOUS
<1>2. QED BY <1>1, LinesFunction

(* A file is built line by line from its beginnings.                        *)
LEMMA Beginnings ==
  ASSUME NEW T, NEW s \in Seq(T)
  PROVE  /\ SubSeq(s, 1, 0) = <<>> /\ SubSeq(s, 1, Len(s)) = s
         /\ \A n \in 0 .. Len(s) :
              /\ SubSeq(s, 1, n) \in Seq(T) /\ Len(SubSeq(s, 1, n)) = n
              /\ \A i \in 1 .. n : SubSeq(s, 1, n)[i] = s[i]
         /\ \A n \in 0 .. Len(s) - 1 :
              /\ s[n + 1] \in T
              /\ SubSeq(s, 1, n + 1) = Append(SubSeq(s, 1, n), s[n + 1])
<1>1. SubSeq(s, 1, 0) = <<>> /\ SubSeq(s, 1, Len(s)) = s
  BY SubSeqEmpty, SubSeqFull
<1>2. ASSUME NEW n \in 0 .. Len(s)
      PROVE  /\ SubSeq(s, 1, n) \in Seq(T) /\ Len(SubSeq(s, 1, n)) = n
             /\ \A i \in 1 .. n : SubSeq(s, 1, n)[i] = s[i]
  <2>1. \A i \in 1 .. n : s[i] \in T
    OBVIOUS
  <2>2. SubSeq(s, 1, n) \in Seq(T) /\ Len(SubSeq(s, 1, n)) = IF 1 <= n THEN n - 1 + 1 ELSE 0
    BY <2>1, SubSeqProperties
  <2>3. QED BY <2>1, <2>2
<1>3. ASSUME NEW n \in 0 .. Len(s) - 1
      PROVE  /\ s[n + 1] \in T
             /\ SubSeq(s, 1, n + 1) = Append(SubSeq(s, 1, n), s[n + 1])
  <2>1. s[n + 1] \in T /\ n \in 0 .. Len(s) /\ n + 1 \in 0 .. Len(s)
    OBVIOUS
  <2> DEFINE a == SubSeq(s, 1, n)
             b == SubSeq(s, 1, n + 1)
             c == Append(a, s[n + 1])
  <2>2. a \in Seq(T) /\ Len(a) = n /\ \A i \in 1 .. n : a[i] = s[i]
    BY <1>2, <2>1
  <2>3. b \in Seq(T) /\ Len(b) = n + 1 /\ \A i \in 1 .. n + 1 : b[i] = s[i]
    BY <1>2, <2>1
  <2> HIDE DEF a, b
  <2>4. /\ c \in Seq(T) /\ Len(c) = n + 1
        /\ c[n + 1] = s[n + 1] /\ \A i \in 1 .. n : c[i] = a[i]
    BY <2>1, <2>2, AppendProperties
  <2> HIDE DEF c
  <2>5. \A i \in 1 .. Len(b) : b[i] = c[i]
    BY <2>2, <2>3, <2>4
  <2>6. b = c
    BY <2>3, <2>4, <2>5, SeqEqual
  <2>7. QED BY <2>1, <2>6 DEF a, b, c
<1>4. QED BY <1>1, <1>2, <1>3

(* The lines of a beginning of the file begin the lines of the file.        *)
Begins(s, t) == Len(s) <= Len(t) /\ \A k \in 1 .. Len(s) : t[k] = s[k]

(* A beginning of a beginning is a beginning.                               *)
LEMMA BeginsTransitive ==
  ASSUME NEW T, NEW s \in Seq(T), NEW t \in Seq(T), NEW u \in Seq(T),
         Begins(s, t), Begins(t, u)
  PROVE  Begins(s, u)
<1>1. \A k \in 1 .. Len(s) : k \in 1 .. Len(t)
  BY DEF Begins
<1>2. QED BY <1>1 DEF Begins

(* A sequence begins what it is extended to.                                *)
LEMMA AppendBegins ==
  ASSUME NEW T, NEW s \in Seq(T), NEW e \in T
  PROVE  Append(s, e) \in Seq(T) /\ Begins(s, Append(s, e))
BY AppendProperties DEF Begins

(* The lines of a beginning of a file begin the lines of the file.          *)
LEMMA LinesBegin ==
  ASSUME NEW g \in Seq(Line), NEW m \in 0 .. Len(g)
  PROVE  Begins(JournalLines(SubSeq(g, 1, m)), JournalLines(g))
<1> DEFINE N == Len(g)
           L(n) == JournalLines(SubSeq(g, 1, n))
           S == {d \in Nat : m + d <= N => Begins(L(m), L(m + d))}
<1>1. N \in Nat /\ m \in Nat /\ m <= N
  OBVIOUS
<1>2. \A n \in 0 .. N : L(n) \in Seq(Line \ {<<>>})
  BY Beginnings, LinesType
<1>3. \A n \in 0 .. N - 1 : g[n + 1] \in Line
        /\ L(n + 1) = IF g[n + 1] = <<>> THEN L(n) ELSE Append(L(n), g[n + 1])
  <2>1. SUFFICES ASSUME NEW n \in 0 .. N - 1
                 PROVE  /\ g[n + 1] \in Line
                        /\ L(n + 1) = IF g[n + 1] = <<>> THEN L(n) ELSE Append(L(n), g[n + 1])
    OBVIOUS
  <2>2. g[n + 1] \in Line /\ n \in 0 .. N
    BY Beginnings
  <2>3. SubSeq(g, 1, n) \in Seq(Line) /\ SubSeq(g, 1, n + 1) = Append(SubSeq(g, 1, n), g[n + 1])
    BY <2>2, Beginnings
  <2>4. QED BY <2>2, <2>3, LinesAppend
<1>4. SubSeq(g, 1, N) = g
  BY Beginnings
<1> HIDE DEF L, N
<1>5. 0 \in S
  <2>1. L(m) \in Seq(Line \ {<<>>}) /\ m + 0 = m
    BY <1>1, <1>2
  <2>2. QED BY <2>1 DEF Begins
<1>6. ASSUME NEW d \in Nat, d \in S
      PROVE  d + 1 \in S
  <2>1. SUFFICES ASSUME m + (d + 1) <= N
                 PROVE  Begins(L(m), L(m + (d + 1)))
    OBVIOUS
  <2>2. /\ m + d \in 0 .. N - 1 /\ m + d \in 0 .. N /\ m \in 0 .. N
        /\ m + (d + 1) = (m + d) + 1 /\ Begins(L(m), L(m + d))
    BY <1>1, <1>6, <2>1
  <2>3. L(m) \in Seq(Line \ {<<>>}) /\ L(m + d) \in Seq(Line \ {<<>>})
    BY <1>2, <2>2
  <2>4. CASE g[m + d + 1] = <<>>
    BY <1>3, <2>2, <2>4
  <2>5. CASE g[m + d + 1] # <<>>
    <3>1. L((m + d) + 1) = Append(L(m + d), g[(m + d) + 1]) /\ g[(m + d) + 1] \in Line \ {<<>>}
      BY <1>3, <2>2, <2>5
    <3>2. /\ Append(L(m + d), g[(m + d) + 1]) \in Seq(Line \ {<<>>})
          /\ Begins(L(m + d), Append(L(m + d), g[(m + d) + 1]))
      BY <2>3, <3>1, AppendBegins, Zenon
    <3>3. Begins(L(m), Append(L(m + d), g[(m + d) + 1]))
      BY <2>2, <2>3, <3>2, BeginsTransitive, Zenon
    <3>4. QED BY <2>2, <3>1, <3>3, Zenon
  <2>6. QED BY <2>4, <2>5
<1> HIDE DEF S
<1>7. Nat \subseteq S
  BY <1>5, <1>6, SetInduction
<1>8. N - m \in S /\ m + (N - m) = N
  BY <1>1, <1>7
<1>9. Begins(L(m), L(N))
  BY <1>1, <1>8 DEF S
<1>10. QED BY <1>4, <1>9 DEF L

(* The lines are the file's lines that are not blank, in their order.       *)
Kept(file, lines, at) ==
  /\ \A k \in 1 .. Len(lines) : lines[k] = file[at[k]]
  /\ \A j, k \in 1 .. Len(lines) : j < k => at[j] < at[k]
  /\ \A i \in 1 .. Len(file) : file[i] # <<>> => \E k \in 1 .. Len(lines) : at[k] = i

(* A further blank line changes nothing.                                    *)
LEMMA KeptBlank ==
  ASSUME NEW file \in Seq(Line), NEW lines \in Seq(Line),
         NEW at \in [1 .. Len(lines) -> 1 .. Len(file)], Kept(file, lines, at)
  PROVE  /\ at \in [1 .. Len(lines) -> 1 .. Len(Append(file, <<>>))]
         /\ Kept(Append(file, <<>>), lines, at)
<1> DEFINE g == Append(file, <<>>)
<1>1. /\ g \in Seq(Line) /\ Len(g) = Len(file) + 1 /\ g[Len(file) + 1] = <<>>
      /\ \A i \in 1 .. Len(file) : g[i] = file[i]
  <2>1. <<>> \in Line
    BY DEF Line
  <2>2. QED BY <2>1, AppendProperties
<1> HIDE DEF g
<1>2. at \in [1 .. Len(lines) -> 1 .. Len(g)]
  BY <1>1
<1>3. \A k \in 1 .. Len(lines) : at[k] \in 1 .. Len(file)
  OBVIOUS
<1>4. \A k \in 1 .. Len(lines) : lines[k] = g[at[k]]
  BY <1>1, <1>3 DEF Kept
<1>5. ASSUME NEW i \in 1 .. Len(g), g[i] # <<>>
      PROVE  \E k \in 1 .. Len(lines) : at[k] = i
  <2>1. i \in 1 .. Len(file)
    BY <1>1, <1>5
  <2>2. QED BY <1>1, <1>5, <2>1 DEF Kept
<1>6. \A j, k \in 1 .. Len(lines) : j < k => at[j] < at[k]
  BY DEF Kept
<1>7. Kept(g, lines, at)
  BY <1>4, <1>5, <1>6 DEF Kept
<1>8. QED BY <1>2, <1>7 DEF g

(* Any other line is kept in the next place.                                *)
LEMMA KeptLine ==
  ASSUME NEW file \in Seq(Line), NEW lines \in Seq(Line), NEW line \in Line,
         NEW at \in [1 .. Len(lines) -> 1 .. Len(file)], Kept(file, lines, at)
  PROVE  \E new \in [1 .. Len(Append(lines, line)) -> 1 .. Len(Append(file, line))] :
           Kept(Append(file, line), Append(lines, line), new)
<1> DEFINE g == Append(file, line)
           h == Append(lines, line)
           N == Len(file)
           M == Len(lines)
           new == [k \in 1 .. M + 1 |-> IF k = M + 1 THEN N + 1 ELSE at[k]]
<1>1. /\ g \in Seq(Line) /\ Len(g) = N + 1 /\ g[N + 1] = line
      /\ \A i \in 1 .. N : g[i] = file[i]
  BY AppendProperties
<1>2. /\ h \in Seq(Line) /\ Len(h) = M + 1 /\ h[M + 1] = line
      /\ \A i \in 1 .. M : h[i] = lines[i]
  BY AppendProperties
<1>3. N \in Nat /\ M \in Nat /\ \A k \in 1 .. M : at[k] \in 1 .. N
  OBVIOUS
<1>4. /\ \A k \in 1 .. M : lines[k] = file[at[k]]
      /\ \A j, k \in 1 .. M : j < k => at[j] < at[k]
      /\ \A i \in 1 .. N : file[i] # <<>> => \E k \in 1 .. M : at[k] = i
  BY DEF Kept
<1> HIDE DEF g, h, N, M
<1>5. \A k \in 1 .. M : new[k] = at[k] /\ k \in 1 .. M + 1 /\ k # M + 1
  BY <1>3
<1>6. new[M + 1] = N + 1 /\ M + 1 \in 1 .. M + 1
  BY <1>3
<1>7. new \in [1 .. M + 1 -> 1 .. N + 1]
  BY <1>3
<1> HIDE DEF new
<1>8. ASSUME NEW k \in 1 .. M + 1
      PROVE  h[k] = g[new[k]]
  <2>1. CASE k = M + 1
    BY <1>1, <1>2, <1>6, <2>1
  <2>2. CASE k # M + 1
    <3>1. k \in 1 .. M
      BY <1>3, <2>2
    <3>2. h[k] = lines[k] /\ lines[k] = file[at[k]] /\ at[k] \in 1 .. N /\ new[k] = at[k]
      BY <1>2, <1>3, <1>4, <1>5, <3>1
    <3>3. g[at[k]] = file[at[k]]
      BY <1>1, <3>2
    <3>4. QED BY <3>2, <3>3
  <2>3. QED BY <2>1, <2>2
<1>9. ASSUME NEW j \in 1 .. M + 1, NEW k \in 1 .. M + 1, j < k
      PROVE  new[j] < new[k]
  <2>1. j \in 1 .. M
    BY <1>3, <1>9
  <2>2. CASE k = M + 1
    BY <1>3, <1>5, <1>6, <2>1, <2>2
  <2>3. CASE k # M + 1
    <3>1. k \in 1 .. M
      BY <1>3, <2>3
    <3>2. QED BY <1>4, <1>5, <1>9, <2>1, <3>1
  <2>4. QED BY <2>2, <2>3
<1>10. ASSUME NEW i \in 1 .. N + 1, g[i] # <<>>
       PROVE  \E k \in 1 .. M + 1 : new[k] = i
  <2>1. CASE i = N + 1
    BY <1>6, <2>1
  <2>2. CASE i # N + 1
    <3>1. i \in 1 .. N
      BY <1>3, <2>2
    <3>2. PICK k \in 1 .. M : at[k] = i
      BY <1>1, <1>4, <1>10, <3>1
    <3>3. QED BY <1>5, <3>2
  <2>3. QED BY <2>1, <2>2
<1>11. Kept(g, h, new)
  BY <1>1, <1>2, <1>8, <1>9, <1>10 DEF Kept
<1>12. new \in [1 .. Len(h) -> 1 .. Len(g)]
  BY <1>1, <1>2, <1>7
<1>13. QED BY <1>11, <1>12 DEF g, h

(* JournalLines keeps the lines that are not blank.                         *)
LEMMA LinesKept ==
  ASSUME NEW g \in Seq(Line)
  PROVE  \E at \in [1 .. Len(JournalLines(g)) -> 1 .. Len(g)] : Kept(g, JournalLines(g), at)
<1> DEFINE N == Len(g)
           B(n) == SubSeq(g, 1, n)
           Good(f) == \E at \in [1 .. Len(JournalLines(f)) -> 1 .. Len(f)] :
                        Kept(f, JournalLines(f), at)
           S == {n \in Nat : n <= N => Good(B(n))}
<1>1. N \in Nat /\ B(0) = <<>> /\ B(N) = g
  BY Beginnings
<1>2. \A n \in 0 .. N - 1 : g[n + 1] \in Line /\ B(n) \in Seq(Line)
                            /\ B(n + 1) = Append(B(n), g[n + 1])
  <2>1. \A n \in 0 .. N - 1 : n \in 0 .. N
    BY <1>1
  <2>2. QED BY <2>1, Beginnings
<1> HIDE DEF B, N
<1>3. Good(<<>>)
  <2>1. JournalLines(<<>>) = <<>> /\ Len(<<>>) = 0 /\ 1 .. 0 = {}
    BY LinesOfNone
  <2>2. [k \in 1 .. 0 |-> k] \in [1 .. 0 -> 1 .. 0] /\ Kept(<<>>, <<>>, [k \in 1 .. 0 |-> k])
    BY <2>1 DEF Kept
  <2>3. QED BY <2>1, <2>2
<1>4. ASSUME NEW f \in Seq(Line), NEW line \in Line, Good(f)
      PROVE  Good(Append(f, line))
  <2> DEFINE ls == JournalLines(f)
  <2>1. ls \in Seq(Line)
    BY LinesType
  <2>2. JournalLines(Append(f, line)) = IF line = <<>> THEN ls ELSE Append(ls, line)
    BY LinesAppend
  <2>3. PICK at \in [1 .. Len(ls) -> 1 .. Len(f)] : Kept(f, ls, at)
    BY <1>4
  <2> HIDE DEF ls
  <2>4. CASE line = <<>>
    <3>1. /\ at \in [1 .. Len(ls) -> 1 .. Len(Append(f, <<>>))]
          /\ Kept(Append(f, <<>>), ls, at)
      BY <2>1, <2>3, KeptBlank
    <3>2. JournalLines(Append(f, line)) = ls
      BY <2>2, <2>4
    <3>3. QED BY <2>4, <3>1, <3>2
  <2>5. CASE line # <<>>
    <3>1. \E new \in [1 .. Len(Append(ls, line)) -> 1 .. Len(Append(f, line))] :
            Kept(Append(f, line), Append(ls, line), new)
      BY <2>1, <2>3, KeptLine
    <3>2. JournalLines(Append(f, line)) = Append(ls, line)
      BY <2>2, <2>5
    <3>3. QED BY <3>1, <3>2
  <2>6. QED BY <2>4, <2>5
<1> HIDE DEF Good
<1>5. 0 \in S
  BY <1>1, <1>3
<1>6. ASSUME NEW n \in Nat, n \in S
      PROVE  n + 1 \in S
  <2>1. SUFFICES ASSUME n + 1 <= N
                 PROVE  Good(B(n + 1))
    OBVIOUS
  <2>2. n \in 0 .. N - 1 /\ Good(B(n))
    BY <1>1, <1>6, <2>1
  <2>3. QED BY <1>2, <1>4, <2>2, Zenon
<1> HIDE DEF S
<1>7. N \in S
  BY <1>1, <1>5, <1>6, SetInduction
<1>8. Good(g)
  BY <1>1, <1>7 DEF S
<1>9. QED BY <1>8 DEF Good

(* A file without a blank line is its lines.                                *)
LEMMA LinesOfAll ==
  ASSUME NEW g \in Seq(Line), \A i \in 1 .. Len(g) : g[i] # <<>>
  PROVE  JournalLines(g) = g
<1> DEFINE N == Len(g)
           B(n) == SubSeq(g, 1, n)
           S == {n \in Nat : n <= N => JournalLines(B(n)) = B(n)}
<1>1. N \in Nat /\ B(0) = <<>> /\ B(N) = g
  BY Beginnings
<1>2. \A n \in 0 .. N - 1 : g[n + 1] \in Line /\ B(n) \in Seq(Line) /\ g[n + 1] # <<>>
                            /\ B(n + 1) = Append(B(n), g[n + 1])
  <2>1. \A n \in 0 .. N - 1 : n \in 0 .. N /\ n + 1 \in 1 .. Len(g)
    BY <1>1
  <2>2. QED BY <2>1, Beginnings
<1> HIDE DEF B, N
<1>3. 0 \in S
  BY <1>1, LinesOfNone
<1>4. ASSUME NEW n \in Nat, n \in S
      PROVE  n + 1 \in S
  <2>1. SUFFICES ASSUME n + 1 <= N
                 PROVE  JournalLines(B(n + 1)) = B(n + 1)
    OBVIOUS
  <2>2. n \in 0 .. N - 1 /\ JournalLines(B(n)) = B(n)
    BY <1>1, <1>4, <2>1
  <2>3. JournalLines(Append(B(n), g[n + 1])) =
          IF g[n + 1] = <<>> THEN JournalLines(B(n)) ELSE Append(JournalLines(B(n)), g[n + 1])
    BY <1>2, <2>2, LinesAppend, Zenon
  <2>4. QED BY <1>2, <2>2, <2>3, Zenon
<1> HIDE DEF S
<1>5. N \in S
  BY <1>1, <1>3, <1>4, SetInduction
<1>6. QED BY <1>1, <1>5 DEF S

(* The entries are the ones their lines begin with.                         *)
LEMMA EntriesType ==
  ASSUME NEW file \in Seq(Line)
  PROVE  /\ JournalLines(file) \in Seq(Line)
         /\ JournalEntries(file) \in Seq(Entry)
         /\ Len(JournalEntries(file)) = Len(JournalLines(file))
         /\ \A i \in 1 .. Len(JournalLines(file)) :
              JournalEntries(file)[i] = JournalLines(file)[i][1].entry
<1> DEFINE lines == JournalLines(file)
<1>1. lines \in Seq(Line \ {<<>>})
  BY LinesType
<1>2. lines \in Seq(Line)
  BY <1>1
<1>3. JournalEntries(file) = [i \in 1 .. Len(lines) |-> lines[i][1].entry]
  BY DEF JournalEntries
<1> HIDE DEF lines
<1>4. ASSUME NEW i \in 1 .. Len(lines)
      PROVE  lines[i][1].entry \in Entry
  <2>1. lines[i] \in Line \ {<<>>}
    BY <1>1
  <2>2. lines[i][1] \in Piece
    BY <2>1 DEF Line
  <2>3. QED BY <2>2 DEF Piece
<1>5. [i \in 1 .. Len(lines) |-> lines[i][1].entry] \in Seq(Entry)
  BY <1>1, <1>4
<1>6. QED BY <1>1, <1>2, <1>3, <1>5 DEF lines

(* verify, in terms of the entries.                                         *)
LEMMA VerifiedEntries ==
  ASSUME NEW file \in Seq(Line)
  PROVE  JournalVerifies(file) <=>
           /\ \A i \in 1 .. Len(JournalLines(file)) : WholeEntry(JournalLines(file)[i])
           /\ Chained(JournalEntries(file))
BY DEF JournalVerifies, JournalEntries

(* One file grew into the other: only its last line may have changed.       *)
GrownInto(f, g) ==
  /\ Len(f) <= Len(g)
  /\ \A i \in 1 .. Len(f) - 1 : g[i] = f[i]
  /\ Begins(f[Len(f)], g[Len(f)])

(* A file that grew has all the entries it had.                             *)
LEMMA GrownEntries ==
  ASSUME NEW f \in File, NEW g \in File, GrownInto(f, g)
  PROVE  Begins(JournalEntries(f), JournalEntries(g))
<1> DEFINE n == Len(f) - 1
           old == f[n + 1]
           new == g[n + 1]
           B == SubSeq(f, 1, n)
           F == JournalLines(f)
           G == JournalLines(g)
           L == JournalLines(B)
<1>1. /\ f \in Seq(Line) /\ g \in Seq(Line)
      /\ n \in 0 .. Len(f) - 1 /\ n \in 0 .. Len(g) - 1 /\ n \in 0 .. Len(f)
      /\ n \in 0 .. Len(g) /\ n + 1 \in 0 .. Len(g) /\ n + 1 = Len(f)
      /\ old \in Line /\ new \in Line
  BY DEF File, GrownInto
<1>2. Begins(old, new) /\ \A i \in 1 .. n : g[i] = f[i]
  BY <1>1 DEF GrownInto
<1>3. /\ B \in Seq(Line) /\ Len(B) = n /\ \A i \in 1 .. n : B[i] = f[i]
      /\ f = Append(B, old)
  BY <1>1, Beginnings
<1>4. /\ SubSeq(g, 1, n) \in Seq(Line) /\ Len(SubSeq(g, 1, n)) = n
      /\ \A i \in 1 .. n : SubSeq(g, 1, n)[i] = g[i]
      /\ SubSeq(g, 1, n + 1) = Append(SubSeq(g, 1, n), new)
  BY <1>1, Beginnings
<1> HIDE DEF B, old, new, n
<1>5. SubSeq(g, 1, n) = B
  BY <1>2, <1>3, <1>4, SeqEqual
<1>6. L \in Seq(Line) /\ F \in Seq(Line) /\ G \in Seq(Line)
  BY <1>1, <1>3, EntriesType
<1>7. Begins(L, G) /\ Begins(JournalLines(Append(B, new)), G)
  BY <1>1, <1>4, <1>5, LinesBegin
<1>8. /\ F = IF old = <<>> THEN L ELSE Append(L, old)
      /\ JournalLines(Append(B, new)) = IF new = <<>> THEN L ELSE Append(L, new)
  BY <1>1, <1>3, LinesAppend, Zenon
<1>9. /\ Len(JournalEntries(f)) = Len(F) /\ Len(JournalEntries(g)) = Len(G)
      /\ \A i \in 1 .. Len(F) : JournalEntries(f)[i] = F[i][1].entry
      /\ \A i \in 1 .. Len(G) : JournalEntries(g)[i] = G[i][1].entry
  BY <1>1, EntriesType
<1> HIDE DEF F, G, L
<1>10. CASE old = <<>>
  <2>1. F = L
    BY <1>8, <1>10
  <2>2. Len(L) <= Len(G) /\ \A i \in 1 .. Len(L) : G[i] = L[i] /\ i \in 1 .. Len(G)
    BY <1>6, <1>7 DEF Begins
  <2>3. QED BY <1>9, <2>1, <2>2 DEF Begins
<1>11. CASE old # <<>>
  <2>1. new # <<>> /\ new[1] = old[1]
    BY <1>1, <1>2, <1>11 DEF Line, Begins
  <2>2. F = Append(L, old) /\ Begins(Append(L, new), G)
    BY <1>7, <1>8, <1>11, <2>1
  <2>3. /\ Len(Append(L, old)) = Len(L) + 1 /\ Append(L, old)[Len(L) + 1] = old
        /\ Len(Append(L, new)) = Len(L) + 1 /\ Append(L, new)[Len(L) + 1] = new
        /\ \A i \in 1 .. Len(L) : Append(L, old)[i] = L[i] /\ Append(L, new)[i] = L[i]
    BY <1>1, <1>6
  <2>4. Len(F) = Len(L) + 1 /\ F[Len(L) + 1] = old /\ \A i \in 1 .. Len(L) : F[i] = L[i]
    BY <2>2, <2>3
  <2>5. /\ Len(L) + 1 <= Len(G) /\ G[Len(L) + 1] = new
        /\ \A i \in 1 .. Len(L) : G[i] = L[i]
    BY <1>6, <2>2, <2>3 DEF Begins
  <2>6. \A i \in 1 .. Len(F) : i \in 1 .. Len(G) /\ G[i][1].entry = F[i][1].entry
    BY <1>6, <2>1, <2>4, <2>5
  <2>7. QED BY <1>6, <1>9, <2>4, <2>5, <2>6 DEF Begins
<1>12. QED BY <1>10, <1>11

(* A beginning is what SequencesExt calls a prefix.                         *)
LEMMA BeginsIsPrefix ==
  ASSUME NEW T, NEW s \in Seq(T), NEW t \in Seq(T), Begins(s, t)
  PROVE  IsPrefix(s, t)
<1>1. Len(s) \in 0 .. Len(t) /\ \A k \in 1 .. Len(s) : t[k] = s[k]
  BY DEF Begins
<1>2. SubSeq(s, 1, Len(s)) = s
  BY Beginnings
<1>3. /\ SubSeq(t, 1, Len(s)) \in Seq(T) /\ Len(SubSeq(t, 1, Len(s))) = Len(s)
      /\ \A k \in 1 .. Len(s) : SubSeq(t, 1, Len(s))[k] = t[k]
  BY <1>1, Beginnings
<1>4. SubSeq(t, 1, Len(s)) = s
  BY <1>1, <1>3, SeqEqual
<1>5. QED BY <1>1, <1>2, <1>4 DEF IsPrefix, Begins

(* How the next entry continues the lines before line n.                    *)
Continues(file, n, e) ==
  /\ e.sequence = n
  /\ e.previous = IF n = 1 THEN 0 ELSE file[n - 1][1].entry.by
Linked(file, n) ==
  \A i \in 1 .. n : WholeEntry(file[i]) /\ Continues(file, i, file[i][1].entry)

(* A file of whole entries, each chained to the one before, verifies.       *)
LEMMA LinkedVerifies ==
  ASSUME NEW file \in File, Linked(file, Len(file) - 1), file[Len(file)] = <<>>
  PROVE  /\ JournalVerifies(file)
         /\ Len(JournalEntries(file)) = Len(file) - 1
         /\ \A i \in 1 .. Len(file) - 1 : JournalEntries(file)[i] = file[i][1].entry
<1> DEFINE n == Len(file) - 1
           B == SubSeq(file, 1, n)
           E == JournalEntries(file)
<1>1. /\ file \in Seq(Line) /\ n \in 0 .. Len(file) /\ n \in 0 .. Len(file) - 1
      /\ n + 1 = Len(file) /\ n \in Nat
  BY DEF File
<1>0. file[n + 1] = <<>>
  BY <1>1
<1>2. /\ B \in Seq(Line) /\ Len(B) = n /\ \A i \in 1 .. n : B[i] = file[i]
      /\ file = Append(B, file[n + 1])
  BY <1>1, Beginnings
<1>3. \A i \in 1 .. n : /\ WholeEntry(file[i]) /\ file[i] # <<>>
                        /\ Continues(file, i, file[i][1].entry)
  BY DEF Linked, WholeEntry
<1> HIDE DEF B, n
<1>4. JournalLines(B) = B
  BY <1>2, <1>3, LinesOfAll
<1>5. JournalLines(file) = B
  <2>1. <<>> \in Line /\ file = Append(B, <<>>)
    BY <1>0, <1>2 DEF Line
  <2>2. JournalLines(Append(B, <<>>)) = JournalLines(B)
    BY <1>2, <2>1, LinesAppend
  <2>3. QED BY <1>4, <2>1, <2>2
<1>6. Len(E) = n /\ \A i \in 1 .. n : E[i] = file[i][1].entry
  <2>1. Len(E) = Len(B) /\ \A i \in 1 .. Len(B) : E[i] = B[i][1].entry
    BY <1>1, <1>5, EntriesType
  <2>2. QED BY <1>2, <2>1
<1> HIDE DEF E
<1>7. Chained(E)
  <2>1. SUFFICES ASSUME NEW i \in 1 .. n
                 PROVE  /\ E[i].sequence = i
                        /\ E[i].previous = IF i = 1 THEN 0 ELSE E[i - 1].by
    BY <1>6 DEF Chained
  <2>2. E[i].sequence = i /\ E[i].previous = IF i = 1 THEN 0 ELSE file[i - 1][1].entry.by
    BY <1>3, <1>6 DEF Continues
  <2>3. i # 1 => i - 1 \in 1 .. n
    BY <1>1
  <2>4. QED BY <1>6, <2>2, <2>3
<1>8. JournalVerifies(file)
  BY <1>1, <1>2, <1>3, <1>5, <1>7, VerifiedEntries DEF E
<1>9. QED BY <1>6, <1>8 DEF E, n

----------------------------------------------------------------------------
(* Writing and cutting.                                                     *)

(* Line i holds the first half of the entry of r.                           *)
FirstHalf(file, i, r) ==
  \E j \in 1 .. Len(file[i]) : file[i][j].half = 1 /\ file[i][j].entry.by = r
InFile(p, file) == \E i \in 1 .. Len(file) : \E j \in 1 .. Len(file[i]) : file[i][j] = p

(* A half stays in its line when the file grows.                            *)
LEMMA GrownHalf ==
  ASSUME NEW f \in File, NEW g \in File, GrownInto(f, g),
         NEW i \in 1 .. Len(f), NEW r, FirstHalf(f, i, r)
  PROVE  i \in 1 .. Len(g) /\ FirstHalf(g, i, r)
<1>1. Len(f) \in Nat /\ Len(g) \in Nat /\ Len(f) <= Len(g)
  BY DEF GrownInto, File
<1>2. i \in 1 .. Len(g)
  BY <1>1
<1>3. f[i] \in Line /\ g[i] \in Line
  BY <1>2 DEF File
<1>4. Begins(f[i], g[i])
  <2>1. CASE i = Len(f)
    BY <2>1 DEF GrownInto
  <2>2. CASE i # Len(f)
    <3>1. g[i] = f[i]
      BY <1>1, <2>2 DEF GrownInto
    <3>2. QED BY <3>1, <1>3 DEF Begins, Line
  <2>3. QED BY <2>1, <2>2
<1>5. PICK j \in 1 .. Len(f[i]) : f[i][j].half = 1 /\ f[i][j].entry.by = r
  BY DEF FirstHalf
<1>6. j \in 1 .. Len(g[i]) /\ g[i][j] = f[i][j]
  BY <1>3, <1>4 DEF Begins, Line
<1>7. QED BY <1>2, <1>5, <1>6 DEF FirstHalf

(* Growth adds up.                                                          *)
LEMMA GrownTransitive ==
  ASSUME NEW f \in File, NEW g \in File, NEW h \in File, GrownInto(f, g), GrownInto(g, h)
  PROVE  GrownInto(f, h)
<1>1. /\ Len(f) \in Nat \ {0} /\ Len(g) \in Nat \ {0} /\ Len(h) \in Nat \ {0}
      /\ Len(f) <= Len(g) /\ Len(g) <= Len(h)
  BY DEF GrownInto, File
<1>2. f[Len(f)] \in Line /\ g[Len(f)] \in Line /\ h[Len(f)] \in Line
  BY <1>1 DEF File
<1>3. \A i \in 1 .. Len(f) - 1 : i \in 1 .. Len(g) - 1
  BY <1>1
<1>4. \A i \in 1 .. Len(f) - 1 : h[i] = f[i]
  BY <1>3 DEF GrownInto
<1>5. Begins(g[Len(f)], h[Len(f)])
  <2>1. CASE Len(f) = Len(g)
    BY <2>1 DEF GrownInto
  <2>2. CASE Len(f) # Len(g)
    <3>1. h[Len(f)] = g[Len(f)]
      BY <1>1, <2>2 DEF GrownInto
    <3>2. QED BY <1>2, <3>1 DEF Begins, Line
  <2>3. QED BY <2>1, <2>2
<1>6. Begins(f[Len(f)], g[Len(f)])
  BY DEF GrownInto
<1>7. Begins(f[Len(f)], h[Len(f)])
  BY <1>2, <1>5, <1>6, BeginsTransitive DEF Line
<1>8. QED BY <1>1, <1>4, <1>7 DEF GrownInto

(* A file grew into itself.                                                 *)
LEMMA GrownSame ==
  ASSUME NEW f \in File
  PROVE  GrownInto(f, f)
<1>1. Len(f) \in Nat \ {0} /\ f[Len(f)] \in Line
  BY DEF File
<1>2. Begins(f[Len(f)], f[Len(f)])
  BY <1>1 DEF Line, Begins
<1>3. QED BY <1>1, <1>2 DEF GrownInto

(* Where a piece goes.                                                      *)
LEMMA PutPieceFile ==
  ASSUME NEW f \in File, NEW p \in Piece \cup {EndOfLine}
  PROVE  /\ PutPiece(f, p) \in File
         /\ GrownInto(f, PutPiece(f, p))
         /\ p = EndOfLine =>
              /\ Len(PutPiece(f, p)) = Len(f) + 1 /\ PutPiece(f, p)[Len(f) + 1] = <<>>
              /\ \A i \in 1 .. Len(f) : PutPiece(f, p)[i] = f[i]
         /\ p # EndOfLine =>
              /\ Len(PutPiece(f, p)) = Len(f)
              /\ PutPiece(f, p)[Len(f)] = Append(f[Len(f)], p)
              /\ \A i \in 1 .. Len(f) - 1 : PutPiece(f, p)[i] = f[i]
<1> DEFINE g == PutPiece(f, p)
           N == Len(f)
<1>1. f \in Seq(Line) /\ f # <<>> /\ N \in Nat \ {0} /\ f[N] \in Line
  BY DEF File
<1>2. CASE p = EndOfLine
  <2>1. <<>> \in Line /\ g = Append(f, <<>>)
    BY <1>2 DEF Line, PutPiece
  <2>2. /\ g \in Seq(Line) /\ g # <<>> /\ Len(g) = N + 1 /\ g[N + 1] = <<>>
        /\ \A i \in 1 .. N : g[i] = f[i]
    BY <1>1, <2>1, AppendProperties
  <2> HIDE DEF g
  <2>3. Begins(f[N], g[N])
    <3>1. g[N] = f[N]
      BY <1>1, <2>2
    <3>2. QED BY <1>1, <3>1 DEF Begins, Line
  <2>4. GrownInto(f, g)
    BY <1>1, <2>2, <2>3 DEF GrownInto
  <2>5. QED BY <1>2, <2>2, <2>4 DEF g, File
<1>3. CASE p # EndOfLine
  <2>1. p \in Piece /\ g = [f EXCEPT ![N] = Append(@, p)]
    BY <1>3 DEF PutPiece
  <2> DEFINE l == Append(f[N], p)
  <2>2. l \in Line /\ Begins(f[N], l)
    BY <1>1, <2>1, AppendBegins DEF Line
  <2> HIDE DEF l
  <2>3. g = [f EXCEPT ![N] = l]
    BY <2>1 DEF l
  <2> HIDE DEF g
  <2>4. /\ g \in Seq(Line) /\ Len(g) = N /\ g[N] = l
        /\ \A i \in 1 .. N : i # N => g[i] = f[i]
    BY <1>1, <2>2, <2>3, ExceptSeq
  <2>5. g # <<>> /\ \A i \in 1 .. N - 1 : g[i] = f[i]
    BY <1>1, <2>4
  <2>6. GrownInto(f, g)
    BY <1>1, <2>2, <2>4, <2>5 DEF GrownInto
  <2>7. QED BY <1>3, <2>4, <2>5, <2>6 DEF g, l, File
<1>4. QED BY <1>2, <1>3

(* A file gets no other piece.                                              *)
LEMMA PutPieceIn ==
  ASSUME NEW f \in File, NEW p \in Piece \cup {EndOfLine}, NEW q \in Piece,
         InFile(q, PutPiece(f, p))
  PROVE  InFile(q, f) \/ q = p
<1> DEFINE g == PutPiece(f, p)
           N == Len(f)
<1>1. f \in Seq(Line) /\ N \in Nat \ {0} /\ f[N] \in Seq(Piece)
  BY DEF File, Line
<1>2. /\ p = EndOfLine => Len(g) = N + 1 /\ g[N + 1] = <<>> /\ \A i \in 1 .. N : g[i] = f[i]
      /\ p # EndOfLine => /\ Len(g) = N /\ g[N] = Append(f[N], p)
                          /\ \A i \in 1 .. N - 1 : g[i] = f[i]
  BY PutPieceFile
<1>3. PICK i \in 1 .. Len(g) : \E j \in 1 .. Len(g[i]) : g[i][j] = q
  BY DEF InFile
<1>4. PICK j \in 1 .. Len(g[i]) : g[i][j] = q
  BY <1>3
<1> HIDE DEF g
<1>5. CASE p = EndOfLine
  <2>1. i # N + 1
    <3>1. i = N + 1 => Len(g[i]) = 0
      BY <1>2, <1>5
    <3>2. QED BY <1>4, <3>1
  <2>2. i \in 1 .. N /\ g[i] = f[i]
    BY <1>1, <1>2, <1>5, <2>1
  <2>3. QED BY <1>4, <2>2 DEF InFile
<1>6. CASE p # EndOfLine
  <2>1. CASE i = N
    <3>1. /\ g[i] = Append(f[N], p) /\ Len(g[i]) = Len(f[N]) + 1
          /\ g[i][Len(f[N]) + 1] = p /\ \A k \in 1 .. Len(f[N]) : g[i][k] = f[N][k]
      <4>1. g[i] = Append(f[N], p) /\ p \in Piece
        BY <1>2, <1>6, <2>1
      <4>2. QED BY <1>1, <4>1, AppendProperties
    <3>2. CASE j = Len(f[N]) + 1
      BY <1>4, <3>1, <3>2
    <3>3. CASE j # Len(f[N]) + 1
      <4>1. j \in 1 .. Len(f[N])
        BY <1>1, <3>1, <3>3
      <4>2. f[N][j] = q /\ N \in 1 .. Len(f)
        BY <1>1, <1>4, <3>1, <4>1
      <4>3. QED BY <4>1, <4>2 DEF InFile
    <3>4. QED BY <3>2, <3>3
  <2>2. CASE i # N
    <3>1. i \in 1 .. N - 1 /\ i \in 1 .. N /\ g[i] = f[i]
      BY <1>1, <1>2, <1>6, <2>2
    <3>2. QED BY <1>4, <3>1 DEF InFile
  <2>3. QED BY <2>1, <2>2
<1>7. QED BY <1>5, <1>6

(* What a cut leaves.                                                       *)
LEMMA CutFile ==
  ASSUME NEW f \in File, NEW end \in (1 .. Len(f)) \X Nat,
         NEW cut \in CutsAfter(f, end)
  PROVE  /\ cut \in (1 .. Len(f)) \X Nat /\ cut[2] <= Len(f[cut[1]]) /\ end[1] <= cut[1]
         /\ CutAt(f, cut) \in File /\ Len(CutAt(f, cut)) = cut[1]
         /\ CutAt(f, cut)[cut[1]] \in Line /\ Len(CutAt(f, cut)[cut[1]]) = cut[2]
         /\ \A j \in 1 .. cut[2] : CutAt(f, cut)[cut[1]][j] = f[cut[1]][j]
         /\ \A i \in 1 .. cut[1] - 1 : CutAt(f, cut)[i] = f[i]
<1>1. PICK i \in 1 .. Len(f) : cut \in {i} \X (0 .. Len(f[i]))
  BY DEF CutsAfter
<1>2. /\ cut = <<i, cut[2]>> /\ cut[1] = i /\ cut[2] \in 0 .. Len(f[i])
      /\ (cut[1] > end[1] \/ (cut[1] = end[1] /\ cut[2] >= end[2]))
  BY <1>1 DEF CutsAfter
<1>3. f \in Seq(Line) /\ f[i] \in Line /\ Len(f[i]) \in Nat /\ i \in Nat
  BY DEF File, Line
<1>4. cut \in (1 .. Len(f)) \X Nat /\ cut[2] <= Len(f[cut[1]]) /\ end[1] <= cut[1]
  BY <1>2, <1>3
<1> DEFINE a == SubSeq(f, 1, i - 1)
           b == SubSeq(f[i], 1, cut[2])
           g == Append(a, b)
<1>5. a \in Seq(Line) /\ Len(a) = i - 1 /\ \A k \in 1 .. i - 1 : a[k] = f[k]
  <2>1. i - 1 \in 0 .. Len(f)
    BY <1>3
  <2>2. QED BY <1>3, <2>1, Beginnings
<1>6. b \in Line /\ Len(b) = cut[2] /\ \A j \in 1 .. cut[2] : b[j] = f[i][j]
  BY <1>2, <1>3, Beginnings DEF Line
<1>7. CutAt(f, cut) = g
  BY <1>2 DEF CutAt
<1> HIDE DEF a, b
<1>8. /\ g \in Seq(Line) /\ g # <<>> /\ Len(g) = i /\ g[i] = b
      /\ \A k \in 1 .. i - 1 : g[k] = f[k]
  BY <1>3, <1>5, <1>6, AppendProperties
<1> HIDE DEF g
<1>9. QED BY <1>2, <1>4, <1>6, <1>7, <1>8 DEF File

(* A cut adds no piece.                                                     *)
LEMMA CutIn ==
  ASSUME NEW f \in File, NEW end \in (1 .. Len(f)) \X Nat,
         NEW cut \in CutsAfter(f, end), NEW p, InFile(p, CutAt(f, cut))
  PROVE  InFile(p, f)
<1> DEFINE g == CutAt(f, cut)
           c == cut[1]
<1>1. /\ c \in 1 .. Len(f) /\ cut[2] \in Nat /\ cut[2] <= Len(f[c]) /\ Len(g) = c
      /\ Len(g[c]) = cut[2] /\ \A j \in 1 .. cut[2] : g[c][j] = f[c][j]
      /\ \A i \in 1 .. c - 1 : g[i] = f[i]
  BY CutFile
<1>2. Len(f) \in Nat /\ \A i \in 1 .. Len(f) : Len(f[i]) \in Nat
  BY DEF File, Line
<1>3. PICK i \in 1 .. Len(g) : \E j \in 1 .. Len(g[i]) : g[i][j] = p
  BY DEF InFile
<1>4. PICK j \in 1 .. Len(g[i]) : g[i][j] = p
  BY <1>3
<1> HIDE DEF g, c
<1>5. i \in 1 .. Len(f)
  BY <1>1, <1>2
<1>6. CASE i = c
  <2>1. j \in 1 .. cut[2] /\ j \in 1 .. Len(f[i])
    BY <1>1, <1>2, <1>5, <1>6
  <2>2. f[i][j] = p
    BY <1>1, <1>4, <1>6, <2>1
  <2>3. QED BY <1>5, <2>1, <2>2 DEF InFile
<1>7. CASE i # c
  <2>1. g[i] = f[i]
    BY <1>1, <1>7
  <2>2. QED BY <1>4, <1>5, <2>1 DEF InFile
<1>8. QED BY <1>6, <1>7

----------------------------------------------------------------------------
(* The invariant.  disk is the first line that is not wholly on the disk,   *)
(* done the requests whose append returned, bad whether there was damage.   *)
Place == {"idle", "waiting", "locked", "writing", "closing", "reading",
          "answered", "failed", "lost"}
Thread == [at : Place, handler : Handlers, reads : Nat, seen : Seq(Seq(Entry)),
           owed : SUBSET ReviewId, pending : Seq(Piece \cup {EndOfLine}), broken : BOOLEAN]

In(q, done) == \E k \in 1 .. Len(done) : done[k] = q
PendingIn(p, t) == \E i \in 1 .. Len(t.pending) : t.pending[i] = p

(* All that a request wrote, or has still to write, is of one entry.        *)
ByOne(r, t, file) ==
  \E e \in Entry :
    /\ e.by = r
    /\ \A p \in Piece :
         PendingIn(p, t) \/ (InFile(p, file) /\ p.entry.by = r) => p.entry = e

(* A writer has written the first n pieces of its entry's line, below what  *)
(* is known to be on the disk; without damage they are the last line.       *)
Rest(e, n) == SubSeq(JournalLine(e), n + 1, Len(JournalLine(e)))
Begun(r, n, e, file, disk) ==
  /\ n > 0 => \E i \in disk .. Len(file) : FirstHalf(file, i, r)
  /\ n = Len(JournalLine(e)) => \E i \in disk .. Len(file) - 1 : FirstHalf(file, i, r)
LastLine(r, n, e, file) ==
  /\ r \in Separated => n = 0
  /\ n < 3 => Continues(file, Len(file), e)
  /\ n = 1 => file[Len(file)] = <<Half(e, 1)>>
  /\ n = 2 => file[Len(file)] = <<Half(e, 1), Half(e, 2)>>
  /\ n \notin {1, 2} => file[Len(file)] = <<>>
WriterOk(r, t, file, disk, bad) ==
  \E e \in Entry : \E n \in 0 .. Len(JournalLine(e)) :
    /\ e.by = r /\ t.pending = Rest(e, n)
    /\ Begun(r, n, e, file, disk) /\ (~bad => LastLine(r, n, e, file))

(* What a handler saw last it read off a file that grew into this one.      *)
ReaderOk(r, t, file, done) ==
  /\ t.at \in {"waiting", "locked", "writing", "closing", "reading"} =>
       \A q \in t.owed : In(q, done)
  /\ t.at \in {"waiting", "locked", "writing", "closing"} => t.seen = <<>>
  /\ t.at = "reading" /\ t.handler = "action" => In(r, done)
  /\ t.at = "reading" /\ t.seen # <<>> =>
       \E f \in File : GrownInto(f, file) /\ t.seen[Len(t.seen)] = JournalEntries(f)

(* ReadsGrow, of one thread.                                                *)
SeenOk(r, t) ==
  /\ \A i \in 1 .. Len(t.seen) : t.owed \subseteq {t.seen[i][k].by : k \in 1 .. Len(t.seen[i])}
  /\ \A i \in 2 .. Len(t.seen) : IsPrefix(t.seen[i - 1], t.seen[i])
  /\ t.handler = "action" =>
       \A i \in 1 .. Len(t.seen) : \E k \in 1 .. Len(t.seen[i]) : t.seen[i][k].by = r

ThreadOk(r, t, file, disk, lock, done, bad) ==
  /\ t.at \in {"locked", "writing"} <=> lock = r
  /\ ByOne(r, t, file)
  /\ t.at \in {"idle", "waiting", "locked"} =>
       \A p \in Piece : InFile(p, file) => p.entry.by # r
  /\ t.at \in {"idle", "waiting", "locked", "writing"} => ~In(r, done)
  /\ t.at = "writing" => WriterOk(r, t, file, disk, bad)
  /\ ~bad => t.at # "closing"
  /\ ReaderOk(r, t, file, done)
  /\ SeenOk(r, t)

(* The entries whose append returned are on the disk, in that order.        *)
Stored(file, done, place) ==
  /\ \A j, k \in 1 .. Len(done) : j < k => place[j] <= place[k]
  /\ \A k \in 1 .. Len(done) : FirstHalf(file, place[k], done[k])
AckedOk(file, disk, done) ==
  /\ \E place \in [1 .. Len(done) -> 1 .. disk - 1] : Stored(file, done, place)
  /\ \A j, k \in 1 .. Len(done) : done[j] = done[k] => j = k

CleanOk(file, threads) ==
  /\ Linked(file, Len(file) - 1)
  /\ (\A r \in ReviewId : threads[r].at # "writing") => file[Len(file)] = <<>>

JournalTypes ==
  /\ journal \in File /\ durable \in (1 .. Len(journal)) \X Nat
  /\ holder \in {0} \cup ReviewId /\ review \in [ReviewId -> Thread]
  /\ acked \in Seq(ReviewId) /\ damaged \in BOOLEAN

JournalInv ==
  /\ JournalTypes
  /\ \A r \in ReviewId :
       ThreadOk(r, review[r], journal, durable[1], holder, acked, damaged)
  /\ AckedOk(journal, durable[1], acked)
  /\ ~damaged => CleanOk(journal, review)

----------------------------------------------------------------------------
(* What the invariant says of a journal that is read.                       *)

(* With no writer, a journal without damage verifies.                       *)
LEMMA CleanVerifies ==
  ASSUME NEW file \in File, NEW threads, CleanOk(file, threads),
         \A r \in ReviewId : threads[r].at # "writing"
  PROVE  /\ Linked(file, Len(file) - 1) /\ file[Len(file)] = <<>>
         /\ JournalVerifies(file)
         /\ Len(JournalEntries(file)) = Len(file) - 1
         /\ \A i \in 1 .. Len(file) - 1 : JournalEntries(file)[i] = file[i][1].entry
<1>1. Linked(file, Len(file) - 1) /\ file[Len(file)] = <<>>
  BY DEF CleanOk
<1>2. QED BY <1>1, LinkedVerifies

(* Each request's entries in the file are one entry.                        *)
OneEach(file) ==
  \A p, q \in Piece : InFile(p, file) /\ InFile(q, file) /\ p.entry.by = q.entry.by
     => p.entry = q.entry

(* No request has two entries in the journal.                               *)
LEMMA OneEntryEach ==
  ASSUME JournalInv
  PROVE  OneEach(journal)
<1> SUFFICES ASSUME NEW p \in Piece, NEW q \in Piece,
                    InFile(p, journal), InFile(q, journal), p.entry.by = q.entry.by
             PROVE  p.entry = q.entry
  BY DEF OneEach
<1>1. p.entry.by \in ReviewId
  BY DEF Piece, Entry
<1>2. ByOne(p.entry.by, review[p.entry.by], journal)
  BY <1>1 DEF JournalInv, ThreadOk
<1>3. QED BY <1>2 DEF ByOne

(* A line that holds a first half is, in a journal that verifies, the entry *)
(* of that half; no request has two.                                        *)
LEMMA HalfIsEntry ==
  ASSUME NEW file \in File, OneEach(file), JournalVerifies(file),
         NEW at \in [1 .. Len(JournalLines(file)) -> 1 .. Len(file)],
         Kept(file, JournalLines(file), at)
  PROVE  /\ \A i \in 1 .. Len(file) : \A r : FirstHalf(file, i, r) =>
              \E m \in 1 .. Len(JournalEntries(file)) :
                 at[m] = i /\ JournalEntries(file)[m].by = r
         /\ \A k, m \in 1 .. Len(JournalEntries(file)) :
              JournalEntries(file)[k].by = JournalEntries(file)[m].by => k = m
<1> DEFINE lines == JournalLines(file)
           found == JournalEntries(file)
           M == Len(lines)
<1>1. /\ file \in Seq(Line) /\ M \in Nat /\ Len(found) = M
      /\ \A m \in 1 .. M : lines[m] \in Line /\ found[m] = lines[m][1].entry
  <2>1. file \in Seq(Line)
    BY DEF File
  <2>2. /\ lines \in Seq(Line) /\ Len(found) = M
        /\ \A i \in 1 .. M : found[i] = lines[i][1].entry
    BY <2>1, EntriesType
  <2> HIDE DEF lines, found
  <2>3. QED BY <2>1, <2>2
<1>2. /\ \A m \in 1 .. M : lines[m] = file[at[m]] /\ at[m] \in 1 .. Len(file)
      /\ \A i \in 1 .. Len(file) : file[i] # <<>> => \E m \in 1 .. M : at[m] = i
  BY DEF Kept
<1>3. /\ \A m \in 1 .. M : WholeEntry(lines[m])
      /\ \A m \in 1 .. M : found[m].sequence = m
  <2>1. (\A m \in 1 .. M : WholeEntry(lines[m])) /\ Chained(found)
    BY <1>1, VerifiedEntries
  <2> HIDE DEF lines, found, M
  <2>2. QED BY <1>1, <2>1 DEF Chained
<1> HIDE DEF lines, found, M
<1>4. ASSUME NEW i \in 1 .. Len(file), NEW r, FirstHalf(file, i, r)
      PROVE  \E m \in 1 .. M : at[m] = i /\ found[m].by = r
  <2>1. PICK j \in 1 .. Len(file[i]) : file[i][j].half = 1 /\ file[i][j].entry.by = r
    BY <1>4 DEF FirstHalf
  <2>2. file[i] \in Line
    BY DEF File
  <2>3. file[i] # <<>>
    BY <2>1, <2>2 DEF Line
  <2>4. PICK m \in 1 .. M : at[m] = i
    BY <1>2, <2>3
  <2>5. lines[m] = file[i] /\ WholeEntry(lines[m])
    BY <1>2, <1>3, <2>4
  <2>6. Len(file[i]) = 2 /\ file[i][2].half = 2
    BY <2>5 DEF WholeEntry
  <2>7. j \in {1, 2}
    BY <2>1, <2>6
  <2>8. j = 1
    BY <2>1, <2>6, <2>7
  <2>9. found[m].by = r
    BY <1>1, <2>1, <2>5, <2>8
  <2>10. QED BY <2>4, <2>9
<1>5. ASSUME NEW k \in 1 .. M, NEW m \in 1 .. M, found[k].by = found[m].by
      PROVE  k = m
  <2>1. \A n \in 1 .. M : lines[n][1] \in Piece /\ InFile(lines[n][1], file)
    <3>1. SUFFICES ASSUME NEW n \in 1 .. M
                   PROVE  lines[n][1] \in Piece /\ InFile(lines[n][1], file)
      OBVIOUS
    <3>2. lines[n] \in Line /\ Len(lines[n]) = 2
      BY <1>1, <1>3 DEF WholeEntry
    <3>3. lines[n][1] \in Piece /\ 1 \in 1 .. Len(lines[n])
      BY <3>2 DEF Line
    <3>4. lines[n] = file[at[n]] /\ at[n] \in 1 .. Len(file)
      BY <1>2
    <3>5. QED BY <3>3, <3>4 DEF InFile
  <2>2. lines[k][1].entry = lines[m][1].entry
    <3>1. lines[k][1].entry.by = lines[m][1].entry.by
      BY <1>1, <1>5
    <3>2. QED BY <2>1, <3>1 DEF OneEach
  <2>3. found[k] = found[m]
    BY <1>1, <2>2
  <2>4. found[k].sequence = k /\ found[m].sequence = m
    BY <1>3
  <2>5. QED BY <2>3, <2>4
<1>6. QED BY <1>1, <1>4, <1>5 DEF found

(* A journal that verifies holds what was acknowledged, in that order.      *)
Holds(found, done) ==
  \E place \in [1 .. Len(done) -> 1 .. Len(found)] :
    /\ \A j, k \in DOMAIN place : j < k => place[j] < place[k]
    /\ \A k \in DOMAIN place : found[place[k]].by = done[k]
    /\ \A i \in 1 .. Len(found) :
         found[i].by \in ToSet(done) => \E k \in DOMAIN place : place[k] = i

(* What was acknowledged is in each journal that verifies.                  *)
LEMMA NothingLost ==
  ASSUME NEW file \in File, NEW done \in Seq(ReviewId), NEW disk \in 1 .. Len(file),
         AckedOk(file, disk, done), OneEach(file), JournalVerifies(file)
  PROVE  Holds(JournalEntries(file), done)
<1> DEFINE found == JournalEntries(file)
           M == Len(found)
           N == Len(done)
<1>1. PICK at \in [1 .. M -> 1 .. Len(file)] : Kept(file, JournalLines(file), at)
  <2>1. file \in Seq(Line)
    BY DEF File
  <2>2. Len(JournalLines(file)) = M
    BY <2>1, EntriesType
  <2>3. QED BY <2>1, <2>2, LinesKept
<1>2. /\ Len(JournalLines(file)) = M /\ file \in Seq(Line)
      /\ M \in Nat /\ N \in Nat /\ Len(file) \in Nat
  <2>1. file \in Seq(Line)
    BY DEF File
  <2>2. found \in Seq(Entry)
    BY <2>1, EntriesType
  <2>3. QED BY <2>1, <2>2, EntriesType
<1>3. \A j, k \in 1 .. M : j < k => at[j] < at[k]
  BY <1>1, <1>2 DEF Kept
<1>4. /\ \A i \in 1 .. Len(file) : \A r : FirstHalf(file, i, r) =>
            \E m \in 1 .. M : at[m] = i /\ found[m].by = r
      /\ \A k, m \in 1 .. M : found[k].by = found[m].by => k = m
  BY <1>1, <1>2, HalfIsEntry
<1>5. PICK p \in [1 .. N -> 1 .. disk - 1] : Stored(file, done, p)
  BY DEF AckedOk
<1>6. \A k \in 1 .. N : p[k] \in 1 .. Len(file) /\ FirstHalf(file, p[k], done[k])
  BY <1>2, <1>5 DEF Stored
<1>7. \A j, k \in 1 .. N : j < k => p[j] <= p[k]
  BY <1>5 DEF Stored
<1>8. \A j, k \in 1 .. N : done[j] = done[k] => j = k
  BY DEF AckedOk
<1> HIDE DEF found, M, N
<1> DEFINE place == [k \in 1 .. N |-> CHOOSE m \in 1 .. M : at[m] = p[k] /\ found[m].by = done[k]]
<1>9. \A k \in 1 .. N : place[k] \in 1 .. M /\ at[place[k]] = p[k] /\ found[place[k]].by = done[k]
  <2>1. SUFFICES ASSUME NEW k \in 1 .. N
                 PROVE  place[k] \in 1 .. M /\ at[place[k]] = p[k] /\ found[place[k]].by = done[k]
    OBVIOUS
  <2>2. \E m \in 1 .. M : at[m] = p[k] /\ found[m].by = done[k]
    BY <1>4, <1>6
  <2>3. QED BY <2>2
<1>10. place \in [1 .. N -> 1 .. M] /\ DOMAIN place = 1 .. N
  BY <1>9
<1> HIDE DEF place
<1>11. ASSUME NEW j \in 1 .. N, NEW k \in 1 .. N, j < k
       PROVE  place[j] < place[k]
  <2>1. place[j] \in 1 .. M /\ place[k] \in 1 .. M /\ at[place[j]] <= at[place[k]]
    BY <1>7, <1>9, <1>11
  <2>2. at[place[j]] \in 1 .. Len(file) /\ at[place[k]] \in 1 .. Len(file)
    BY <1>1, <2>1
  <2>3. ~(at[place[k]] < at[place[j]])
    <3>1. at[place[j]] \in Nat /\ at[place[k]] \in Nat
      <4>1. \A n \in Nat : \A x \in 1 .. n : x \in Nat
        OBVIOUS
      <4>2. QED BY <1>2, <2>2, <4>1, Zenon
    <3>2. \A x, y \in Nat : x <= y => ~(y < x)
      OBVIOUS
    <3>3. QED BY <2>1, <3>1, <3>2, Zenon
  <2>4. ~(place[k] < place[j])
    BY <1>3, <2>1, <2>3
  <2>5. place[j] # place[k]
    <3>1. done[j] # done[k]
      BY <1>2, <1>8, <1>11
    <3>2. QED BY <1>9, <3>1
  <2>6. \A n \in Nat : \A x, y \in 1 .. n : ~(y < x) /\ x # y => x < y
    OBVIOUS
  <2>7. QED BY <1>2, <2>1, <2>4, <2>5, <2>6, Zenon
<1>12. ASSUME NEW i \in 1 .. M, found[i].by \in ToSet(done)
       PROVE  \E k \in 1 .. N : place[k] = i
  <2>1. DOMAIN done = 1 .. N
    BY DEF N
  <2>2. PICK k \in 1 .. N : found[i].by = done[k]
    BY <1>12, <2>1 DEF ToSet
  <2>3. place[k] \in 1 .. M /\ found[place[k]].by = found[i].by
    BY <1>9, <2>2
  <2>4. place[k] = i
    BY <1>4, <2>3
  <2>5. QED BY <2>4
<1>13. /\ \A j, k \in DOMAIN place : j < k => place[j] < place[k]
       /\ \A k \in DOMAIN place : found[place[k]].by = done[k]
       /\ \A i \in 1 .. M :
            found[i].by \in ToSet(done) => \E k \in DOMAIN place : place[k] = i
  BY <1>9, <1>10, <1>11, <1>12
<1>14. Holds(found, done)
  BY <1>10, <1>13 DEF Holds, M, N
<1>15. QED BY <1>14 DEF found

(* The three properties, from the invariant.                                *)
LEMMA InvReadable ==
  ASSUME JournalInv
  PROVE  JournalReadable
<1> SUFFICES ASSUME holder = 0, ~damaged
             PROVE  JournalVerifies(journal)
  BY DEF JournalReadable
<1>1. journal \in File /\ CleanOk(journal, review)
  BY DEF JournalInv, JournalTypes
<1>2. \A r \in ReviewId : review[r].at # "writing"
  <2>1. \A r \in ReviewId : r # 0
    BY DEF ReviewId
  <2>2. QED BY <2>1 DEF JournalInv, ThreadOk
<1>3. QED BY <1>1, <1>2, CleanVerifies

(* The same, of the journal.                                                *)
LEMMA InvNoLoss ==
  ASSUME JournalInv, JournalVerifies(journal)
  PROVE  Holds(JournalEntries(journal), acked)
<1>1. /\ journal \in File /\ acked \in Seq(ReviewId) /\ durable[1] \in 1 .. Len(journal)
      /\ AckedOk(journal, durable[1], acked)
  BY DEF JournalInv, JournalTypes
<1>2. QED BY <1>1, OneEntryEach, NothingLost

(* NoSilentLoss, from the invariant.                                        *)
LEMMA InvNoSilentLoss ==
  ASSUME JournalInv
  PROVE  NoSilentLoss
BY InvNoLoss DEF NoSilentLoss, Holds

(* ReadsGrow, from the invariant.                                           *)
LEMMA InvReadsGrow ==
  ASSUME JournalInv
  PROVE  ReadsGrow
BY DEF ReadsGrow, JournalInv, ThreadOk, SeenOk

----------------------------------------------------------------------------
(* What the steps keep.                                                     *)

(* The steps of the others leave a thread as it is.                         *)
LEMMA OthersKeep ==
  ASSUME NEW r \in ReviewId, NEW t \in Thread,
         NEW file \in File, NEW file2 \in File, NEW disk \in 1 .. Len(file),
         NEW disk2,
         NEW lock, NEW lock2, NEW done \in Seq(ReviewId), NEW done2 \in Seq(ReviewId),
         NEW bad \in BOOLEAN, NEW bad2 \in BOOLEAN,
         ThreadOk(r, t, file, disk, lock, done, bad),
         GrownInto(file, file2),
         t.at # "writing" \/ (disk2 = disk /\ (bad2 \/ file2 = file)),
         \A p \in Piece : InFile(p, file2) /\ p.entry.by = r => InFile(p, file),
         lock = r <=> lock2 = r,
         \A q : In(q, done) => In(q, done2), In(r, done2) => In(r, done),
         bad => bad2
  PROVE  ThreadOk(r, t, file2, disk2, lock2, done2, bad2)
<1>1. t.at \in {"locked", "writing"} <=> lock2 = r
  BY DEF ThreadOk
<1>2. ByOne(r, t, file2)
  <2>1. ByOne(r, t, file)
    BY DEF ThreadOk
  <2>2. QED BY <2>1 DEF ByOne
<1>3. t.at \in {"idle", "waiting", "locked"} =>
        \A p \in Piece : InFile(p, file2) => p.entry.by # r
  BY DEF ThreadOk
<1>4. t.at \in {"idle", "waiting", "locked", "writing"} => ~In(r, done2)
  BY DEF ThreadOk
<1>5. ASSUME t.at = "writing"
      PROVE  WriterOk(r, t, file2, disk2, bad2)
  <2>1. WriterOk(r, t, file, disk, bad)
    BY <1>5 DEF ThreadOk
  <2> PICK e \in Entry : \E n \in 0 .. Len(JournalLine(e)) :
          /\ e.by = r /\ t.pending = Rest(e, n)
          /\ Begun(r, n, e, file, disk) /\ (~bad => LastLine(r, n, e, file))
    BY <2>1 DEF WriterOk
  <2>2. PICK n \in 0 .. Len(JournalLine(e)) :
          /\ e.by = r /\ t.pending = Rest(e, n)
          /\ Begun(r, n, e, file, disk) /\ (~bad => LastLine(r, n, e, file))
    OBVIOUS
  <2>3. Len(file) \in Nat /\ Len(file2) \in Nat /\ Len(file) <= Len(file2)
    BY DEF File, GrownInto
  <2>4. ASSUME NEW i \in disk .. Len(file), FirstHalf(file, i, r)
        PROVE  i \in disk .. Len(file2) /\ FirstHalf(file2, i, r)
    <3>1. i \in 1 .. Len(file) /\ i \in disk .. Len(file2)
      BY <2>3
    <3>2. QED BY <2>4, <3>1, GrownHalf
  <2>5. Begun(r, n, e, file2, disk)
    <3>1. ASSUME n > 0
          PROVE  \E i \in disk .. Len(file2) : FirstHalf(file2, i, r)
      <4>1. PICK i \in disk .. Len(file) : FirstHalf(file, i, r)
        BY <2>2, <3>1 DEF Begun
      <4>2. QED BY <2>4, <4>1
    <3>2. ASSUME n = Len(JournalLine(e))
          PROVE  \E i \in disk .. Len(file2) - 1 : FirstHalf(file2, i, r)
      <4>1. PICK i \in disk .. Len(file) - 1 : FirstHalf(file, i, r)
        BY <2>2, <3>2 DEF Begun
      <4>2. i \in disk .. Len(file) /\ i \in disk .. Len(file2) - 1
        BY <2>3
      <4>3. QED BY <2>4, <4>1, <4>2
    <3>3. QED BY <3>1, <3>2 DEF Begun
  <2>6. ~bad2 => LastLine(r, n, e, file2)
    BY <1>5, <2>2
  <2>7. disk2 = disk
    BY <1>5
  <2>8. QED BY <2>2, <2>5, <2>6, <2>7 DEF WriterOk
<1>6. ~bad2 => t.at # "closing"
  BY DEF ThreadOk
<1>7. ReaderOk(r, t, file2, done2)
  <2>1. ReaderOk(r, t, file, done)
    BY DEF ThreadOk
  <2>2. \A f \in File : GrownInto(f, file) => GrownInto(f, file2)
    BY GrownTransitive
  <2>3. QED BY <2>1, <2>2 DEF ReaderOk
<1>8. SeenOk(r, t)
  BY DEF ThreadOk
<1>9. QED BY <1>1, <1>2, <1>3, <1>4, <1>5, <1>6, <1>7, <1>8 DEF ThreadOk

(* A step that only changes a thread that does not write, and the lock.     *)
ThreadChange(r) ==
  /\ UNCHANGED <<journal, durable, acked>> /\ damaged' \in BOOLEAN
  /\ review' \in [ReviewId -> Thread]
  /\ \A q \in ReviewId : q # r => review'[q] = review[q]
  /\ holder' \in {0} \cup ReviewId
  /\ \A q \in ReviewId : q # r => (holder = q <=> holder' = q)

(* Such a step keeps the invariant when the thread is left in order.        *)
LEMMA ThreadStep ==
  ASSUME JournalInv, NEW r \in ReviewId, ThreadChange(r),
         damaged' \/ (review[r].at # "writing" /\ ~damaged), damaged => damaged',
         ThreadOk(r, review'[r], journal, durable[1], holder', acked, damaged')
  PROVE  JournalInv'
<1>1. JournalTypes'
  BY DEF ThreadChange, JournalInv, JournalTypes
<1>2. ASSUME NEW q \in ReviewId
      PROVE  ThreadOk(q, review'[q], journal', durable'[1], holder', acked', damaged')
  <2>1. journal' = journal /\ durable' = durable /\ acked' = acked
    BY DEF ThreadChange
  <2>2. CASE q = r
    BY <2>1, <2>2
  <2>3. CASE q # r
    <3>1. /\ review'[q] = review[q] /\ (holder = q <=> holder' = q)
          /\ review[q] \in Thread /\ journal \in File /\ durable[1] \in 1 .. Len(journal)
          /\ acked \in Seq(ReviewId) /\ damaged \in BOOLEAN /\ damaged' \in BOOLEAN
      BY <2>3 DEF ThreadChange, JournalInv, JournalTypes
    <3>2. ThreadOk(q, review[q], journal, durable[1], holder, acked, damaged)
      BY DEF JournalInv
    <3>3. GrownInto(journal, journal)
      BY <3>1, GrownSame
    <3>4. ThreadOk(q, review[q], journal, durable[1], holder', acked, damaged')
      BY <3>1, <3>2, <3>3, OthersKeep
    <3>5. QED BY <2>1, <3>1, <3>4
  <2>4. QED BY <2>2, <2>3
<1>3. AckedOk(journal', durable'[1], acked')
  BY DEF ThreadChange, JournalInv
<1>4. ASSUME ~damaged'
      PROVE  CleanOk(journal', review')
  <2>1. CleanOk(journal, review) /\ review[r].at # "writing" /\ journal' = journal
    BY <1>4 DEF ThreadChange, JournalInv
  <2>2. (\A q \in ReviewId : review'[q].at # "writing") =>
           (\A q \in ReviewId : review[q].at # "writing")
    BY <2>1 DEF ThreadChange
  <2>3. QED BY <2>1, <2>2 DEF CleanOk
<1>5. QED BY <1>1, <1>2, <1>3, <1>4 DEF JournalInv

(* A thread that is in no handler is a thread.                              *)
LEMMA NoThreadType == NoThread \in Thread
<1>1. <<>> \in Seq(Seq(Entry)) /\ <<>> \in Seq(Piece \cup {EndOfLine})
  OBVIOUS
<1>2. QED BY <1>1 DEF NoThread, Thread, Place, Handlers

(* What is left of a thread when its request has ended.                     *)
LEMMA EndedOk ==
  ASSUME NEW r \in ReviewId, NEW t \in Thread, NEW outcome \in {"failed", "lost"},
         NEW file, NEW file2, NEW disk, NEW disk2, NEW lock, NEW lock2,
         NEW done, NEW bad, NEW bad2,
         ThreadOk(r, t, file, disk, lock, done, bad), lock2 # r,
         \A p \in Piece : InFile(p, file2) /\ p.entry.by = r => InFile(p, file)
  PROVE  /\ Ended(t, outcome) \in Thread
         /\ ThreadOk(r, Ended(t, outcome), file2, disk2, lock2, done, bad2)
<1> DEFINE u == Ended(t, outcome)
<1>1. t.broken \in BOOLEAN
  BY DEF Thread
<1>2. NoThread \in Thread
  BY NoThreadType
<1>3. u = [NoThread EXCEPT !.at = outcome, !.broken = t.broken]
  BY DEF Ended
<1>4. u \in Thread
  BY <1>1, <1>2, <1>3 DEF Thread, Place
<1>5. u.at = outcome /\ u.handler = "view" /\ u.seen = <<>> /\ u.pending = <<>>
  <2>1. /\ u.at = outcome /\ u.handler = NoThread.handler
        /\ u.seen = NoThread.seen /\ u.pending = NoThread.pending
    BY <1>2, <1>3 DEF Thread
  <2>2. QED BY <2>1 DEF NoThread
<1> HIDE DEF u
<1>6. \A p : ~PendingIn(p, u)
  BY <1>5 DEF PendingIn
<1>7. ByOne(r, u, file2)
  <2>1. ByOne(r, t, file)
    BY DEF ThreadOk
  <2>2. QED BY <1>6, <2>1 DEF ByOne
<1>8. ReaderOk(r, u, file2, done)
  BY <1>5 DEF ReaderOk
<1>9. SeenOk(r, u)
  BY <1>5 DEF SeenOk
<1>10. ThreadOk(r, u, file2, disk2, lock2, done, bad2)
  BY <1>5, <1>7, <1>8, <1>9 DEF ThreadOk
<1>11. QED BY <1>4, <1>10 DEF u

(* A thread with less to write still writes one entry.                      *)
LEMMA OneLess ==
  ASSUME NEW r, NEW t, NEW u, NEW file, ByOne(r, t, file),
         \A p \in Piece : PendingIn(p, u) => PendingIn(p, t)
  PROVE  ByOne(r, u, file)
BY DEF ByOne

(* A request that enters its handler.                                       *)
LEMMA EnterStep ==
  ASSUME JournalInv, NEW r \in ReviewId, Enter(r)
  PROVE  JournalInv'
<1> DEFINE t == review[r]
           u == review'[r]
<1>1. /\ t \in Thread /\ t.at = "idle" /\ review \in [ReviewId -> Thread]
      /\ ThreadOk(r, t, journal, durable[1], holder, acked, damaged)
      /\ holder \in {0} \cup ReviewId /\ acked \in Seq(ReviewId) /\ damaged \in BOOLEAN
  BY DEF JournalInv, JournalTypes, Enter, At
<1>2. holder # r /\ ~In(r, acked)
  BY <1>1 DEF ThreadOk
<1>3. PICK handler \in Handlers, known \in BOOLEAN :
        /\ handler # "action" => known
        /\ review' = [review EXCEPT ![r] =
             [NoThread EXCEPT
                !.at = IF ~known THEN "failed"
                       ELSE IF handler = "action" THEN "waiting" ELSE "reading",
                !.handler = handler,
                !.reads = ReadsOf(handler),
                !.owed = ToSet(acked)]]
  BY DEF Enter
<1> DEFINE at == IF ~known THEN "failed" ELSE IF handler = "action" THEN "waiting" ELSE "reading"
           w == [NoThread EXCEPT !.at = at, !.handler = handler, !.reads = ReadsOf(handler),
                                 !.owed = ToSet(acked)]
<1>4. /\ UNCHANGED <<journal, durable, acked>> /\ holder' = holder /\ damaged' = damaged
  BY DEF Enter
<1>5. at \in {"failed", "waiting", "reading"} /\ (at = "reading" => handler # "action")
  OBVIOUS
<1> HIDE DEF at
<1>6. ReadsOf(handler) \in Nat /\ ToSet(acked) \in SUBSET ReviewId
  BY <1>1 DEF ReadsOf, ToSet
<1>7. /\ w \in Thread /\ w.at = at /\ w.handler = handler /\ w.owed = ToSet(acked)
      /\ w.seen = NoThread.seen /\ w.pending = NoThread.pending
  BY <1>5, <1>6, NoThreadType DEF Thread, Place
<1>8. w.seen = <<>> /\ w.pending = <<>>
  BY <1>7 DEF NoThread
<1>9. review' = [review EXCEPT ![r] = w]
  BY <1>3 DEF at
<1> HIDE DEF w
<1>10. /\ u = w /\ review' \in [ReviewId -> Thread]
       /\ \A q \in ReviewId : q # r => review'[q] = review[q]
  BY <1>1, <1>7, <1>9
<1>11. ThreadOk(r, w, journal, durable[1], holder, acked, damaged)
  <2>1. ByOne(r, w, journal)
    <3>1. \A p \in Piece : ~PendingIn(p, w)
      BY <1>8 DEF PendingIn
    <3>2. QED BY <1>1, <3>1, OneLess DEF ThreadOk
  <2>2. ReaderOk(r, w, journal, acked)
    <3>1. \A q \in w.owed : In(q, acked)
      BY <1>1, <1>7 DEF ToSet, In
    <3>2. QED BY <1>5, <1>7, <1>8, <3>1 DEF ReaderOk
  <2>3. SeenOk(r, w)
    BY <1>8 DEF SeenOk
  <2>4. w.at \notin {"idle", "locked", "writing", "closing"}
    BY <1>5, <1>7
  <2>5. \A p \in Piece : InFile(p, journal) => p.entry.by # r
    BY <1>1 DEF ThreadOk
  <2>6. QED BY <1>2, <2>1, <2>2, <2>3, <2>4, <2>5 DEF ThreadOk
<1>12. ThreadChange(r)
  BY <1>1, <1>4, <1>10 DEF ThreadChange
<1>13. QED
  BY <1>1, <1>4, <1>10, <1>11, <1>12, ThreadStep

(* A request that ends, and lets go of the lock if it has it.               *)
LEMMA EndStep ==
  ASSUME JournalInv, NEW r \in ReviewId, Finishes(r, "failed"),
         UNCHANGED <<journal, durable, acked, damaged>>,
         ~At(r, "writing"), holder' = IF holder = r THEN 0 ELSE holder
  PROVE  JournalInv'
<1> DEFINE t == review[r]
           u == Ended(t, "failed")
<1>1. /\ t \in Thread /\ t.at # "writing" /\ review \in [ReviewId -> Thread]
      /\ ThreadOk(r, t, journal, durable[1], holder, acked, damaged)
      /\ holder \in {0} \cup ReviewId /\ damaged \in BOOLEAN
  BY DEF JournalInv, JournalTypes, At
<1>2. \A q \in ReviewId : q # 0
  BY DEF ReviewId
<1>3. /\ holder' # r /\ holder' \in {0} \cup ReviewId
      /\ \A q \in ReviewId : q # r => (holder = q <=> holder' = q)
  BY <1>1, <1>2
<1>4. u \in Thread /\ ThreadOk(r, u, journal, durable[1], holder', acked, damaged)
  BY <1>1, <1>3, EndedOk
<1>5. review' = [review EXCEPT ![r] = u]
  BY DEF Finishes
<1> HIDE DEF u
<1>6. /\ review'[r] = u /\ review' \in [ReviewId -> Thread]
      /\ \A q \in ReviewId : q # r => review'[q] = review[q]
  BY <1>1, <1>4, <1>5
<1>7. ThreadChange(r) /\ damaged' = damaged
  BY <1>1, <1>3, <1>6 DEF ThreadChange
<1>8. QED BY <1>1, <1>4, <1>6, <1>7, ThreadStep

(* Under the lock an unreadable journal raises.                             *)
LEMMA RaiseStep ==
  ASSUME JournalInv, NEW r \in ReviewId, Raise(r)
  PROVE  JournalInv'
<1>1. /\ Finishes(r, "failed") /\ UNCHANGED <<journal, durable, acked, damaged>>
      /\ review[r].at = "locked" /\ holder' = 0
  BY DEF Raise, At
<1>2. holder = r
  BY <1>1 DEF JournalInv, ThreadOk
<1>3. QED BY <1>1, <1>2, EndStep DEF At

(* The stream is closed and the failure reported.                           *)
LEMMA CloseEndsStep ==
  ASSUME JournalInv, NEW r \in ReviewId, CloseEnds(r)
  PROVE  JournalInv'
<1>1. /\ Finishes(r, "failed") /\ UNCHANGED <<journal, durable, acked, damaged>>
      /\ review[r].at = "closing" /\ holder' = holder
  BY DEF CloseEnds, At
<1>2. holder # r
  BY <1>1 DEF JournalInv, ThreadOk
<1>3. QED BY <1>1, <1>2, EndStep DEF At

(* Without the lock an unreadable journal raises.                           *)
LEMMA ReadRaisesStep ==
  ASSUME JournalInv, NEW r \in ReviewId, ReadRaises(r)
  PROVE  JournalInv'
<1>1. /\ Finishes(r, "failed") /\ UNCHANGED <<journal, durable, acked, damaged>>
      /\ review[r].at = "reading" /\ holder' = holder
  BY DEF ReadRaises, At
<1>2. holder # r
  BY <1>1 DEF JournalInv, ThreadOk
<1>3. QED BY <1>1, <1>2, EndStep DEF At

(* flock(LOCK_EX).                                                          *)
LEMMA LockStep ==
  ASSUME JournalInv, NEW r \in ReviewId, Lock(r)
  PROVE  JournalInv'
<1> DEFINE t == review[r]
           u == [t EXCEPT !.at = "locked"]
<1>1. /\ t \in Thread /\ t.at = "waiting" /\ review \in [ReviewId -> Thread]
      /\ ThreadOk(r, t, journal, durable[1], holder, acked, damaged)
      /\ holder = 0 /\ holder' = r /\ damaged \in BOOLEAN
      /\ UNCHANGED <<journal, durable, acked, damaged>>
      /\ review' = [review EXCEPT ![r] = u]
  BY DEF JournalInv, JournalTypes, Lock, At, Goes
<1>2. /\ u \in Thread /\ u.at = "locked" /\ u.pending = t.pending /\ u.seen = t.seen
      /\ u.owed = t.owed /\ u.handler = t.handler
  BY <1>1 DEF Thread, Place
<1> HIDE DEF u
<1>3. ThreadOk(r, u, journal, durable[1], r, acked, damaged)
  <2>1. ByOne(r, u, journal)
    <3>1. \A p \in Piece : PendingIn(p, u) => PendingIn(p, t)
      BY <1>2 DEF PendingIn
    <3>2. QED BY <1>1, <3>1, OneLess DEF ThreadOk
  <2>2. ReaderOk(r, u, journal, acked)
    BY <1>1, <1>2 DEF ThreadOk, ReaderOk
  <2>3. SeenOk(r, u)
    BY <1>1, <1>2 DEF ThreadOk, SeenOk
  <2>4. (\A p \in Piece : InFile(p, journal) => p.entry.by # r) /\ ~In(r, acked)
    BY <1>1 DEF ThreadOk
  <2>5. QED BY <1>2, <2>1, <2>2, <2>3, <2>4 DEF ThreadOk
<1>4. /\ review'[r] = u /\ review' \in [ReviewId -> Thread]
      /\ \A q \in ReviewId : q # r => review'[q] = review[q]
  BY <1>1, <1>2
<1>5. \A q \in ReviewId : q # 0
  BY DEF ReviewId
<1>6. ThreadChange(r)
  BY <1>1, <1>4, <1>5 DEF ThreadChange
<1>7. QED BY <1>1, <1>3, <1>4, <1>6, ThreadStep

(* A write or the sync fails.                                               *)
LEMMA WriteFailsStep ==
  ASSUME JournalInv, NEW r \in ReviewId, WriteFails(r)
  PROVE  JournalInv'
<1> DEFINE t == review[r]
           u == [t EXCEPT !.at = "closing", !.broken = TRUE]
<1>1. /\ t \in Thread /\ t.at = "writing" /\ review \in [ReviewId -> Thread]
      /\ ThreadOk(r, t, journal, durable[1], holder, acked, damaged)
      /\ holder' = 0 /\ damaged' = TRUE
      /\ UNCHANGED <<journal, durable, acked>>
  BY DEF JournalInv, JournalTypes, WriteFails, At
<1>2. review' = [review EXCEPT ![r] = u]
  BY <1>1 DEF WriteFails
<1>3. /\ u \in Thread /\ u.at = "closing" /\ u.pending = t.pending /\ u.seen = t.seen
      /\ u.owed = t.owed /\ u.handler = t.handler
  BY <1>1 DEF Thread, Place
<1> HIDE DEF u
<1>4. holder = r
  BY <1>1 DEF ThreadOk
<1>5. \A q \in ReviewId : q # 0
  BY DEF ReviewId
<1>6. ThreadOk(r, u, journal, durable[1], 0, acked, TRUE)
  <2>1. ByOne(r, u, journal)
    <3>1. \A p \in Piece : PendingIn(p, u) => PendingIn(p, t)
      BY <1>3 DEF PendingIn
    <3>2. QED BY <1>1, <3>1, OneLess DEF ThreadOk
  <2>2. ReaderOk(r, u, journal, acked)
    BY <1>1, <1>3 DEF ThreadOk, ReaderOk
  <2>3. SeenOk(r, u)
    BY <1>1, <1>3 DEF ThreadOk, SeenOk
  <2>4. QED BY <1>3, <1>5, <2>1, <2>2, <2>3 DEF ThreadOk
<1>7. /\ review'[r] = u /\ review' \in [ReviewId -> Thread]
      /\ \A q \in ReviewId : q # r => review'[q] = review[q]
  BY <1>1, <1>2, <1>3
<1>8. ThreadChange(r)
  BY <1>1, <1>4, <1>5, <1>7 DEF ThreadChange
<1>9. QED BY <1>1, <1>6, <1>7, <1>8, ThreadStep

(* A read, without the lock.                                                *)
LEMMA ReadStep ==
  ASSUME JournalInv, NEW r \in ReviewId, Read(r)
  PROVE  JournalInv'
<1> DEFINE t == review[r]
           E == JournalEntries(journal)
           at == IF Len(t.seen) + 1 = t.reads THEN "answered" ELSE t.at
           seen == Append(t.seen, E)
           u == [t EXCEPT !.seen = seen, !.at = at]
           N == Len(t.seen)
<1>1. /\ t \in Thread /\ t.at = "reading" /\ review \in [ReviewId -> Thread]
      /\ ThreadOk(r, t, journal, durable[1], holder, acked, damaged)
      /\ damaged \in BOOLEAN /\ acked \in Seq(ReviewId) /\ holder \in {0} \cup ReviewId
      /\ UNCHANGED <<journal, durable, acked, damaged, holder>>
      /\ journal \in File /\ JournalVerifies(journal)
  BY DEF JournalInv, JournalTypes, Read, At
<1>2. review' = [review EXCEPT ![r] = u]
  BY <1>1 DEF Read
<1>3. E \in Seq(Entry) /\ Holds(E, acked)
  BY <1>1, InvNoLoss, EntriesType DEF File
<1>4. at \in {"answered", "reading"}
  BY <1>1
<1> HIDE DEF E, at
<1>5. /\ seen \in Seq(Seq(Entry)) /\ N \in Nat /\ Len(seen) = N + 1 /\ seen[N + 1] = E
      /\ \A i \in 1 .. N : seen[i] = t.seen[i]
  <2>1. t.seen \in Seq(Seq(Entry))
    BY <1>1 DEF Thread
  <2>2. QED BY <1>3, <2>1, AppendProperties
<1>6. \A i \in 1 .. N : t.seen[i] \in Seq(Entry)
  BY <1>1 DEF Thread
<1> HIDE DEF seen, N
<1>7. /\ u \in Thread /\ u.at = at /\ u.pending = t.pending /\ u.seen = seen
      /\ u.owed = t.owed /\ u.handler = t.handler
  BY <1>1, <1>4, <1>5 DEF Thread, Place
<1> HIDE DEF u
<1>8. \A q : In(q, acked) => \E k \in 1 .. Len(E) : E[k].by = q
  BY <1>3 DEF Holds, In
<1>9. SeenOk(r, u)
  <2>1. SeenOk(r, t) /\ ReaderOk(r, t, journal, acked)
    BY <1>1 DEF ThreadOk
  <2>2. ASSUME NEW i \in 1 .. N + 1
        PROVE  u.owed \subseteq {seen[i][k].by : k \in 1 .. Len(seen[i])}
    <3>1. CASE i = N + 1
      <4>1. \A q \in u.owed : In(q, acked)
        BY <1>1, <1>7, <2>1 DEF ReaderOk
      <4>2. QED BY <1>5, <1>8, <3>1, <4>1
    <3>2. CASE i # N + 1
      <4>1. i \in 1 .. N
        BY <1>5, <3>2
      <4>2. t.owed \subseteq {t.seen[i][k].by : k \in 1 .. Len(t.seen[i])}
        BY <2>1, <4>1 DEF SeenOk, N
      <4>3. seen[i] = t.seen[i] /\ u.owed = t.owed
        BY <1>5, <1>7, <4>1
      <4>4. QED BY <4>2, <4>3
    <3>3. QED BY <3>1, <3>2
  <2>3. ASSUME NEW i \in 2 .. N + 1
        PROVE  IsPrefix(seen[i - 1], seen[i])
    <3>1. CASE i = N + 1
      <4>1. t.seen # <<>> /\ N \in 1 .. N /\ i - 1 = N
        <5>1. N \in 1 .. N /\ i - 1 = N
          BY <1>5, <3>1
        <5>2. t.seen # <<>>
          BY <1>1, <5>1 DEF N
        <5>3. QED BY <5>1, <5>2
      <4>2. PICK f \in File : GrownInto(f, journal) /\ t.seen[N] = JournalEntries(f)
        BY <1>1, <2>1, <4>1 DEF ReaderOk, N
      <4>3. Begins(t.seen[N], E) /\ t.seen[N] \in Seq(Entry)
        BY <1>1, <1>6, <4>1, <4>2, GrownEntries DEF E
      <4>4. IsPrefix(t.seen[N], E)
        BY <1>3, <4>3, BeginsIsPrefix
      <4>5. QED BY <1>5, <3>1, <4>1, <4>4
    <3>2. CASE i # N + 1
      <4>1. i \in 2 .. N /\ i \in 1 .. N /\ i - 1 \in 1 .. N
        BY <1>5, <3>2
      <4>2. IsPrefix(t.seen[i - 1], t.seen[i])
        BY <2>1, <4>1 DEF SeenOk, N
      <4>3. seen[i - 1] = t.seen[i - 1] /\ seen[i] = t.seen[i]
        BY <1>5, <4>1
      <4>4. QED BY <4>2, <4>3
    <3>3. QED BY <3>1, <3>2
  <2>4. ASSUME u.handler = "action", NEW i \in 1 .. N + 1
        PROVE  \E k \in 1 .. Len(seen[i]) : seen[i][k].by = r
    <3>1. CASE i = N + 1
      <4>1. In(r, acked)
        BY <1>1, <1>7, <2>1, <2>4 DEF ReaderOk
      <4>2. QED BY <1>5, <1>8, <3>1, <4>1
    <3>2. CASE i # N + 1
      <4>1. i \in 1 .. N
        BY <1>5, <3>2
      <4>2. \E k \in 1 .. Len(t.seen[i]) : t.seen[i][k].by = r
        BY <1>7, <2>1, <2>4, <4>1 DEF SeenOk, N
      <4>3. QED BY <1>5, <4>1, <4>2
    <3>3. QED BY <3>1, <3>2
  <2>5. u.seen = seen /\ Len(seen) = N + 1
    BY <1>5, <1>7
  <2>6. QED BY <2>2, <2>3, <2>4, <2>5 DEF SeenOk
<1>10. ReaderOk(r, u, journal, acked)
  <2>1. ReaderOk(r, t, journal, acked)
    BY <1>1 DEF ThreadOk
  <2>2. \A q \in u.owed : In(q, acked)
    BY <1>1, <1>7, <2>1 DEF ReaderOk
  <2>3. u.handler = "action" => In(r, acked)
    BY <1>1, <1>7, <2>1 DEF ReaderOk
  <2>4. GrownInto(journal, journal) /\ u.seen[Len(u.seen)] = JournalEntries(journal)
    <3>1. u.seen[Len(u.seen)] = E
      BY <1>5, <1>7
    <3>2. QED BY <1>1, <3>1, GrownSame DEF E
  <2>5. u.at \notin {"waiting", "locked", "writing", "closing"}
    BY <1>4, <1>7
  <2>6. QED BY <1>1, <2>2, <2>3, <2>4, <2>5 DEF ReaderOk
<1>11. ThreadOk(r, u, journal, durable[1], holder, acked, damaged)
  <2>1. ByOne(r, u, journal)
    <3>1. \A p \in Piece : PendingIn(p, u) => PendingIn(p, t)
      BY <1>7 DEF PendingIn
    <3>2. QED BY <1>1, <3>1, OneLess DEF ThreadOk
  <2>2. u.at \notin {"idle", "waiting", "locked", "writing", "closing"}
    BY <1>4, <1>7
  <2>3. holder # r
    BY <1>1 DEF ThreadOk
  <2>4. QED BY <1>9, <1>10, <2>1, <2>2, <2>3 DEF ThreadOk
<1>12. /\ review'[r] = u /\ review' \in [ReviewId -> Thread]
       /\ \A q \in ReviewId : q # r => review'[q] = review[q]
  BY <1>1, <1>2, <1>7
<1>13. ThreadChange(r)
  BY <1>1, <1>12 DEF ThreadChange
<1>14. QED BY <1>1, <1>11, <1>12, <1>13, ThreadStep

(* The pieces of a line.                                                    *)
LEMMA LineOf ==
  ASSUME NEW e \in Entry
  PROVE  /\ JournalLine(e) \in Seq(Piece \cup {EndOfLine})
         /\ Half(e, 1) \in Piece /\ Half(e, 2) \in Piece
         /\ \A i \in 1 .. Len(JournalLine(e)) : \A p \in Piece :
              JournalLine(e)[i] = p => p.entry = e
         /\ e.by \in Separated =>
              JournalLine(e) = <<Half(e, 1), EndOfLine, Half(e, 2), EndOfLine>>
         /\ e.by \notin Separated => JournalLine(e) = <<Half(e, 1), Half(e, 2), EndOfLine>>
<1>1. /\ Half(e, 1) \in Piece /\ Half(e, 2) \in Piece
      /\ Half(e, 1).entry = e /\ Half(e, 2).entry = e
  BY DEF Half, Piece
<1>2. EndOfLine \notin Piece
  BY DEF EndOfLine, Half, Piece
<1>3. CASE e.by \in Separated
  <2>1. JournalLine(e) = <<Half(e, 1), EndOfLine, Half(e, 2), EndOfLine>>
    BY <1>3 DEF JournalLine
  <2>2. QED BY <1>1, <1>2, <1>3, <2>1
<1>4. CASE e.by \notin Separated
  <2>1. JournalLine(e) = <<Half(e, 1), Half(e, 2), EndOfLine>>
    BY <1>4 DEF JournalLine
  <2>2. QED BY <1>1, <1>2, <1>4, <2>1
<1>5. QED BY <1>3, <1>4

(* The next entry is built.                                                 *)
LEMMA BuildStep ==
  ASSUME JournalInv, NEW r \in ReviewId, Build(r)
  PROVE  JournalInv'
<1> DEFINE t == review[r]
           E == JournalEntries(journal)
           e == [by |-> r, sequence |-> Len(E) + 1,
                 previous |-> IF E = <<>> THEN 0 ELSE Last(E).by]
           u == [t EXCEPT !.at = "writing", !.pending = JournalLine(e)]
<1>1. /\ t \in Thread /\ t.at = "locked" /\ review \in [ReviewId -> Thread]
      /\ ThreadOk(r, t, journal, durable[1], holder, acked, damaged)
      /\ damaged \in BOOLEAN /\ holder \in {0} \cup ReviewId
      /\ UNCHANGED <<journal, durable, acked, damaged, holder>>
      /\ journal \in File
  BY DEF JournalInv, JournalTypes, Build, At
<1>2. review' = [review EXCEPT ![r] = u]
  BY <1>1 DEF Build
<1>3. E \in Seq(Entry)
  BY <1>1, EntriesType DEF File
<1>4. (IF E = <<>> THEN 0 ELSE Last(E).by) \in Nat
  <2>1. ASSUME E # <<>>
        PROVE  Last(E).by \in Nat
    <3>1. E[Len(E)] \in Entry
      BY <1>3, <2>1
    <3>2. E[Len(E)].by \in Nat
      BY <3>1 DEF Entry, ReviewId
    <3>3. QED BY <3>2 DEF Last
  <2>2. QED BY <2>1
<1>5. /\ e \in Entry /\ e.by = r /\ e.sequence = Len(E) + 1
      /\ e.previous = IF E = <<>> THEN 0 ELSE Last(E).by
  BY <1>3, <1>4 DEF Entry
<1> HIDE DEF E, e
<1>6. /\ JournalLine(e) \in Seq(Piece \cup {EndOfLine}) /\ Len(JournalLine(e)) \in Nat \ {0}
      /\ \A i \in 1 .. Len(JournalLine(e)) : \A p \in Piece : JournalLine(e)[i] = p => p.entry = e
  BY <1>5, LineOf
<1>7. /\ u \in Thread /\ u.at = "writing" /\ u.pending = JournalLine(e) /\ u.seen = t.seen
      /\ u.owed = t.owed /\ u.handler = t.handler
  BY <1>1, <1>6 DEF Thread, Place
<1> HIDE DEF u
<1>8. /\ \A p \in Piece : InFile(p, journal) => p.entry.by # r
      /\ ~In(r, acked) /\ holder = r
  BY <1>1 DEF ThreadOk
<1>9. ByOne(r, u, journal)
  BY <1>5, <1>6, <1>7, <1>8 DEF ByOne, PendingIn
<1>10. WriterOk(r, u, journal, durable[1], damaged)
  <2>1. Rest(e, 0) = JournalLine(e)
    BY <1>6, Beginnings DEF Rest
  <2>2. Begun(r, 0, e, journal, durable[1])
    BY <1>6 DEF Begun
  <2>3. ASSUME ~damaged
        PROVE  LastLine(r, 0, e, journal)
    <3>1. CleanOk(journal, review)
      BY <2>3 DEF JournalInv
    <3>2. \A q \in ReviewId : review[q].at # "writing"
      BY <1>1, <1>8 DEF JournalInv, ThreadOk
    <3>3. /\ journal[Len(journal)] = <<>> /\ Len(E) = Len(journal) - 1
          /\ \A i \in 1 .. Len(journal) - 1 : E[i] = journal[i][1].entry
      BY <1>1, <3>1, <3>2, CleanVerifies DEF E
    <3>4. Len(journal) \in Nat \ {0}
      BY <1>1 DEF File
    <3>5. Continues(journal, Len(journal), e)
      <4>1. e.sequence = Len(journal)
        BY <1>5, <3>3, <3>4
      <4>2. CASE Len(journal) = 1
        <5>1. E = <<>>
          BY <1>3, <3>3, <4>2
        <5>2. QED BY <1>5, <4>1, <4>2, <5>1 DEF Continues
      <4>3. CASE Len(journal) # 1
        <5>1. Len(journal) - 1 \in 1 .. Len(journal) - 1 /\ E # <<>>
          BY <1>3, <3>3, <3>4, <4>3
        <5>2. Last(E) = journal[Len(journal) - 1][1].entry
          BY <3>3, <5>1 DEF Last
        <5>3. QED BY <1>5, <4>1, <4>3, <5>1, <5>2 DEF Continues
      <4>4. QED BY <4>2, <4>3
    <3>6. QED BY <3>3, <3>5 DEF LastLine
  <2>4. 0 \in 0 .. Len(JournalLine(e))
    BY <1>6
  <2>5. QED BY <1>5, <1>7, <2>1, <2>2, <2>3, <2>4 DEF WriterOk
<1>11. ReaderOk(r, u, journal, acked)
  BY <1>1, <1>7 DEF ThreadOk, ReaderOk
<1>12. SeenOk(r, u)
  BY <1>1, <1>7 DEF ThreadOk, SeenOk
<1>13. ThreadOk(r, u, journal, durable[1], holder, acked, damaged)
  BY <1>7, <1>8, <1>9, <1>10, <1>11, <1>12 DEF ThreadOk
<1>14. /\ review'[r] = u /\ review' \in [ReviewId -> Thread]
       /\ \A q \in ReviewId : q # r => review'[q] = review[q]
  BY <1>1, <1>2, <1>7
<1>15. ThreadChange(r)
  BY <1>1, <1>14 DEF ThreadChange
<1>16. QED BY <1>1, <1>13, <1>14, <1>15, ThreadStep

(* A piece that is written leaves the line of the thread's entry.           *)
LEMMA RestProperties ==
  ASSUME NEW e \in Entry, NEW n \in 0 .. Len(JournalLine(e))
  PROVE  /\ Rest(e, n) = <<>> => n = Len(JournalLine(e))
         /\ Rest(e, n) # <<>> =>
              /\ n + 1 \in 1 .. Len(JournalLine(e))
              /\ Head(Rest(e, n)) = JournalLine(e)[n + 1] /\ Tail(Rest(e, n)) = Rest(e, n + 1)
<1> DEFINE s == JournalLine(e)
           L == Len(s)
           X == Piece \cup {EndOfLine}
<1>1. s \in Seq(X) /\ L \in Nat /\ n \in 0 .. L
  BY LineOf
<1> HIDE DEF s, X
<1>2. CASE n = L
  <2>1. SubSeq(s, n + 1, L) = <<>>
    BY <1>1, <1>2, SubSeqEmpty
  <2>2. QED BY <1>2, <2>1 DEF Rest, s
<1>3. CASE n # L
  <2>1. n + 1 \in 1 .. L /\ L \in (n + 1) .. L
    BY <1>1, <1>3
  <2>2. /\ Head(SubSeq(s, n + 1, L)) = s[n + 1]
        /\ Tail(SubSeq(s, n + 1, L)) = SubSeq(s, (n + 1) + 1, L)
    BY <1>1, <2>1, HeadTailOfSubSeq
  <2>3. SubSeq(s, n + 1, L) # <<>>
    <3>1. \A i \in n + 1 .. L : s[i] \in X
      BY <1>1
    <3> DEFINE x == SubSeq(s, n + 1, L)
    <3>2. Len(x) = IF n + 1 <= L THEN L - (n + 1) + 1 ELSE 0
      BY <1>1, <2>1, <3>1, SubSeqProperties
    <3> HIDE DEF x
    <3>3. Len(x) # 0
      BY <1>1, <2>1, <3>2
    <3>4. x # <<>>
      BY <3>3
    <3>5. QED BY <3>4 DEF x
  <2>4. QED BY <2>1, <2>2, <2>3 DEF Rest, s
<1>4. QED BY <1>2, <1>3

(* The first piece that a thread has still to write, and the others.        *)
LEMMA FirstPending ==
  ASSUME NEW r \in ReviewId, NEW t \in Thread, NEW u \in Thread, NEW file \in File,
         t.pending # <<>>, u.pending = Tail(t.pending), ByOne(r, t, file)
  PROVE  LET p == Head(t.pending) IN
         /\ p \in Piece \cup {EndOfLine}
         /\ \A q \in Piece : InFile(q, PutPiece(file, p)) /\ q.entry.by # r => InFile(q, file)
         /\ ByOne(r, u, PutPiece(file, p))
<1> DEFINE p == Head(t.pending)
           g == PutPiece(file, p)
<1>1. t.pending \in Seq(Piece \cup {EndOfLine})
  BY DEF Thread
<1>2. /\ p \in Piece \cup {EndOfLine} /\ 1 \in 1 .. Len(t.pending) /\ t.pending[1] = p
  BY <1>1
<1>3. PendingIn(p, t)
  BY <1>2 DEF PendingIn
<1>4. \A q : PendingIn(q, u) => PendingIn(q, t)
  <2>1. SUFFICES ASSUME NEW i \in 1 .. Len(u.pending)
                 PROVE  \E k \in 1 .. Len(t.pending) : t.pending[k] = u.pending[i]
    BY DEF PendingIn
  <2>2. Len(u.pending) = Len(t.pending) - 1 /\ Len(t.pending) \in Nat
    BY <1>1
  <2>3. i + 1 \in 1 .. Len(t.pending)
    BY <2>2
  <2>4. Tail(t.pending)[i] = t.pending[i + 1]
    BY <1>1, <2>2
  <2>5. QED BY <2>3, <2>4
<1> HIDE DEF p
<1>5. \A q \in Piece : InFile(q, g) => InFile(q, file) \/ q = p
  BY <1>2, PutPieceIn
<1> HIDE DEF g
<1>6. PICK e \in Entry :
        /\ e.by = r
        /\ \A q \in Piece : PendingIn(q, t) \/ (InFile(q, file) /\ q.entry.by = r) => q.entry = e
  BY DEF ByOne
<1>7. p \in Piece => p.entry = e
  BY <1>3, <1>6
<1>8. \A q \in Piece : InFile(q, g) /\ q.entry.by # r => InFile(q, file)
  BY <1>5, <1>6, <1>7
<1>9. \A q \in Piece : PendingIn(q, u) \/ (InFile(q, g) /\ q.entry.by = r) => q.entry = e
  BY <1>4, <1>5, <1>6, <1>7
<1>10. ByOne(r, u, g)
  BY <1>6, <1>9 DEF ByOne
<1>11. QED BY <1>2, <1>8, <1>10 DEF g, p

(* A step that writes one piece.                                            *)
LEMMA PutStep ==
  ASSUME JournalInv, NEW r \in ReviewId, NEW u \in Thread,
         review[r].at \in {"writing", "closing"}, review[r].pending # <<>>,
         journal' = PutPiece(journal, Head(review[r].pending)),
         u.pending = Tail(review[r].pending), review' = [review EXCEPT ![r] = u],
         UNCHANGED <<durable, holder, acked>>, damaged' \in BOOLEAN, damaged => damaged',
         ByOne(r, u, journal') => ThreadOk(r, u, journal', durable[1], holder, acked, damaged'),
         ~damaged' => CleanOk(journal', review')
  PROVE  JournalInv'
<1> DEFINE t == review[r]
           p == Head(t.pending)
           g == PutPiece(journal, p)
<1>1. /\ t \in Thread /\ journal \in File /\ durable \in (1 .. Len(journal)) \X Nat
      /\ holder \in {0} \cup ReviewId /\ acked \in Seq(ReviewId) /\ damaged \in BOOLEAN
      /\ review \in [ReviewId -> Thread] /\ ByOne(r, t, journal)
  BY DEF JournalInv, JournalTypes, ThreadOk
<1>2. /\ p \in Piece \cup {EndOfLine}
      /\ \A q \in Piece : InFile(q, g) /\ q.entry.by # r => InFile(q, journal)
      /\ ByOne(r, u, g)
  BY <1>1, FirstPending
<1>3. g \in File /\ GrownInto(journal, g)
  BY <1>1, <1>2, PutPieceFile
<1> HIDE DEF p
<1>4. journal' = g
  BY DEF p
<1> HIDE DEF g
<1>5. /\ review'[r] = u /\ review' \in [ReviewId -> Thread]
      /\ \A q \in ReviewId : q # r => review'[q] = review[q]
  BY <1>1
<1>6. durable' \in (1 .. Len(journal')) \X Nat
  <2>1. Len(journal) \in Nat /\ Len(g) \in Nat /\ Len(journal) <= Len(g)
    BY <1>1, <1>3 DEF GrownInto, File
  <2>2. 1 .. Len(journal) \subseteq 1 .. Len(g)
    BY <2>1
  <2>3. QED BY <1>1, <1>4, <2>2
<1>7. JournalTypes'
  BY <1>1, <1>3, <1>4, <1>5, <1>6 DEF JournalTypes
<1>8. ASSUME NEW q \in ReviewId
      PROVE  ThreadOk(q, review'[q], journal', durable'[1], holder', acked', damaged')
  <2>1. CASE q = r
    BY <1>2, <1>4, <1>5, <2>1
  <2>2. CASE q # r
    <3>1. /\ review'[q] = review[q] /\ review[q] \in Thread
          /\ ThreadOk(q, review[q], journal, durable[1], holder, acked, damaged)
      BY <1>1, <1>5, <2>2 DEF JournalInv
    <3>2. damaged' \/ review[q].at # "writing"
      <4>1. damaged \/ t.at = "writing"
        BY DEF JournalInv, ThreadOk
      <4>2. t.at = "writing" => holder = r
        BY DEF JournalInv, ThreadOk
      <4>3. review[q].at = "writing" => holder = q
        BY <3>1 DEF ThreadOk
      <4>4. QED BY <2>2, <4>1, <4>2, <4>3
    <3>3. \A x \in Piece : InFile(x, g) /\ x.entry.by = q => InFile(x, journal)
      BY <1>2, <2>2
    <3>4. durable[1] \in 1 .. Len(journal)
      BY <1>1
    <3>5. ThreadOk(q, review[q], g, durable[1], holder, acked, damaged')
      BY <1>1, <1>3, <3>1, <3>2, <3>3, <3>4, OthersKeep
    <3>6. QED BY <1>4, <3>1, <3>5
  <2>3. QED BY <2>1, <2>2
<1>9. AckedOk(journal', durable'[1], acked')
  <2>1. AckedOk(journal, durable[1], acked)
    BY DEF JournalInv
  <2>2. PICK place \in [1 .. Len(acked) -> 1 .. durable[1] - 1] : Stored(journal, acked, place)
    BY <2>1 DEF AckedOk
  <2>3. \A k \in 1 .. Len(acked) : FirstHalf(g, place[k], acked[k])
    <3>1. SUFFICES ASSUME NEW k \in 1 .. Len(acked)
                   PROVE  FirstHalf(g, place[k], acked[k])
      OBVIOUS
    <3>2. Len(journal) \in Nat /\ durable[1] \in 1 .. Len(journal)
      BY <1>1 DEF File
    <3>3. place[k] \in 1 .. Len(journal)
      BY <3>2
    <3>4. FirstHalf(journal, place[k], acked[k])
      BY <2>2 DEF Stored
    <3>5. QED BY <1>1, <1>3, <3>3, <3>4, GrownHalf
  <2>4. Stored(g, acked, place)
    BY <2>2, <2>3 DEF Stored
  <2>5. QED BY <1>4, <2>1, <2>2, <2>4 DEF AckedOk
<1>10. QED BY <1>7, <1>8, <1>9 DEF JournalInv

(* What the stream still buffers is written when it is closed.              *)
LEMMA CloseWritesStep ==
  ASSUME JournalInv, NEW r \in ReviewId, CloseWrites(r)
  PROVE  JournalInv'
<1> DEFINE t == review[r]
           u == [t EXCEPT !.pending = Tail(@)]
<1>1. /\ t \in Thread /\ t.at = "closing" /\ t.pending # <<>>
      /\ ThreadOk(r, t, journal, durable[1], holder, acked, damaged)
      /\ damaged \in BOOLEAN /\ damaged' = damaged
      /\ UNCHANGED <<durable, holder, acked>>
      /\ journal' = PutPiece(journal, Head(t.pending)) /\ review' = [review EXCEPT ![r] = u]
      /\ journal \in File
  BY DEF JournalInv, JournalTypes, CloseWrites, At
<1>2. Tail(t.pending) \in Seq(Piece \cup {EndOfLine})
  BY <1>1 DEF Thread
<1>3. /\ u \in Thread /\ u.at = "closing" /\ u.pending = Tail(t.pending) /\ u.seen = t.seen
      /\ u.owed = t.owed /\ u.handler = t.handler
  BY <1>1, <1>2 DEF Thread
<1> HIDE DEF u
<1>4. damaged /\ holder # r
  BY <1>1 DEF ThreadOk
<1>5. ASSUME ByOne(r, u, journal')
      PROVE  ThreadOk(r, u, journal', durable[1], holder, acked, damaged')
  <2>1. ReaderOk(r, u, journal', acked)
    BY <1>1, <1>3 DEF ThreadOk, ReaderOk
  <2>2. SeenOk(r, u)
    BY <1>1, <1>3 DEF ThreadOk, SeenOk
  <2>3. QED BY <1>1, <1>3, <1>4, <1>5, <2>1, <2>2 DEF ThreadOk
<1>6. QED BY <1>1, <1>3, <1>4, <1>5, PutStep

(* A pair is one appended to a single.                                      *)
LEMMA PairAppend ==
  ASSUME NEW T, NEW a \in T, NEW b \in T
  PROVE  Append(<<a>>, b) = <<a, b>>
<1> DEFINE x == <<a>>
           y == <<a, b>>
           z == Append(x, b)
<1>1. x \in Seq(T) /\ Len(x) = 1 /\ x[1] = a
  OBVIOUS
<1>2. y \in Seq(T) /\ Len(y) = 2 /\ y[1] = a /\ y[2] = b
  OBVIOUS
<1> HIDE DEF x, y
<1>3. z \in Seq(T) /\ Len(z) = Len(x) + 1 /\ z[Len(x) + 1] = b
  BY <1>1, AppendProperties
<1>4. \A i \in 1 .. Len(x) : z[i] = x[i]
  BY <1>1, AppendProperties
<1> HIDE DEF z
<1>5. Len(x) + 1 = 2 /\ 1 \in 1 .. Len(x)
  BY <1>1
<1>6. Len(z) = 2 /\ z[1] = a /\ z[2] = b
  BY <1>1, <1>3, <1>4, <1>5
<1>7. z = y
  BY <1>2, <1>3, <1>6, SeqEqual
<1>8. QED BY <1>7 DEF x, y, z

(* The next piece of a line, in a file that was not damaged: the last line. *)
LEMMA LastLineStep ==
  ASSUME NEW file \in File, NEW e \in Entry, NEW n \in 0 .. Len(JournalLine(e)),
         Rest(e, n) # <<>>, NEW r, e.by = r, r \notin Separated,
         LastLine(r, n, e, file), Linked(file, Len(file) - 1)
  PROVE  LET g == PutPiece(file, Head(Rest(e, n))) IN
         LastLine(r, n + 1, e, g) /\ Linked(g, Len(g) - 1)
<1> DEFINE p == Head(Rest(e, n))
           g == PutPiece(file, p)
           N == Len(file)
<1>1. /\ JournalLine(e) = <<Half(e, 1), Half(e, 2), EndOfLine>>
      /\ Half(e, 1) \in Piece /\ Half(e, 2) \in Piece
  BY LineOf
<1>2. n + 1 \in 1 .. Len(JournalLine(e)) /\ p = JournalLine(e)[n + 1]
  BY RestProperties
<1>3. n \in {0, 1, 2}
  BY <1>1, <1>2
<1>4. Half(e, 1) # EndOfLine /\ Half(e, 2) # EndOfLine
  BY DEF Half, EndOfLine
<1>5. N \in Nat \ {0} /\ file[N] \in Line /\ p \in Piece \cup {EndOfLine}
  BY <1>1, <1>2, <1>3 DEF File
<1>6. /\ p = EndOfLine => Len(g) = N + 1 /\ g[N + 1] = <<>> /\ \A i \in 1 .. N : g[i] = file[i]
      /\ p # EndOfLine => Len(g) = N /\ g[N] = Append(file[N], p)
                          /\ \A i \in 1 .. N - 1 : g[i] = file[i]
  BY <1>5, PutPieceFile
<1> HIDE DEF p
<1>7. /\ \A i \in 1 .. N - 1 : WholeEntry(file[i]) /\ Continues(file, i, file[i][1].entry)
      /\ Continues(file, N, e)
  BY <1>1, <1>3 DEF Linked, LastLine
<1> HIDE DEF g, N
<1>8. ASSUME \A i \in 1 .. N - 1 : g[i] = file[i]
      PROVE  Linked(g, N - 1) /\ Continues(g, N, e)
  <2>1. ASSUME NEW i \in 1 .. N, NEW d, Continues(file, i, d)
        PROVE  Continues(g, i, d)
    <3>1. i # 1 => i - 1 \in 1 .. N - 1
      BY <1>5
    <3>2. i # 1 => g[i - 1] = file[i - 1]
      BY <1>8, <3>1
    <3>3. QED BY <2>1, <3>2 DEF Continues
  <2>2. ASSUME NEW i \in 1 .. N - 1
        PROVE  WholeEntry(g[i]) /\ Continues(g, i, g[i][1].entry)
    <3>1. i \in 1 .. N /\ g[i] = file[i]
      BY <1>5, <1>8
    <3>2. WholeEntry(file[i]) /\ Continues(file, i, file[i][1].entry)
      BY <1>7
    <3>3. Continues(g, i, file[i][1].entry)
      BY <2>1, <3>1, <3>2
    <3>4. QED BY <3>1, <3>2, <3>3
  <2>3. Continues(g, N, e)
    BY <1>5, <1>7, <2>1
  <2>4. QED BY <2>2, <2>3 DEF Linked
<1>9. CASE n = 0
  <2>1. p = Half(e, 1) /\ file[N] = <<>>
    BY <1>1, <1>2, <1>9 DEF LastLine, N
  <2>2. Len(g) = N /\ g[N] = Append(<<>>, Half(e, 1)) /\ \A i \in 1 .. N - 1 : g[i] = file[i]
    BY <1>4, <1>6, <2>1
  <2>3. g[N] = <<Half(e, 1)>>
    BY <2>2
  <2>4. LastLine(r, 1, e, g)
    BY <1>8, <2>2, <2>3 DEF LastLine
  <2>5. QED BY <1>8, <1>9, <2>2, <2>4 DEF g, p
<1>10. CASE n = 1
  <2>1. p = Half(e, 2) /\ file[N] = <<Half(e, 1)>>
    BY <1>1, <1>2, <1>10 DEF LastLine, N
  <2>2. Len(g) = N /\ g[N] = Append(<<Half(e, 1)>>, Half(e, 2))
        /\ \A i \in 1 .. N - 1 : g[i] = file[i]
    BY <1>4, <1>6, <2>1
  <2>3. g[N] = <<Half(e, 1), Half(e, 2)>>
    BY <1>1, <2>2, PairAppend
  <2>4. LastLine(r, 2, e, g)
    <3>1. 2 < 3 /\ 2 # 1 /\ 2 \in {1, 2} /\ Continues(g, N, e)
      BY <1>8, <2>2
    <3>2. QED BY <2>2, <2>3, <3>1, Zenon DEF LastLine
  <2>5. QED BY <1>8, <1>10, <2>2, <2>4 DEF g, p
<1>11. CASE n = 2
  <2>1. p = EndOfLine /\ file[N] = <<Half(e, 1), Half(e, 2)>>
    BY <1>1, <1>2, <1>11 DEF LastLine, N
  <2>2. Len(g) = N + 1 /\ g[N + 1] = <<>> /\ \A i \in 1 .. N : g[i] = file[i]
    BY <1>6, <2>1
  <2>3. \A i \in 1 .. N - 1 : g[i] = file[i]
    BY <1>5, <2>2
  <2>4. LastLine(r, 3, e, g)
    BY <2>2 DEF LastLine
  <2>5. WholeEntry(g[N]) /\ Continues(g, N, g[N][1].entry)
    <3>1. g[N] = <<Half(e, 1), Half(e, 2)>>
      BY <1>5, <2>1, <2>2
    <3>2. g[N][1].entry = e /\ WholeEntry(g[N])
      BY <3>1 DEF Half, WholeEntry
    <3>3. QED BY <1>8, <2>3, <3>2
  <2>6. Linked(g, N)
    <3>1. \A i \in 1 .. N : i = N \/ i \in 1 .. N - 1
      BY <1>5
    <3>2. Linked(g, N - 1)
      BY <1>8, <2>3
    <3>3. QED BY <2>5, <3>1, <3>2 DEF Linked
  <2>7. Len(g) - 1 = N /\ n + 1 = 3
    BY <1>5, <1>11, <2>2
  <2>8. QED BY <2>4, <2>6, <2>7 DEF g, p
<1>12. QED BY <1>3, <1>9, <1>10, <1>11

(* The first half, once written, is in some line from disk on; the end of   *)
(* the line ends that line.                                                 *)
LEMMA BegunStep ==
  ASSUME NEW file \in File, NEW disk \in 1 .. Len(file),
         NEW e \in Entry, NEW n \in 0 .. Len(JournalLine(e)),
         Rest(e, n) # <<>>, NEW r, e.by = r, Begun(r, n, e, file, disk)
  PROVE  Begun(r, n + 1, e, PutPiece(file, Head(Rest(e, n))), disk)
<1> DEFINE p == Head(Rest(e, n))
           g == PutPiece(file, p)
           N == Len(file)
           L == Len(JournalLine(e))
<1>1. /\ e.by \in Separated =>
           JournalLine(e) = <<Half(e, 1), EndOfLine, Half(e, 2), EndOfLine>>
      /\ e.by \notin Separated => JournalLine(e) = <<Half(e, 1), Half(e, 2), EndOfLine>>
      /\ Half(e, 1) \in Piece /\ Half(e, 2) \in Piece
  BY LineOf
<1>2. n + 1 \in 1 .. L /\ p = JournalLine(e)[n + 1]
  BY RestProperties
<1>3. /\ n = 0 => p = Half(e, 1)
      /\ n + 1 = L => p = EndOfLine /\ n > 0
      /\ p \in Piece \cup {EndOfLine}
  <2>1. CASE e.by \in Separated
    <3>1. /\ L = 4 /\ JournalLine(e)[1] = Half(e, 1) /\ JournalLine(e)[2] = EndOfLine
          /\ JournalLine(e)[3] = Half(e, 2) /\ JournalLine(e)[4] = EndOfLine
      BY <1>1, <2>1
    <3> HIDE DEF p, L
    <3>2. n \in {0, 1, 2, 3}
      BY <1>2, <3>1
    <3>3. QED BY <1>1, <1>2, <3>1, <3>2
  <2>2. CASE e.by \notin Separated
    <3>1. /\ L = 3 /\ JournalLine(e)[1] = Half(e, 1) /\ JournalLine(e)[2] = Half(e, 2)
          /\ JournalLine(e)[3] = EndOfLine
      BY <1>1, <2>2
    <3> HIDE DEF p, L
    <3>2. n \in {0, 1, 2}
      BY <1>2, <3>1
    <3>3. QED BY <1>1, <1>2, <3>1, <3>2
  <2>3. QED BY <2>1, <2>2
<1>4. n \in Nat /\ N \in Nat \ {0} /\ disk \in 1 .. N /\ file[N] \in Seq(Piece)
  BY DEF File, Line
<1>5. /\ GrownInto(file, g) /\ g \in File
      /\ p = EndOfLine => Len(g) = N + 1
      /\ p # EndOfLine => Len(g) = N /\ g[N] = Append(file[N], p)
  BY <1>3, PutPieceFile
<1> HIDE DEF p, L
<1>6. Len(g) \in Nat /\ N <= Len(g)
  BY <1>4, <1>5
<1>7. ASSUME n > 0
      PROVE  \E i \in disk .. N : FirstHalf(g, i, r)
  <2>1. PICK i \in disk .. N : FirstHalf(file, i, r)
    BY <1>7 DEF Begun
  <2>2. i \in 1 .. Len(file)
    BY <1>4
  <2>3. QED BY <1>5, <2>1, <2>2, GrownHalf
<1> HIDE DEF g
<1>8. ASSUME n = 0
      PROVE  \E i \in disk .. N : FirstHalf(g, i, r)
  <2>1. p = Half(e, 1) /\ p # EndOfLine /\ p \in Piece
    BY <1>1, <1>3, <1>8 DEF Half, EndOfLine
  <2>2. g[N] = Append(file[N], p)
    BY <1>5, <2>1
  <2>3. Len(g[N]) = Len(file[N]) + 1 /\ g[N][Len(file[N]) + 1] = p /\ Len(file[N]) \in Nat
    BY <1>4, <2>1, <2>2, AppendProperties
  <2>4. Len(file[N]) + 1 \in 1 .. Len(g[N])
    BY <2>3
  <2>5. p.half = 1 /\ p.entry.by = r
    BY <2>1 DEF Half
  <2>6. FirstHalf(g, N, r)
    BY <2>3, <2>4, <2>5 DEF FirstHalf
  <2>7. N \in disk .. N
    BY <1>4
  <2>8. QED BY <2>6, <2>7
<1>9. PICK i \in disk .. N : FirstHalf(g, i, r)
  BY <1>4, <1>7, <1>8
<1>10. i \in disk .. Len(g)
  BY <1>4, <1>6
<1>11. n + 1 = L => i \in disk .. Len(g) - 1
  BY <1>3, <1>4, <1>5
<1>12. Begun(r, n + 1, e, g, disk)
  BY <1>9, <1>10, <1>11 DEF Begun, L
<1>13. QED BY <1>12 DEF g, p

(* write and flush, piece by piece.                                         *)
LEMMA WriteStep ==
  ASSUME JournalInv, NEW r \in ReviewId, Write(r)
  PROVE  JournalInv'
<1> DEFINE t == review[r]
           u == [t EXCEPT !.pending = Tail(@)]
           g == PutPiece(journal, Head(t.pending))
<1>1. /\ t \in Thread /\ t.at = "writing" /\ t.pending # <<>>
      /\ ThreadOk(r, t, journal, durable[1], holder, acked, damaged)
      /\ damaged \in BOOLEAN /\ damaged' = (damaged \/ r \in Separated)
      /\ UNCHANGED <<durable, holder, acked>>
      /\ journal' = g /\ review' = [review EXCEPT ![r] = u]
      /\ review \in [ReviewId -> Thread]
      /\ journal \in File /\ durable[1] \in 1 .. Len(journal)
  BY DEF JournalInv, JournalTypes, Write, At
<1>2. Tail(t.pending) \in Seq(Piece \cup {EndOfLine})
  BY <1>1 DEF Thread
<1>3. /\ u \in Thread /\ u.at = "writing" /\ u.pending = Tail(t.pending) /\ u.seen = t.seen
      /\ u.owed = t.owed /\ u.handler = t.handler
  BY <1>1, <1>2 DEF Thread
<1> HIDE DEF u
<1>4. holder = r /\ ~In(r, acked) /\ WriterOk(r, t, journal, durable[1], damaged)
  BY <1>1 DEF ThreadOk
<1> PICK e \in Entry : \E n \in 0 .. Len(JournalLine(e)) :
      /\ e.by = r /\ t.pending = Rest(e, n)
      /\ Begun(r, n, e, journal, durable[1]) /\ (~damaged => LastLine(r, n, e, journal))
  BY <1>4 DEF WriterOk
<1>5. PICK n \in 0 .. Len(JournalLine(e)) :
      /\ e.by = r /\ t.pending = Rest(e, n)
      /\ Begun(r, n, e, journal, durable[1]) /\ (~damaged => LastLine(r, n, e, journal))
  OBVIOUS
<1>6. n + 1 \in 0 .. Len(JournalLine(e)) /\ u.pending = Rest(e, n + 1)
  <2>1. n + 1 \in 1 .. Len(JournalLine(e)) /\ Tail(Rest(e, n)) = Rest(e, n + 1)
    BY <1>1, <1>5, RestProperties
  <2>2. QED BY <1>3, <1>5, <2>1
<1>7. Begun(r, n + 1, e, g, durable[1])
  BY <1>1, <1>5, BegunStep
<1>8. ASSUME ~damaged'
      PROVE  LastLine(r, n + 1, e, g) /\ Linked(g, Len(g) - 1)
  <2>1. ~damaged /\ r \notin Separated
    BY <1>1, <1>8
  <2>2. Linked(journal, Len(journal) - 1)
    BY <2>1 DEF JournalInv, CleanOk
  <2>3. QED BY <1>1, <1>5, <2>1, <2>2, LastLineStep
<1> HIDE DEF g
<1>9. WriterOk(r, u, g, durable[1], damaged')
  BY <1>5, <1>6, <1>7, <1>8 DEF WriterOk
<1>10. ASSUME ByOne(r, u, g)
       PROVE  ThreadOk(r, u, g, durable[1], holder, acked, damaged')
  <2>1. ReaderOk(r, u, g, acked)
    BY <1>1, <1>3 DEF ThreadOk, ReaderOk
  <2>2. SeenOk(r, u)
    BY <1>1, <1>3 DEF ThreadOk, SeenOk
  <2>3. QED BY <1>3, <1>4, <1>9, <1>10, <2>1, <2>2 DEF ThreadOk
<1>11. ASSUME ~damaged'
       PROVE  CleanOk(journal', review')
  <2>1. review'[r].at = "writing"
    BY <1>1, <1>3
  <2>2. QED BY <1>1, <1>8, <1>11, <2>1 DEF CleanOk
<1>12. /\ t.at \in {"writing", "closing"} /\ damaged' \in BOOLEAN /\ (damaged => damaged')
       /\ journal' = PutPiece(journal, Head(t.pending))
  BY <1>1 DEF g
<1>13. QED BY <1>1, <1>3, <1>10, <1>11, <1>12, PutStep

(* An entry that is acknowledged is on the disk.                            *)
LEMMA SyncAcked ==
  ASSUME NEW file \in File, NEW disk \in 1 .. Len(file), NEW done \in Seq(ReviewId),
         AckedOk(file, disk, done), NEW r \in ReviewId, ~In(r, done),
         NEW i \in disk .. Len(file) - 1, FirstHalf(file, i, r)
  PROVE  AckedOk(file, Len(file), Append(done, r))
<1> DEFINE N == Len(done)
           D == Append(done, r)
           M == Len(file)
<1>1. PICK p \in [1 .. N -> 1 .. disk - 1] : Stored(file, done, p)
  BY DEF AckedOk
<1>2. N \in Nat /\ M \in Nat /\ disk \in 1 .. M /\ i \in disk .. M - 1
  BY DEF File
<1>3. /\ D \in Seq(ReviewId) /\ Len(D) = N + 1 /\ D[N + 1] = r
      /\ \A k \in 1 .. N : D[k] = done[k]
  BY AppendProperties
<1>4. \A k \in 1 .. N : done[k] # r
  BY DEF In
<1>5. /\ \A j, k \in 1 .. N : done[j] = done[k] => j = k
      /\ \A j, k \in 1 .. N : j < k => p[j] <= p[k]
      /\ \A k \in 1 .. N : FirstHalf(file, p[k], done[k])
      /\ \A k \in 1 .. N : p[k] \in 1 .. disk - 1
  BY <1>1 DEF AckedOk, Stored
<1> HIDE DEF D, N, M
<1> DEFINE q == [k \in 1 .. N + 1 |-> IF k = N + 1 THEN i ELSE p[k]]
<1>6. \A k \in 1 .. N : k # N + 1 /\ k \in 1 .. N + 1 /\ q[k] = p[k]
  BY <1>2
<1>7. q[N + 1] = i
  BY <1>2
<1>8. \A k \in 1 .. N + 1 : k = N + 1 \/ k \in 1 .. N
  BY <1>2
<1>9. q \in [1 .. N + 1 -> 1 .. M - 1]
  <2>1. \A k \in 1 .. N : p[k] \in 1 .. M - 1
    BY <1>2, <1>5
  <2>2. i \in 1 .. M - 1
    BY <1>2
  <2>3. QED BY <1>8, <2>1, <2>2
<1> HIDE DEF q
<1>10. ASSUME NEW j \in 1 .. N + 1, NEW k \in 1 .. N + 1, j < k
       PROVE  q[j] <= q[k]
  <2>1. j \in 1 .. N
    BY <1>2, <1>10
  <2>2. q[j] = p[j] /\ p[j] \in 1 .. disk - 1
    BY <1>5, <1>6, <2>1
  <2>3. CASE k = N + 1
    BY <1>2, <1>7, <2>2, <2>3
  <2>4. CASE k # N + 1
    <3>1. k \in 1 .. N
      BY <1>8, <2>4
    <3>2. QED BY <1>5, <1>6, <1>10, <2>1, <3>1
  <2>5. QED BY <2>3, <2>4
<1>11. ASSUME NEW k \in 1 .. N + 1
       PROVE  FirstHalf(file, q[k], D[k])
  <2>1. CASE k = N + 1
    BY <1>3, <1>7, <2>1
  <2>2. CASE k # N + 1
    <3>1. k \in 1 .. N
      BY <1>8, <2>2
    <3>2. QED BY <1>3, <1>5, <1>6, <3>1
  <2>3. QED BY <2>1, <2>2
<1>12. ASSUME NEW j \in 1 .. N + 1, NEW k \in 1 .. N + 1, D[j] = D[k]
       PROVE  j = k
  <2>1. CASE j = N + 1 /\ k = N + 1
    BY <2>1
  <2>2. CASE j = N + 1 /\ k \in 1 .. N
    BY <1>3, <1>4, <1>12, <2>2
  <2>3. CASE j \in 1 .. N /\ k = N + 1
    BY <1>3, <1>4, <1>12, <2>3
  <2>4. CASE j \in 1 .. N /\ k \in 1 .. N
    BY <1>3, <1>5, <1>12, <2>4
  <2>5. QED BY <1>8, <2>1, <2>2, <2>3, <2>4
<1>13. Stored(file, D, q)
  BY <1>3, <1>10, <1>11 DEF Stored
<1>14. AckedOk(file, M, D)
  BY <1>3, <1>9, <1>12, <1>13 DEF AckedOk
<1>15. QED BY <1>14 DEF D, M

(* A thread that is not writing does not see the journal synced.            *)
LEMMA OthersSynced ==
  ASSUME NEW r \in ReviewId, NEW t \in Thread, NEW file \in File, NEW disk \in 1 .. Len(file),
         NEW disk2, NEW lock, NEW lock2, NEW done \in Seq(ReviewId), NEW done2 \in Seq(ReviewId),
         NEW bad \in BOOLEAN, ThreadOk(r, t, file, disk, lock, done, bad), t.at # "writing",
         lock = r <=> lock2 = r,
         \A q : In(q, done) => In(q, done2), In(r, done2) => In(r, done)
  PROVE  ThreadOk(r, t, file, disk2, lock2, done2, bad)
<1>1. GrownInto(file, file)
  BY GrownSame
<1>2. \A p \in Piece : InFile(p, file) /\ p.entry.by = r => InFile(p, file)
  OBVIOUS
<1>3. bad => bad
  OBVIOUS
<1>4. QED BY <1>1, <1>2, <1>3, OthersKeep

(* fsync and unlock.                                                        *)
LEMMA SyncStep ==
  ASSUME JournalInv, NEW r \in ReviewId, Sync(r)
  PROVE  JournalInv'
<1> DEFINE t == review[r]
           u == [t EXCEPT !.at = "reading"]
<1>1. /\ t \in Thread /\ t.at = "writing" /\ t.pending = <<>>
      /\ ThreadOk(r, t, journal, durable[1], holder, acked, damaged)
      /\ damaged \in BOOLEAN /\ holder' = 0 /\ acked' = Append(acked, r)
      /\ UNCHANGED <<journal, damaged>>
      /\ review \in [ReviewId -> Thread] /\ acked \in Seq(ReviewId)
      /\ journal \in File /\ durable[1] \in 1 .. Len(journal)
      /\ AckedOk(journal, durable[1], acked)
  BY DEF JournalInv, JournalTypes, Sync, At, ReturnedBy
<1>2. durable' = EndOf(journal) /\ review' = [review EXCEPT ![r] = u]
  BY DEF Sync, ReturnedBy, Goes
<1>3. /\ u \in Thread /\ u.at = "reading" /\ u.pending = t.pending /\ u.seen = t.seen
      /\ u.owed = t.owed /\ u.handler = t.handler
  BY <1>1 DEF Thread, Place
<1> HIDE DEF u
<1>4. holder = r /\ ~In(r, acked) /\ WriterOk(r, t, journal, durable[1], damaged)
  BY <1>1 DEF ThreadOk
<1> PICK e \in Entry : \E n \in 0 .. Len(JournalLine(e)) :
      /\ e.by = r /\ t.pending = Rest(e, n)
      /\ Begun(r, n, e, journal, durable[1]) /\ (~damaged => LastLine(r, n, e, journal))
  BY <1>4 DEF WriterOk
<1>5. PICK n \in 0 .. Len(JournalLine(e)) :
      /\ e.by = r /\ t.pending = Rest(e, n)
      /\ Begun(r, n, e, journal, durable[1]) /\ (~damaged => LastLine(r, n, e, journal))
  OBVIOUS
<1>6. n = Len(JournalLine(e))
  BY <1>1, <1>5, RestProperties
<1>7. PICK i \in durable[1] .. Len(journal) - 1 : FirstHalf(journal, i, r)
  BY <1>5, <1>6 DEF Begun
<1>8. durable' \in (1 .. Len(journal)) \X Nat /\ durable'[1] = Len(journal)
  <2>1. Len(journal) \in 1 .. Len(journal) /\ Len(Last(journal)) \in Nat
    <3>1. Len(journal) \in Nat \ {0} /\ journal[Len(journal)] \in Line
      BY <1>1 DEF File
    <3>2. QED BY <3>1 DEF Last, Line
  <2>2. QED BY <1>2, <2>1 DEF EndOf
<1>9. AckedOk(journal', durable'[1], acked')
  BY <1>1, <1>4, <1>7, <1>8, SyncAcked
<1>10. /\ acked' \in Seq(ReviewId) /\ In(r, acked')
       /\ \A q : In(q, acked) => In(q, acked')
       /\ \A q : q # r /\ In(q, acked') => In(q, acked)
  <2> DEFINE N == Len(acked)
             D == Append(acked, r)
  <2>1. N \in Nat
    BY <1>1
  <2>2. /\ D \in Seq(ReviewId) /\ Len(D) = N + 1 /\ D[N + 1] = r
        /\ \A k \in 1 .. N : D[k] = acked[k]
    BY <1>1, AppendProperties
  <2>3. acked' = D
    BY <1>1
  <2> HIDE DEF D, N
  <2>4. N + 1 \in 1 .. Len(D) /\ \A k \in 1 .. Len(D) : k = N + 1 \/ k \in 1 .. N
    BY <2>1, <2>2
  <2>5. \A k \in 1 .. N : k \in 1 .. Len(D)
    BY <2>1, <2>2
  <2>6. In(r, D)
    BY <2>2, <2>4 DEF In
  <2>7. \A q : In(q, acked) => In(q, D)
    BY <2>2, <2>5 DEF In, N
  <2>8. \A q : q # r /\ In(q, D) => In(q, acked)
    BY <2>2, <2>4 DEF In, N
  <2>9. QED BY <2>2, <2>3, <2>6, <2>7, <2>8
<1>11. \A q \in ReviewId : q # 0
  BY DEF ReviewId
<1>12. /\ review'[r] = u /\ review' \in [ReviewId -> Thread]
       /\ \A q \in ReviewId : q # r => review'[q] = review[q]
  BY <1>1, <1>2, <1>3
<1>13. JournalTypes'
  BY <1>1, <1>8, <1>10, <1>12 DEF JournalTypes
<1>14. ThreadOk(r, u, journal', durable'[1], holder', acked', damaged')
  <2>1. ByOne(r, u, journal')
    <3>1. \A p \in Piece : PendingIn(p, u) => PendingIn(p, t)
      BY <1>3 DEF PendingIn
    <3>2. QED BY <1>1, <3>1, OneLess DEF ThreadOk
  <2>2. ReaderOk(r, u, journal', acked')
    <3>1. ReaderOk(r, t, journal, acked)
      BY <1>1 DEF ThreadOk
    <3>2. u.seen = <<>> /\ \A q \in u.owed : In(q, acked')
      BY <1>1, <1>3, <1>10, <3>1 DEF ReaderOk
    <3>3. QED BY <1>3, <1>10, <3>2 DEF ReaderOk
  <2>3. SeenOk(r, u)
    BY <1>1, <1>3 DEF ThreadOk, SeenOk
  <2>4. QED BY <1>1, <1>3, <1>11, <2>1, <2>2, <2>3 DEF ThreadOk
<1>15. ASSUME NEW q \in ReviewId
       PROVE  ThreadOk(q, review'[q], journal', durable'[1], holder', acked', damaged')
  <2>1. CASE q = r
    BY <1>12, <1>14, <2>1
  <2>2. CASE q # r
    <3>1. /\ review'[q] = review[q] /\ review[q] \in Thread
          /\ ThreadOk(q, review[q], journal, durable[1], holder, acked, damaged)
      BY <1>1, <1>12, <2>2 DEF JournalInv
    <3>2. review[q].at # "writing"
      BY <1>4, <2>2, <3>1 DEF ThreadOk
    <3>3. holder = q <=> holder' = q
      BY <1>1, <1>4, <1>11, <2>2
    <3>4. In(q, acked') => In(q, acked)
      BY <1>10, <2>2
    <3>5. /\ journal \in File /\ durable[1] \in 1 .. Len(journal)
          /\ acked \in Seq(ReviewId) /\ acked' \in Seq(ReviewId) /\ damaged \in BOOLEAN
          /\ \A x : In(x, acked) => In(x, acked')
      BY <1>1, <1>10
    <3>6. ThreadOk(q, review[q], journal, durable'[1], holder', acked', damaged)
      BY <3>1, <3>2, <3>3, <3>4, <3>5, OthersSynced
    <3>7. QED BY <1>1, <3>1, <3>6
  <2>3. QED BY <2>1, <2>2
<1>16. ASSUME ~damaged'
       PROVE  CleanOk(journal', review')
  <2>1. Linked(journal, Len(journal) - 1) /\ LastLine(r, n, e, journal)
    BY <1>1, <1>5, <1>16 DEF JournalInv, CleanOk
  <2>2. n \notin {1, 2}
    <3>1. CASE e.by \in Separated
      BY <1>6, <3>1, LineOf
    <3>2. CASE e.by \notin Separated
      BY <1>6, <3>2, LineOf
    <3>3. QED BY <3>1, <3>2
  <2>3. journal[Len(journal)] = <<>>
    BY <2>1, <2>2 DEF LastLine
  <2>4. QED BY <1>1, <2>1, <2>3 DEF CleanOk
<1>17. QED BY <1>9, <1>13, <1>15, <1>16 DEF JournalInv

(* A thread that is in no handler is left alone by a death.                 *)
LEMMA QuietOk ==
  ASSUME NEW r \in ReviewId, NEW t \in Thread,
         t.at \in {"idle", "answered", "failed", "lost"},
         NEW file, NEW file2, NEW disk, NEW disk2, NEW lock, NEW done, NEW bad, NEW bad2,
         ThreadOk(r, t, file, disk, lock, done, bad),
         \A p \in Piece : InFile(p, file2) => InFile(p, file)
  PROVE  ThreadOk(r, t, file2, disk2, 0, done, bad2)
<1>1. r # 0
  BY DEF ReviewId
<1>2. ByOne(r, t, file2)
  <2>1. ByOne(r, t, file)
    BY DEF ThreadOk
  <2>2. QED BY <2>1 DEF ByOne
<1>3. ReaderOk(r, t, file2, done)
  BY DEF ReaderOk
<1>4. SeenOk(r, t)
  BY DEF ThreadOk
<1>5. QED BY <1>1, <1>2, <1>3, <1>4 DEF ThreadOk

(* The machine dies.                                                        *)
LEMMA KillStep ==
  ASSUME JournalInv, Kill
  PROVE  JournalInv'
<1>1. /\ journal \in File /\ durable \in (1 .. Len(journal)) \X Nat
      /\ review \in [ReviewId -> Thread] /\ acked \in Seq(ReviewId) /\ damaged \in BOOLEAN
      /\ AckedOk(journal, durable[1], acked)
  BY DEF JournalInv, JournalTypes
<1>2. PICK cut \in CutsAfter(journal, durable) :
        /\ journal' = CutAt(journal, cut) /\ durable' = cut
        /\ damaged' = (damaged \/ cut[2] > 0)
  BY DEF Kill
<1>3. /\ holder' = 0 /\ acked' = acked
      /\ review' = [r \in ReviewId |->
           IF InHandler(r) THEN Ended(review[r], "lost") ELSE review[r]]
  BY DEF Kill
<1> DEFINE g == CutAt(journal, cut)
           c == cut[1]
<1>4. /\ cut \in (1 .. Len(journal)) \X Nat /\ cut[2] <= Len(journal[c]) /\ durable[1] <= c
      /\ g \in File /\ Len(g) = c /\ g[c] \in Line /\ Len(g[c]) = cut[2]
      /\ \A i \in 1 .. c - 1 : g[i] = journal[i]
  BY <1>1, CutFile
<1>5. \A p \in Piece : InFile(p, g) => InFile(p, journal)
  BY <1>1, CutIn
<1> HIDE DEF g
<1>6. journal' = g /\ damaged' \in BOOLEAN
  BY <1>2 DEF g
<1>7. /\ c \in 1 .. Len(journal) /\ Len(journal) \in Nat /\ durable[1] \in 1 .. Len(journal)
      /\ durable' \in (1 .. Len(g)) \X Nat /\ durable'[1] = c
  <2>1. c \in 1 .. Len(journal) /\ Len(journal) \in Nat /\ durable[1] \in 1 .. Len(journal)
    BY <1>1, <1>4 DEF File
  <2>2. c \in 1 .. Len(g) /\ cut[2] \in Nat /\ cut = <<cut[1], cut[2]>>
    BY <1>4, <2>1
  <2>3. QED BY <1>2, <2>1, <2>2
<1> HIDE DEF c
<1>8. ASSUME NEW q \in ReviewId
      PROVE  /\ review'[q] \in Thread
             /\ ThreadOk(q, review'[q], g, durable'[1], 0, acked, damaged')
  <2>1. /\ review[q] \in Thread
        /\ ThreadOk(q, review[q], journal, durable[1], holder, acked, damaged)
    BY <1>1 DEF JournalInv
  <2>2. CASE InHandler(q)
    <3>1. review'[q] = Ended(review[q], "lost") /\ 0 # q
      BY <1>3, <2>2 DEF ReviewId
    <3>2. QED BY <1>5, <2>1, <3>1, EndedOk
  <2>3. CASE ~InHandler(q)
    <3>1. review'[q] = review[q]
      BY <1>3, <2>3
    <3>2. review[q].at \in {"idle", "answered", "failed", "lost"}
      BY <2>3 DEF InHandler
    <3>3. QED BY <1>5, <2>1, <3>1, <3>2, QuietOk
  <2>4. QED BY <2>2, <2>3
<1>9. review' \in [ReviewId -> Thread]
  <2>1. review' = [q \in ReviewId |-> review'[q]]
    BY <1>3
  <2>2. QED BY <1>8, <2>1
<1>10. JournalTypes'
  BY <1>1, <1>3, <1>4, <1>6, <1>7, <1>9 DEF JournalTypes
<1>11. AckedOk(journal', durable'[1], acked')
  <2>1. PICK p \in [1 .. Len(acked) -> 1 .. durable[1] - 1] : Stored(journal, acked, p)
    BY <1>1 DEF AckedOk
  <2>2. \A k \in 1 .. Len(acked) : p[k] \in 1 .. c - 1 /\ g[p[k]] = journal[p[k]]
    BY <1>4, <1>7 DEF c
  <2>3. p \in [1 .. Len(acked) -> 1 .. c - 1]
    BY <2>2
  <2>4. Stored(g, acked, p)
    BY <2>1, <2>2 DEF Stored, FirstHalf
  <2>5. AckedOk(g, c, acked)
    BY <1>1, <2>3, <2>4 DEF AckedOk
  <2>6. QED BY <1>3, <1>6, <1>7, <2>5
<1>12. ASSUME ~damaged'
       PROVE  CleanOk(journal', review')
  <2>1. ~damaged /\ ~(cut[2] > 0)
    BY <1>2, <1>12
  <2>2. g[c] = <<>>
    <3>1. cut[2] = 0
      BY <1>4, <2>1
    <3>2. QED BY <1>4, <3>1 DEF c, Line
  <2>3. Linked(journal, Len(journal) - 1)
    BY <2>1 DEF JournalInv, CleanOk
  <2>4. Linked(g, c - 1)
    <3>1. SUFFICES ASSUME NEW i \in 1 .. c - 1
                   PROVE  WholeEntry(g[i]) /\ Continues(g, i, g[i][1].entry)
      BY DEF Linked
    <3>2. /\ i \in 1 .. Len(journal) - 1 /\ g[i] = journal[i]
          /\ i # 1 => g[i - 1] = journal[i - 1]
      BY <1>4, <1>7 DEF c
    <3>3. WholeEntry(journal[i]) /\ Continues(journal, i, journal[i][1].entry)
      BY <2>3, <3>2 DEF Linked
    <3>4. QED BY <3>2, <3>3 DEF Continues
  <2>5. Len(g) = c
    BY <1>4 DEF c
  <2>6. QED BY <1>6, <2>2, <2>4, <2>5 DEF CleanOk
<1>13. QED BY <1>3, <1>6, <1>8, <1>10, <1>11, <1>12 DEF JournalInv

(* A new service starts with an empty journal.                              *)
LEMMA InitInv ==
  ASSUME JournalInit
  PROVE  JournalInv
<1>1. /\ journal = <<<<>>>> /\ durable = EndOf(journal) /\ holder = 0
      /\ review = [r \in ReviewId |-> NoThread] /\ acked = <<>> /\ damaged = FALSE
  BY DEF JournalInit
<1>2. /\ journal \in File /\ Len(journal) = 1 /\ journal[1] = <<>>
  <2>1. <<>> \in Line
    BY DEF Line
  <2>2. <<<<>>>> \in Seq(Line) /\ <<<<>>>> # <<>>
    BY <2>1
  <2>3. QED BY <1>1, <2>2 DEF File
<1>3. durable = <<1, 0>>
  BY <1>1, <1>2 DEF EndOf, Last
<1>4. JournalTypes
  <2>1. durable \in (1 .. Len(journal)) \X Nat
    BY <1>2, <1>3
  <2>2. review \in [ReviewId -> Thread]
    BY <1>1, NoThreadType
  <2>3. acked \in Seq(ReviewId)
    BY <1>1
  <2>4. QED BY <1>1, <1>2, <2>1, <2>2, <2>3 DEF JournalTypes
<1>5. NoThread.at = "idle" /\ NoThread.seen = <<>> /\ NoThread.pending = <<>>
  BY DEF NoThread
<1>6. ASSUME NEW r \in ReviewId
      PROVE  ThreadOk(r, review[r], journal, durable[1], holder, acked, damaged)
  <2>1. r # 0 /\ r \in Nat
    BY DEF ReviewId
  <2>2. \A p : ~InFile(p, journal)
    BY <1>2 DEF InFile
  <2>3. [by |-> r, sequence |-> 0, previous |-> 0] \in Entry
    BY DEF Entry
  <2>4. ByOne(r, NoThread, journal)
    <3>1. \A p : ~PendingIn(p, NoThread)
      BY <1>5 DEF PendingIn
    <3>2. QED BY <2>2, <2>3, <3>1 DEF ByOne
  <2>5. ~In(r, acked)
    BY <1>1 DEF In
  <2>6. ReaderOk(r, NoThread, journal, acked) /\ SeenOk(r, NoThread)
    BY <1>5 DEF ReaderOk, SeenOk
  <2>7. QED BY <1>1, <1>5, <2>1, <2>2, <2>4, <2>5, <2>6 DEF ThreadOk
<1>7. AckedOk(journal, durable[1], acked)
  <2>1. Len(acked) = 0 /\ 1 .. 0 = {}
    BY <1>1
  <2>2. [k \in 1 .. Len(acked) |-> k] \in [1 .. Len(acked) -> 1 .. durable[1] - 1]
    BY <2>1
  <2>3. Stored(journal, acked, [k \in 1 .. Len(acked) |-> k])
    BY <2>1 DEF Stored
  <2>4. QED BY <2>1, <2>2, <2>3 DEF AckedOk
<1>8. CleanOk(journal, review)
  BY <1>2 DEF CleanOk, Linked
<1>9. QED BY <1>4, <1>6, <1>7, <1>8 DEF JournalInv

(* Every step.                                                              *)
LEMMA StepInv ==
  ASSUME JournalInv, [JournalNext]_journalVars
  PROVE  JournalInv'
<1>1. ASSUME NEW r \in ReviewId, Enter(r)
      PROVE  JournalInv'
  BY <1>1, EnterStep
<1>2. ASSUME NEW r \in ReviewId, ReviewStep(r)
      PROVE  JournalInv'
  BY <1>2, LockStep, BuildStep, RaiseStep, WriteStep, SyncStep, CloseWritesStep,
     CloseEndsStep, ReadStep, ReadRaisesStep DEF ReviewStep
<1>3. ASSUME NEW r \in ReviewId, WriteFails(r)
      PROVE  JournalInv'
  BY <1>3, WriteFailsStep
<1>4. CASE Kill
  BY <1>4, KillStep
<1>5. CASE UNCHANGED journalVars
  BY <1>5 DEF journalVars, JournalInv, JournalTypes, ThreadOk
<1>6. CASE AllReviewed
  BY <1>5, <1>6 DEF AllReviewed
<1>7. QED BY <1>1, <1>2, <1>3, <1>4, <1>5, <1>6 DEF JournalNext

(* The invariant holds at all times.                                        *)
LEMMA JournalInvariant == JournalSpec => []JournalInv
<1>1. JournalInit => JournalInv
  BY InitInv
<1>2. JournalInv /\ [JournalNext]_journalVars => JournalInv'
  BY StepInv
<1>3. QED BY <1>1, <1>2, PTL DEF JournalSpec

(* Between appends an undamaged journal can be read (review.py:42-51), for  *)
(* every number of requests, threads and deaths.                            *)
THEOREM JournalAlwaysReadable == JournalSpec => []JournalReadable
BY JournalInvariant, InvReadable, PTL

(* A journal that verifies has every entry whose append returned, once and  *)
(* in that order, whatever died, failed or was torn (review.py:103-143).    *)
THEOREM LossNeverSilent == JournalSpec => []NoSilentLoss
BY JournalInvariant, InvNoSilentLoss, PTL

(* The reads of one handler see the journal grow, and see what was          *)
(* acknowledged before the request came (review_service.py).                *)
THEOREM ReadsAlwaysGrow == JournalSpec => []ReadsGrow
BY JournalInvariant, InvReadsGrow, PTL

=============================================================================
