--------------------------- MODULE HistoryLogProofs ---------------------------
(* Theorems about HistoryLog: for every set of files and limits, every     *)
(* rotation period, and any number of appends and faults.                  *)
EXTENDS HistoryLog, SequenceTheorems, TLAPS

(* Suffix, element by element.                                             *)
LEMMA SuffixElements ==
  ASSUME NEW S, NEW s \in Seq(S), NEW t \in Seq(S)
  PROVE  Suffix(s, t) <=> /\ Len(s) <= Len(t)
                          /\ \A i \in 1..Len(s) : s[i] = t[Len(t) - Len(s) + i]
<1>1. Len(s) \in Nat /\ Len(t) \in Nat
  BY LenProperties
<1>2. ASSUME Len(s) <= Len(t)
      PROVE  LET end == SubSeq(t, Len(t) - Len(s) + 1, Len(t))
             IN  /\ end \in Seq(S) /\ Len(end) = Len(s)
                 /\ \A i \in 1..Len(s) : end[i] = t[Len(t) - Len(s) + i]
  <2>1. \A i \in (Len(t) - Len(s) + 1)..Len(t) : t[i] \in S
    BY <1>1, <1>2, ElementOfSeq
  <2>2. Len(t) - Len(s) + 1 \in Int /\ Len(t) \in Int
    BY <1>1
  <2> DEFINE end == SubSeq(t, Len(t) - Len(s) + 1, Len(t))
  <2>3. /\ end \in Seq(S)
        /\ Len(end) = IF Len(t) - Len(s) + 1 <= Len(t) THEN Len(t) - (Len(t) - Len(s) + 1) + 1 ELSE 0
        /\ \A i \in 1..(Len(t) - (Len(t) - Len(s) + 1) + 1) : end[i] = t[Len(t) - Len(s) + 1 + i - 1]
    BY <2>1, <2>2, SubSeqProperties
  <2>4. Len(end) = Len(s)
    BY <1>1, <2>3
  <2>5. ASSUME NEW i \in 1..Len(s) PROVE end[i] = t[Len(t) - Len(s) + i]
    <3>1. i \in 1..(Len(t) - (Len(t) - Len(s) + 1) + 1)
      BY <1>1
    <3>2. Len(t) - Len(s) + 1 + i - 1 = Len(t) - Len(s) + i
      BY <1>1
    <3>. QED
      BY <2>3, <3>1, <3>2
  <2>. QED
    BY <2>3, <2>4, <2>5
<1>3. ASSUME Suffix(s, t) PROVE \A i \in 1..Len(s) : s[i] = t[Len(t) - Len(s) + i]
  BY <1>2, <1>3 DEF Suffix
<1>4. ASSUME Len(s) <= Len(t), \A i \in 1..Len(s) : s[i] = t[Len(t) - Len(s) + i]
      PROVE  s = SubSeq(t, Len(t) - Len(s) + 1, Len(t))
  <2> DEFINE end == SubSeq(t, Len(t) - Len(s) + 1, Len(t))
  <2>1. end \in Seq(S) /\ Len(end) = Len(s) /\ \A i \in 1..Len(s) : s[i] = end[i]
    BY <1>2, <1>4
  <2> HIDE DEF end
  <2>2. s = end
    BY <2>1, SeqEqual
  <2>. QED
    BY <2>2 DEF end
<1>. QED
  BY <1>3, <1>4 DEF Suffix

LEMMA SuffixOfEmpty == ASSUME NEW S, NEW t \in Seq(S) PROVE Suffix(<<>>, t)
<1>1. <<>> \in Seq(S) /\ Len(<<>>) = 0 /\ Len(t) \in Nat
  BY EmptySeq, LenProperties
<1>2. SubSeq(t, Len(t) + 1, Len(t)) = <<>>
  BY <1>1, SubSeqEmpty
<1>. QED
  BY <1>1, <1>2 DEF Suffix

(* A line appended to a file and to what was written to it.                *)
LEMMA SuffixAppend ==
  ASSUME NEW S, NEW s \in Seq(S), NEW t \in Seq(S), NEW x \in S, Suffix(s, t)
  PROVE  Suffix(Append(s, x), Append(t, x))
<1>1. /\ Len(s) \in Nat /\ Len(t) \in Nat /\ Len(s) <= Len(t)
      /\ \A i \in 1..Len(s) : s[i] = t[Len(t) - Len(s) + i]
  BY SuffixElements, LenProperties
<1> DEFINE a == Append(s, x)
<1> DEFINE b == Append(t, x)
<1>2. /\ a \in Seq(S) /\ Len(a) = Len(s) + 1
      /\ \A i \in 1..Len(s) : a[i] = s[i]
      /\ a[Len(s) + 1] = x
  BY AppendProperties
<1>3. /\ b \in Seq(S) /\ Len(b) = Len(t) + 1
      /\ \A i \in 1..Len(t) : b[i] = t[i]
      /\ b[Len(t) + 1] = x
  BY AppendProperties
<1> HIDE DEF a, b
<1>4. ASSUME NEW i \in 1..(Len(s) + 1)
      PROVE  a[i] = b[Len(t) + 1 - (Len(s) + 1) + i]
  <2>1. CASE i = Len(s) + 1
    <3>1. Len(t) + 1 - (Len(s) + 1) + i = Len(t) + 1
      BY <1>1, <2>1
    <3>. QED
      BY <1>2, <1>3, <2>1, <3>1
  <2>2. CASE i # Len(s) + 1
    <3>1. /\ i \in 1..Len(s) /\ Len(t) - Len(s) + i \in 1..Len(t)
          /\ Len(t) + 1 - (Len(s) + 1) + i = Len(t) - Len(s) + i
      BY <1>1, <2>2
    <3>. QED
      BY <1>1, <1>2, <1>3, <3>1
  <2>. QED
    BY <2>1, <2>2
<1>5. Len(s) + 1 \in Nat /\ Len(t) + 1 \in Nat /\ Len(s) + 1 <= Len(t) + 1
  BY <1>1
<1>6. Suffix(a, b) <=> /\ Len(a) <= Len(b)
                       /\ \A i \in 1..Len(a) : a[i] = b[Len(b) - Len(a) + i]
  BY <1>2, <1>3, SuffixElements
<1>7. Suffix(a, b)
  BY <1>2, <1>3, <1>4, <1>5, <1>6
<1>. QED
  BY <1>7 DEF a, b

(* The last m lines of a file and the fragment g, as rotation copies them. *)
LEMMA SuffixCopied ==
  ASSUME NEW S, NEW s \in Seq(S), NEW t \in Seq(S), NEW g \in Seq(S), NEW m \in 0..Len(s)
  PROVE  LET kept == SubSeq(s, Len(s) - m + 1, Len(s)) \o g
         IN  /\ kept \in Seq(S) /\ Len(kept) = m + Len(g)
             /\ Suffix(s, t) => Suffix(kept, t \o g)
<1> DEFINE end == SubSeq(s, Len(s) - m + 1, Len(s))
<1>1. Len(s) \in Nat /\ Len(t) \in Nat /\ Len(g) \in Nat
  BY LenProperties
<1>2. end \in Seq(S) /\ Len(end) = m /\ \A i \in 1..m : end[i] = s[Len(s) - m + i]
  <2>1. \A i \in (Len(s) - m + 1)..Len(s) : s[i] \in S
    BY <1>1, ElementOfSeq
  <2>2. Len(s) - m + 1 \in Int /\ Len(s) \in Int
    BY <1>1
  <2>3. /\ end \in Seq(S)
        /\ Len(end) = IF Len(s) - m + 1 <= Len(s) THEN Len(s) - (Len(s) - m + 1) + 1 ELSE 0
        /\ \A i \in 1..(Len(s) - (Len(s) - m + 1) + 1) : end[i] = s[Len(s) - m + 1 + i - 1]
    BY <2>1, <2>2, SubSeqProperties
  <2>4. ASSUME NEW i \in 1..m PROVE end[i] = s[Len(s) - m + i]
    <3>1. i \in 1..(Len(s) - (Len(s) - m + 1) + 1) /\ Len(s) - m + 1 + i - 1 = Len(s) - m + i
      BY <1>1
    <3>. QED
      BY <2>3, <3>1
  <2>. QED
    BY <1>1, <2>3, <2>4
<1> HIDE DEF end
<1>3. /\ end \o g \in Seq(S) /\ Len(end \o g) = m + Len(g)
      /\ \A i \in 1..(m + Len(g)) : (end \o g)[i] = IF i <= m THEN end[i] ELSE g[i - m]
  BY <1>2, ConcatProperties
<1>4. /\ t \o g \in Seq(S) /\ Len(t \o g) = Len(t) + Len(g)
      /\ \A i \in 1..(Len(t) + Len(g)) : (t \o g)[i] = IF i <= Len(t) THEN t[i] ELSE g[i - Len(t)]
  BY ConcatProperties
<1>5. ASSUME Suffix(s, t) PROVE Suffix(end \o g, t \o g)
  <2>1. Len(s) <= Len(t) /\ \A i \in 1..Len(s) : s[i] = t[Len(t) - Len(s) + i]
    BY <1>5, SuffixElements
  <2>2. ASSUME NEW i \in 1..(m + Len(g))
        PROVE  (end \o g)[i] = (t \o g)[Len(t) + Len(g) - (m + Len(g)) + i]
    <3> DEFINE j == Len(t) - m + i
    <3>1. j \in 1..(Len(t) + Len(g)) /\ Len(t) + Len(g) - (m + Len(g)) + i = j
      BY <1>1, <2>1
    <3> HIDE DEF j
    <3>2. CASE i <= m
      <4>1. Len(s) - m + i \in 1..Len(s) /\ Len(t) - Len(s) + (Len(s) - m + i) = j /\ j <= Len(t)
        BY <1>1, <3>2 DEF j
      <4>2. (end \o g)[i] = s[Len(s) - m + i]
        BY <1>2, <1>3, <3>2
      <4>3. (t \o g)[j] = t[j]
        BY <1>4, <3>1, <4>1
      <4>4. s[Len(s) - m + i] = t[Len(t) - Len(s) + (Len(s) - m + i)]
        BY <2>1, <4>1
      <4>. QED
        BY <3>1, <4>1, <4>2, <4>3, <4>4
    <3>3. CASE ~(i <= m)
      <4>1. ~(j <= Len(t)) /\ j - Len(t) = i - m
        BY <1>1, <3>3 DEF j
      <4>. QED
        BY <1>3, <1>4, <3>1, <3>3, <4>1
    <3>. QED
      BY <3>2, <3>3
  <2>3. m + Len(g) \in Nat /\ Len(t) + Len(g) \in Nat /\ m + Len(g) <= Len(t) + Len(g)
    BY <1>1, <2>1
  <2> DEFINE a == end \o g
  <2> DEFINE b == t \o g
  <2>4. a \in Seq(S) /\ b \in Seq(S) /\ Len(a) = m + Len(g) /\ Len(b) = Len(t) + Len(g)
    BY <1>3, <1>4
  <2>5. \A i \in 1..(m + Len(g)) : a[i] = b[Len(t) + Len(g) - (m + Len(g)) + i]
    BY <2>2
  <2> HIDE DEF a, b
  <2>6. Suffix(a, b) <=> /\ Len(a) <= Len(b)
                         /\ \A i \in 1..Len(a) : a[i] = b[Len(b) - Len(a) + i]
    BY <2>4, SuffixElements
  <2>7. Suffix(a, b)
    BY <2>3, <2>4, <2>5, <2>6
  <2>. QED
    BY <2>7 DEF a, b
<1>. QED
  BY <1>3, <1>5 DEF end
-----------------------------------------------------------------------------
(* Counting up modulo r.                                                   *)
LEMMA DivMod ==
  ASSUME NEW n \in Nat, NEW r \in Nat \ {0}
  PROVE  n = r * (n \div r) + (n % r) /\ n \div r \in Int /\ n % r \in 0..(r - 1)
  OBVIOUS

LEMMA NextModulo ==
  ASSUME NEW n \in Nat, NEW r \in Nat \ {0}
  PROVE  (n + 1) % r = 0 \/ (n + 1) % r = (n % r) + 1
<1> DEFINE q == n \div r
<1> DEFINE p == (n + 1) \div r
<1>1. /\ n = r * q + (n % r) /\ q \in Int /\ n % r \in 0..(r - 1)
      /\ n + 1 = r * p + ((n + 1) % r) /\ p \in Int /\ (n + 1) % r \in 0..(r - 1)
  BY DivMod
<1> HIDE DEF p, q
<1>2. r * (p - q) = 1 + (n % r) - ((n + 1) % r) /\ p - q \in Int
  BY <1>1
<1>3. /\ p - q >= 2 => r * (p - q) >= 2 * r
      /\ p - q <= -1 => r * (p - q) <= -r
      /\ p - q = 0 => r * (p - q) = 0
      /\ p - q = 1 => r * (p - q) = r
  BY <1>2
<1>4. p - q = 0 \/ p - q = 1
  BY <1>1, <1>2, <1>3
<1>. QED
  BY <1>1, <1>2, <1>3, <1>4
-----------------------------------------------------------------------------
(* The types, with what rotation knows between its steps.                  *)
DataTypes ==
  /\ filePath \in Paths /\ maxEntries \in Limits
  /\ appendCount \in Nat /\ entryCount \in Nat /\ written \in Nat /\ faults \in Nat
  /\ file \in [Paths -> Seq(Line)] /\ log \in [Paths -> Seq(Line)]
  /\ fragment \in [Paths -> Seq(Line)] /\ \A p \in Paths : Len(fragment[p]) <= 1
  /\ exists \subseteq Paths /\ temp \in Seq(Line)
  /\ step \in {"idle", "check", "copy", "rename", "down"}

FlagTypes == counted \in BOOLEAN /\ trimmed \in BOOLEAN

LEMMA TypesSplit == HistoryTypeOK <=> DataTypes /\ FlagTypes
  BY Zenon DEF HistoryTypeOK, DataTypes, FlagTypes

RotationInv ==
  /\ step \in {"copy", "rename"} => Len(file[filePath]) > maxEntries
  /\ step = "rename" =>
       temp = SubSeq(file[filePath], Len(file[filePath]) - maxEntries + 1, Len(file[filePath]))
                \o fragment[filePath]

LEMMA TypeFacts ==
  ASSUME DataTypes
  PROVE  /\ filePath \in Paths /\ maxEntries \in Nat
         /\ file[filePath] \in Seq(Line) /\ fragment[filePath] \in Seq(Line)
         /\ log[filePath] \in Seq(Line)
         /\ Len(file[filePath]) \in Nat /\ Len(fragment[filePath]) \in 0..1
         /\ NewLine \in Line /\ Malformed \in Line
<1>1. /\ filePath \in Paths /\ maxEntries \in Nat /\ written \in Nat
      /\ file[filePath] \in Seq(Line) /\ fragment[filePath] \in Seq(Line)
      /\ log[filePath] \in Seq(Line) /\ Len(fragment[filePath]) <= 1
  BY HistoryAssumption DEF DataTypes
<1>2. Len(file[filePath]) \in Nat /\ Len(fragment[filePath]) \in Nat
  BY <1>1, LenProperties
<1>3. written \in Line /\ Malformed \in Line
  BY <1>1 DEF Line
<1>4. NewLine = written \/ NewLine = Malformed
  BY DEF NewLine
<1>5. NewLine \in Line
  BY <1>3, <1>4, Zenon
<1>6. Len(fragment[filePath]) \in 0..1
  <2> DEFINE n == Len(fragment[filePath])
  <2>1. n \in Nat /\ n <= 1
    BY <1>1, <1>2, Zenon
  <2> HIDE DEF n
  <2>2. n \in 0..1
    BY <2>1
  <2>. QED
    BY <2>2 DEF n
<1>. QED
  BY <1>1, <1>2, <1>3, <1>5, <1>6, Zenon

(* What rotation copied, when it is about to rename.                       *)
LEMMA TempFacts ==
  ASSUME DataTypes, RotationInv, step = "rename"
  PROVE  /\ temp \in Seq(Line) /\ Len(temp) = maxEntries + Len(fragment[filePath])
         /\ Suffix(file[filePath], log[filePath]) =>
              Suffix(temp, log[filePath] \o fragment[filePath])
<1>1. /\ file[filePath] \in Seq(Line) /\ fragment[filePath] \in Seq(Line)
      /\ log[filePath] \in Seq(Line) /\ maxEntries \in 0..Len(file[filePath])
  BY TypeFacts DEF RotationInv
<1>2. temp = SubSeq(file[filePath], Len(file[filePath]) - maxEntries + 1, Len(file[filePath]))
               \o fragment[filePath]
  BY DEF RotationInv
<1> DEFINE f == file[filePath]
<1> DEFINE g == fragment[filePath]
<1> DEFINE t == log[filePath]
<1> DEFINE kept == SubSeq(f, Len(f) - maxEntries + 1, Len(f)) \o g
<1> HIDE DEF f, g, t
<1>3. /\ kept \in Seq(Line) /\ Len(kept) = maxEntries + Len(g)
      /\ Suffix(f, t) => Suffix(kept, t \o g)
  <2>1. f \in Seq(Line) /\ g \in Seq(Line) /\ t \in Seq(Line) /\ maxEntries \in 0..Len(f)
    BY <1>1 DEF f, g, t
  <2>. QED
    BY <2>1, SuffixCopied
<1>4. temp = kept
  BY <1>2 DEF f, g
<1>. QED
  BY <1>3, <1>4 DEF f, g, t

LEMMA FlagStep ==
  ASSUME FlagTypes, [HistoryNext]_historyVars
  PROVE  FlagTypes'
  BY Zenon DEF FlagTypes, HistoryNext, RotationStep, RotationFault, historyVars, loggerVars,
     diskVars, AppendEntry, AppendFails, Clear, Maintenance, UpdateConfig, NewLogger, CheckSkips,
     CheckMiscounts, CheckCounts, Copy, RotationFails, Rename, LoggerDies

LEMMA TypeStep ==
  ASSUME DataTypes, RotationInv, [HistoryNext]_historyVars
  PROVE  DataTypes' /\ RotationInv'
<1>0. /\ filePath \in Paths /\ maxEntries \in Nat
      /\ file[filePath] \in Seq(Line) /\ fragment[filePath] \in Seq(Line)
      /\ log[filePath] \in Seq(Line)
      /\ Len(file[filePath]) \in Nat /\ Len(fragment[filePath]) \in 0..1
      /\ NewLine \in Line /\ Malformed \in Line
  BY TypeFacts
<1>e. <<>> \in Seq(Line) /\ Len(<<>>) = 0
  BY EmptySeq
<1>1. CASE AppendEntry
  <2>1. Append(file[filePath], NewLine) \in Seq(Line) /\ Append(log[filePath], NewLine) \in Seq(Line)
    BY <1>0, AppendProperties
  <2>2. step' \in {"idle", "check"}
    BY <1>1 DEF AppendEntry, AfterAppend
  <2>. QED
    BY <1>0, <1>1, <1>e, <2>1, <2>2 DEF AppendEntry, DataTypes, RotationInv
<1>2. CASE AppendFails
  <2>1. PICK left \in {fragment[filePath], <<Malformed>>, <<NewLine>>} :
               fragment' = [fragment EXCEPT ![filePath] = left]
    BY <1>2 DEF AppendFails
  <2>2. ASSUME NEW part \in Line PROVE <<part>> \in Seq(Line) /\ Len(<<part>>) = 1
    OBVIOUS
  <2>3. left \in Seq(Line) /\ Len(left) <= 1
    <3>1. CASE left = fragment[filePath]
      BY <1>0, <3>1 DEF DataTypes
    <3>2. CASE left = <<Malformed>>
      BY <1>0, <2>2, <3>2
    <3>3. CASE left = <<NewLine>>
      BY <1>0, <2>2, <3>3
    <3>. QED
      BY <2>1, <3>1, <3>2, <3>3
  <2>. QED
    BY <1>0, <1>2, <2>1, <2>3 DEF AppendFails, loggerVars, DataTypes, RotationInv
<1>3. CASE Clear
  BY <1>0, <1>3, <1>e DEF Clear, DataTypes, RotationInv
<1>4. CASE Maintenance
  BY <1>4 DEF Maintenance, loggerVars, diskVars, DataTypes, RotationInv
<1>5. ASSUME NEW p \in Paths, NEW max \in Limits, UpdateConfig(p, max) \/ NewLogger(p, max)
      PROVE  DataTypes' /\ RotationInv'
  <2>1. Len(file[p]) \in Nat
    BY LenProperties DEF DataTypes
  <2>. QED
    BY <1>5, <2>1 DEF UpdateConfig, NewLogger, diskVars, DataTypes, RotationInv
<1>6. CASE CheckSkips
  BY <1>6 DEF CheckSkips, loggerVars, diskVars, DataTypes, RotationInv
<1>7. CASE CheckMiscounts
  BY <1>0, <1>7 DEF CheckMiscounts, diskVars, DataTypes, RotationInv
<1>8. CASE CheckCounts
  BY <1>0, <1>8 DEF CheckCounts, diskVars, DataTypes, RotationInv
<1>9. CASE Copy
  <2>1. maxEntries \in 0..Len(file[filePath])
    BY <1>0, <1>9 DEF Copy, RotationInv
  <2>2. temp' \in Seq(Line)
    BY <1>0, <1>9, <2>1, SuffixCopied DEF Copy
  <2>. QED
    BY <1>0, <1>9, <2>2 DEF Copy, loggerVars, DataTypes, RotationInv
<1>10. CASE RotationFails
  BY <1>10, <1>e DEF RotationFails, loggerVars, DataTypes, RotationInv
<1>11. CASE Rename
  <2>1. temp \in Seq(Line) /\ Len(temp) \in Nat
    BY <1>11, LenProperties DEF DataTypes
  <2>2. log[filePath] \o fragment[filePath] \in Seq(Line)
    BY <1>0, ConcatProperties
  <2>. QED
    BY <1>0, <1>11, <1>e, <2>1, <2>2 DEF Rename, DataTypes, RotationInv
<1>12. CASE LoggerDies
  BY <1>12, <1>e DEF LoggerDies, loggerVars, DataTypes, RotationInv
<1>13. CASE UNCHANGED historyVars
  BY <1>13 DEF historyVars, loggerVars, diskVars, DataTypes, RotationInv
<1>. QED
  BY <1>1, <1>2, <1>3, <1>4, <1>5, <1>6, <1>7, <1>8, <1>9, <1>10, <1>11, <1>12, <1>13
  DEF HistoryNext, RotationStep, RotationFault
-----------------------------------------------------------------------------
LEMMA CountStep ==
  ASSUME DataTypes, RotationInv, CountExact, [HistoryNext]_historyVars
  PROVE  CountExact'
<1> SUFFICES ASSUME counted' PROVE entryCount' = Len(file'[filePath'])
  BY DEF CountExact
<1>0. /\ filePath \in Paths /\ file \in [Paths -> Seq(Line)] /\ file[filePath] \in Seq(Line)
      /\ NewLine \in Line
  BY TypeFacts DEF DataTypes
<1>1. CASE AppendEntry
  <2>1. Len(Append(file[filePath], NewLine)) = Len(file[filePath]) + 1
    BY <1>0, AppendProperties
  <2>2. /\ filePath' = filePath /\ file'[filePath] = Append(file[filePath], NewLine)
        /\ entryCount' = entryCount + 1
    BY <1>0, <1>1 DEF AppendEntry
  <2>3. entryCount = Len(file[filePath])
    BY <1>1 DEF AppendEntry, CountExact
  <2>. QED
    BY <2>1, <2>2, <2>3
<1>2. CASE AppendFails \/ Maintenance \/ CheckSkips \/ Copy \/ RotationFails
  BY <1>2 DEF AppendFails, Maintenance, CheckSkips, Copy, RotationFails, loggerVars, diskVars,
     CountExact
<1>3. CASE Clear
  <2>1. entryCount' = 0 /\ file'[filePath'] = <<>>
    BY <1>0, <1>3 DEF Clear
  <2>. QED
    BY <2>1, EmptySeq
<1>4. ASSUME NEW p \in Paths, NEW max \in Limits, UpdateConfig(p, max) PROVE entryCount' = Len(file'[filePath'])
  <2>1. counted /\ p = filePath
    BY <1>4, Zenon DEF UpdateConfig
  <2>. QED
    BY <1>4, <2>1 DEF UpdateConfig, diskVars, CountExact
<1>5. ASSUME NEW p \in Paths, NEW max \in Limits, NewLogger(p, max) PROVE entryCount' = Len(file'[filePath'])
  BY <1>5 DEF NewLogger, diskVars
<1>6. CASE CheckMiscounts \/ LoggerDies
  BY <1>6, Zenon DEF CheckMiscounts, LoggerDies
<1>7. CASE CheckCounts
  BY <1>7 DEF CheckCounts, diskVars, CountExact
<1>8. CASE Rename
  BY <1>0, <1>8 DEF Rename
<1>9. CASE UNCHANGED historyVars
  BY <1>9 DEF historyVars, loggerVars, diskVars, CountExact
<1>. QED
  BY <1>1, <1>2, <1>3, <1>4, <1>5, <1>6, <1>7, <1>8, <1>9
  DEF HistoryNext, RotationStep, RotationFault

(* How far the file of a counted, trimmed log is from its limit: since the *)
(* last rotation check at most appendCount % RotateEvery lines came.       *)
Lag ==
  counted /\ trimmed =>
    Len(file[filePath]) <= maxEntries + 1 +
      (IF step = "idle" THEN appendCount % RotateEvery ELSE RotateEvery)

LEMMA LagStep ==
  ASSUME DataTypes, RotationInv, CountExact, Lag, [HistoryNext]_historyVars
  PROVE  Lag'
<1> DEFINE len == Len(file[filePath])
<1> DEFINE r == appendCount % RotateEvery
<1> SUFFICES ASSUME counted', trimmed'
             PROVE  Len(file'[filePath']) <= maxEntries' + 1 +
                      (IF step' = "idle" THEN appendCount' % RotateEvery ELSE RotateEvery)
  BY DEF Lag
<1>0. /\ filePath \in Paths /\ file \in [Paths -> Seq(Line)] /\ file[filePath] \in Seq(Line)
      /\ NewLine \in Line /\ maxEntries \in Nat /\ len \in Nat /\ RotateEvery \in Nat \ {0}
      /\ appendCount \in Nat
  BY TypeFacts, HistoryAssumption DEF DataTypes
<1>r. r \in 0..(RotateEvery - 1)
  BY <1>0, DivMod
<1>1. CASE AppendEntry
  <2>1. Len(Append(file[filePath], NewLine)) = len + 1
    BY <1>0, AppendProperties
  <2>2. /\ filePath' = filePath /\ file'[filePath] = Append(file[filePath], NewLine)
        /\ maxEntries' = maxEntries /\ appendCount' = appendCount + 1
        /\ step = "idle" /\ step' = IF appendCount' % RotateEvery = 0 THEN "check" ELSE "idle"
    BY <1>0, <1>1 DEF AppendEntry, AfterAppend
  <2>3. len <= maxEntries + 1 + r
    BY <1>1, <2>2 DEF AppendEntry, Lag
  <2>4. (appendCount + 1) % RotateEvery = 0 \/ (appendCount + 1) % RotateEvery = r + 1
    BY <1>0, NextModulo
  <2> HIDE DEF len, r
  <2>5. CASE (appendCount + 1) % RotateEvery = 0
    BY <1>0, <1>r, <2>1, <2>2, <2>3, <2>5
  <2>6. CASE (appendCount + 1) % RotateEvery = r + 1
    BY <1>0, <1>r, <2>1, <2>2, <2>3, <2>6
  <2>. QED
    BY <2>4, <2>5, <2>6
<1> HIDE DEF len, r
<1>2. CASE AppendFails
  BY <1>2 DEF AppendFails, loggerVars, Lag
<1>3. CASE Clear
  <2>1. file'[filePath'] = <<>> /\ maxEntries' = maxEntries /\ step' = "idle" /\ appendCount' = 0
    BY <1>0, <1>3 DEF Clear
  <2>2. 0 % RotateEvery \in Nat
    BY <1>0, DivMod
  <2>. QED
    BY <1>0, <2>1, <2>2, EmptySeq
<1>4. CASE Maintenance
  <2>1. len <= maxEntries + 1 + r
    BY <1>4 DEF Maintenance, Lag, len, r
  <2>2. Len(file'[filePath']) = len /\ maxEntries' = maxEntries /\ step' = "check"
    BY <1>4 DEF Maintenance, loggerVars, diskVars, len
  <2>. QED
    BY <1>0, <1>r, <2>1, <2>2
<1>5. ASSUME NEW p \in Paths, NEW max \in Limits, UpdateConfig(p, max) \/ NewLogger(p, max)
      PROVE  FALSE
  BY <1>5, Zenon DEF UpdateConfig, NewLogger
<1>6. CASE CheckSkips
  <2>1. len <= maxEntries
    BY <1>6 DEF CheckSkips, CountExact, len
  <2>2. /\ Len(file'[filePath']) = len /\ maxEntries' = maxEntries /\ step' = "idle"
        /\ appendCount' % RotateEvery = r
    BY <1>6 DEF CheckSkips, loggerVars, diskVars, len, r
  <2>. QED
    BY <1>0, <1>r, <2>1, <2>2
<1>7. CASE CheckMiscounts \/ RotationFails \/ LoggerDies
  BY <1>7, Zenon DEF CheckMiscounts, RotationFails, LoggerDies
<1>8. CASE CheckCounts
  <2>1. Len(file'[filePath']) = len /\ maxEntries' = maxEntries /\ appendCount' % RotateEvery = r
    BY <1>8 DEF CheckCounts, diskVars, len, r
  <2>2. CASE len <= maxEntries
    <3>1. step' = "idle"
      BY <1>8, <2>2 DEF CheckCounts, len
    <3>. QED
      BY <1>0, <1>r, <2>1, <2>2, <3>1
  <2>3. CASE ~(len <= maxEntries)
    <3>1. step = "check" /\ step' = "copy" /\ counted /\ trimmed
      BY <1>8, <2>3 DEF CheckCounts, len
    <3>2. len <= maxEntries + 1 + RotateEvery
      BY <3>1 DEF Lag, len
    <3>. QED
      BY <2>1, <3>1, <3>2
  <2>. QED
    BY <2>2, <2>3
<1>9. CASE Copy
  BY <1>9 DEF Copy, loggerVars, Lag
<1>10. CASE Rename
  <2> DEFINE n == Len(fragment[filePath])
  <2>1. Len(temp) = maxEntries + n /\ n \in 0..1
    BY <1>10, TempFacts, TypeFacts DEF Rename
  <2>2. /\ file'[filePath'] = temp /\ maxEntries' = maxEntries /\ step' = "idle"
        /\ appendCount' % RotateEvery = r
    BY <1>0, <1>10 DEF Rename, r
  <2> HIDE DEF n
  <2>. QED
    BY <1>0, <1>r, <2>1, <2>2
<1>11. CASE UNCHANGED historyVars
  BY <1>11 DEF historyVars, loggerVars, diskVars, Lag
<1>. QED
  BY <1>1, <1>2, <1>3, <1>4, <1>5, <1>6, <1>7, <1>8, <1>9, <1>10, <1>11
  DEF HistoryNext, RotationStep, RotationFault

LEMMA NewestStep ==
  ASSUME DataTypes, RotationInv, NewestLinesKept, [HistoryNext]_historyVars
  PROVE  NewestLinesKept'
<1>0. /\ filePath \in Paths /\ file[filePath] \in Seq(Line) /\ log[filePath] \in Seq(Line)
      /\ NewLine \in Line
      /\ file \in [Paths -> Seq(Line)] /\ log \in [Paths -> Seq(Line)]
  BY TypeFacts DEF DataTypes
<1>1. \A p \in Paths : Suffix(file[p], log[p])
  BY DEF NewestLinesKept
<1>2. CASE AppendEntry
  <2>1. /\ file' = [file EXCEPT ![filePath] = Append(@, NewLine)]
        /\ log' = [log EXCEPT ![filePath] = Append(@, NewLine)]
    BY <1>2 DEF AppendEntry
  <2>2. Suffix(Append(file[filePath], NewLine), Append(log[filePath], NewLine))
    BY <1>0, <1>1, SuffixAppend
  <2>3. \A p \in Paths : Suffix(file'[p], log'[p])
    BY <1>0, <1>1, <2>1, <2>2
  <2>. QED
    BY <2>3 DEF NewestLinesKept
<1>3. CASE Clear
  <2>1. file' = [file EXCEPT ![filePath] = <<>>] /\ log' = [log EXCEPT ![filePath] = <<>>]
    BY <1>3 DEF Clear
  <2>2. Suffix(<<>>, <<>>)
    BY EmptySeq, SuffixOfEmpty
  <2>3. \A p \in Paths : Suffix(file'[p], log'[p])
    BY <1>0, <1>1, <2>1, <2>2
  <2>. QED
    BY <2>3 DEF NewestLinesKept
<1>4. CASE Rename
  <2>1. /\ file' = [file EXCEPT ![filePath] = temp]
        /\ log' = [log EXCEPT ![filePath] = @ \o fragment[filePath]]
    BY <1>4 DEF Rename
  <2>2. Suffix(temp, log[filePath] \o fragment[filePath])
    BY <1>0, <1>1, <1>4, TempFacts DEF Rename
  <2>3. \A p \in Paths : Suffix(file'[p], log'[p])
    BY <1>0, <1>1, <2>1, <2>2
  <2>. QED
    BY <2>3 DEF NewestLinesKept
<1>5. CASE UNCHANGED <<file, log>>
  BY <1>1, <1>5 DEF NewestLinesKept
<1>6. ASSUME NEW p \in Paths, NEW max \in Limits, UpdateConfig(p, max) \/ NewLogger(p, max)
      PROVE  UNCHANGED <<file, log>>
  BY <1>6 DEF UpdateConfig, NewLogger, diskVars
<1>7. ASSUME AppendFails \/ Maintenance \/ RotationFault \/ LoggerDies
             \/ CheckSkips \/ CheckCounts \/ Copy \/ UNCHANGED historyVars
      PROVE  UNCHANGED <<file, log>>
  BY <1>7 DEF AppendFails, Maintenance, RotationFault, RotationFails, CheckMiscounts, LoggerDies,
     CheckSkips, CheckCounts, Copy, loggerVars, diskVars, historyVars
<1>. QED
  BY <1>2, <1>3, <1>4, <1>5, <1>6, <1>7 DEF HistoryNext, RotationStep
-----------------------------------------------------------------------------
HistoryInv == DataTypes /\ FlagTypes /\ RotationInv /\ CountExact /\ Lag /\ NewestLinesKept

LEMMA HistoryInitial == HistoryInit => HistoryInv
<1> SUFFICES ASSUME HistoryInit PROVE HistoryInv
  OBVIOUS
<1>1. <<>> \in Seq(Line) /\ Len(<<>>) = 0
  BY EmptySeq
<1>2. DataTypes /\ RotationInv /\ CountExact
  BY <1>1, HistoryAssumption DEF HistoryInit, DataTypes, RotationInv, CountExact
<1>3. FlagTypes
  BY Zenon DEF HistoryInit, FlagTypes
<1>4. Lag
  <2>1. file[filePath] = <<>> /\ appendCount = 0 /\ maxEntries \in Nat /\ step = "idle"
    BY HistoryAssumption DEF HistoryInit
  <2>2. 0 % RotateEvery \in 0..(RotateEvery - 1) /\ RotateEvery \in Nat \ {0}
    BY HistoryAssumption, DivMod
  <2>. QED
    BY <1>1, <2>1, <2>2 DEF Lag
<1>5. \A p \in Paths : file[p] = <<>> /\ log[p] = <<>>
  BY DEF HistoryInit
<1>6. Suffix(<<>>, <<>>)
  BY <1>1, SuffixOfEmpty
<1>7. NewestLinesKept
  BY <1>5, <1>6 DEF NewestLinesKept
<1>. QED
  BY <1>2, <1>3, <1>4, <1>7 DEF HistoryInv

LEMMA HistoryInductive == HistoryInv /\ [HistoryNext]_historyVars => HistoryInv'
  BY FlagStep, TypeStep, CountStep, LagStep, NewestStep DEF HistoryInv

LEMMA HistoryAlways == HistorySpec => []HistoryInv
  BY HistoryInitial, HistoryInductive, PTL DEF HistorySpec

(* Types, for any number of appends and faults.                            *)
THEOREM HistoryTypes == HistorySpec => []HistoryTypeOK
<1>1. HistoryInv => HistoryTypeOK
  BY TypesSplit DEF HistoryInv
<1>. QED
  BY <1>1, HistoryAlways, PTL

(* The counter that Append advances and rotation resets is the number of   *)
(* lines of the file, whatever fails and wherever the process dies.        *)
THEOREM CounterIsExact == HistorySpec => []CountExact
<1>1. HistoryInv => CountExact
  BY DEF HistoryInv
<1>. QED
  BY <1>1, HistoryAlways, PTL

(* For every limit and rotation period the file outgrows the limit by less *)
(* than a rotation period between two checks that did their work.          *)
THEOREM FileStaysNearLimit == HistorySpec => []OvershootBounded
<1>1. HistoryInv => OvershootBounded
  <2> SUFFICES ASSUME HistoryInv, counted, trimmed
               PROVE  Len(file[filePath]) <= maxEntries + RotateEvery
                                               + (IF step = "idle" THEN 0 ELSE 1)
    BY DEF OvershootBounded
  <2> DEFINE len == Len(file[filePath])
  <2>1. /\ len \in Nat /\ maxEntries \in Nat /\ RotateEvery \in Nat \ {0}
        /\ appendCount % RotateEvery \in 0..(RotateEvery - 1)
    BY TypeFacts, DivMod, HistoryAssumption DEF HistoryInv, DataTypes
  <2>2. len <= maxEntries + 1 +
          (IF step = "idle" THEN appendCount % RotateEvery ELSE RotateEvery)
    BY DEF HistoryInv, Lag
  <2> HIDE DEF len
  <2>3. len <= maxEntries + RotateEvery + (IF step = "idle" THEN 0 ELSE 1)
    BY <2>1, <2>2
  <2>. QED
    BY <2>3 DEF len
<1>. QED
  BY <1>1, HistoryAlways, PTL

(* The file holds the newest of the lines ever written to it, in order.    *)
THEOREM NewestLinesSurvive == HistorySpec => []NewestLinesKept
<1>1. HistoryInv => NewestLinesKept
  BY DEF HistoryInv
<1>. QED
  BY <1>1, HistoryAlways, PTL

(* No rotation leaves fewer than maxEntries lines, and none touches        *)
(* another file.                                                           *)
THEOREM RotationIsGentle == HistorySpec => RotationKeepsLimit
<1>1. ASSUME HistoryInv, [HistoryNext]_historyVars
      PROVE  [\A p \in Paths :
                \/ Len(file'[p]) >= Len(file[p])
                \/ log'[p] = <<>>
                \/ p = filePath /\ Len(file'[p]) >= maxEntries]_historyVars
  <2> SUFFICES ASSUME NEW p \in Paths
               PROVE  \/ Len(file'[p]) >= Len(file[p])
                      \/ log'[p] = <<>>
                      \/ p = filePath /\ Len(file'[p]) >= maxEntries
    OBVIOUS
  <2>0. /\ DataTypes /\ RotationInv
        /\ filePath \in Paths /\ file \in [Paths -> Seq(Line)] /\ log \in [Paths -> Seq(Line)]
        /\ file[p] \in Seq(Line) /\ Len(file[p]) \in Nat /\ NewLine \in Line /\ maxEntries \in Nat
    BY <1>1, TypeFacts, LenProperties DEF HistoryInv, DataTypes
  <2>1. CASE AppendEntry
    <3>1. Len(Append(file[p], NewLine)) = Len(file[p]) + 1
      BY <2>0, AppendProperties
    <3>2. file'[p] = file[p] \/ file'[p] = Append(file[p], NewLine)
      BY <2>0, <2>1 DEF AppendEntry
    <3>. QED
      BY <2>0, <3>1, <3>2
  <2>2. CASE Clear
    <3>1. p = filePath => log'[p] = <<>>
      BY <2>0, <2>2 DEF Clear
    <3>2. p # filePath => file'[p] = file[p]
      BY <2>0, <2>2 DEF Clear
    <3>. QED
      BY <2>0, <3>1, <3>2
  <2>3. CASE Rename
    <3> DEFINE n == Len(fragment[filePath])
    <3>1. Len(temp) = maxEntries + n /\ n \in 0..1
      BY <2>0, <2>3, TempFacts, TypeFacts DEF Rename
    <3>2. p = filePath => file'[p] = temp
      BY <2>0, <2>3 DEF Rename
    <3>3. p # filePath => file'[p] = file[p]
      BY <2>0, <2>3 DEF Rename
    <3> HIDE DEF n
    <3>4. Len(temp) >= maxEntries
      BY <2>0, <3>1
    <3>. QED
      BY <2>0, <3>2, <3>3, <3>4
  <2>4. CASE file' = file
    BY <2>0, <2>4
  <2>5. ASSUME NEW q \in Paths, NEW max \in Limits, UpdateConfig(q, max) \/ NewLogger(q, max)
        PROVE  file' = file
    BY <2>5 DEF UpdateConfig, NewLogger, diskVars
  <2>6. ASSUME AppendFails \/ Maintenance \/ RotationFault \/ LoggerDies
               \/ CheckSkips \/ CheckCounts \/ Copy \/ UNCHANGED historyVars
        PROVE  file' = file
    BY <2>6 DEF AppendFails, Maintenance, RotationFault, RotationFails, CheckMiscounts, LoggerDies,
       CheckSkips, CheckCounts, Copy, loggerVars, diskVars, historyVars
  <2>. QED
    BY <1>1, <2>1, <2>2, <2>3, <2>4, <2>5, <2>6 DEF HistoryNext, RotationStep
<1>. QED
  BY <1>1, HistoryAlways, PTL DEF HistorySpec, RotationKeepsLimit
=============================================================================
