-------------------------- MODULE ConfigStoreProofs --------------------------
(***************************************************************************)
(* Proofs about ConfigStore, for any environments, users, number of        *)
(* requests under way, what they ask for, and crashes.                     *)
(***************************************************************************)
EXTENDS ConfigStore, FiniteSetTheorems, TLAPS

(* Sorted lists every member of a finite set of numbers once, in ascending *)
(* order.                                                                  *)
LEMMA SortedFacts ==
  ASSUME NEW S \in SUBSET Int, IsFiniteSet(S)
  PROVE  /\ Cardinality(S) \in Nat
         /\ Sorted(S) \in [1..Cardinality(S) -> S]
         /\ \A i, j \in 1..Cardinality(S) : i < j => Sorted(S)[i] < Sorted(S)[j]
         /\ \A i, j \in 1..Cardinality(S) : Sorted(S)[i] = Sorted(S)[j] => i = j
         /\ \A x \in S : \E i \in 1..Cardinality(S) : Sorted(S)[i] = x
<1> DEFINE n == Cardinality(S)
           Below(x) == {y \in S : y < x}
           rank == [x \in S |-> Cardinality(Below(x))]
<1>1. n \in Nat
  BY FS_CardinalityType
<1>2. ASSUME NEW x \in S
      PROVE  IsFiniteSet(Below(x)) /\ rank[x] \in Nat /\ rank[x] < n
  <2>1. Below(x) \in SUBSET S /\ x \in S /\ x \notin Below(x)
    BY <1>2
  <2>2. IsFiniteSet(Below(x)) /\ Cardinality(Below(x)) <= n /\ Cardinality(Below(x)) # n
    BY <2>1, FS_Subset
  <2>. QED
    BY <1>1, <2>2, FS_CardinalityType
<1>3. ASSUME NEW x \in S, NEW y \in S, x < y PROVE rank[x] < rank[y]
  <2>1. x \in Int /\ y \in Int /\ \A z \in S : z \in Int
    OBVIOUS
  <2>2. \A z \in S : z < x => z < y
    BY <1>3, <2>1
  <2>3. x \in Below(y)
    BY <1>3
  <2>4. x \notin Below(x)
    BY <2>1
  <2>5. Below(x) \in SUBSET Below(y) /\ x \in Below(y) /\ x \notin Below(x)
    BY <2>2, <2>3, <2>4, Zenon
  <2>6. IsFiniteSet(Below(y)) /\ Below(x) # Below(y)
    BY <1>2, <2>5
  <2> HIDE DEF Below
  <2>7. Cardinality(Below(x)) <= Cardinality(Below(y)) /\ Cardinality(Below(x)) # Cardinality(Below(y))
    BY <2>6, <2>5, FS_Subset
  <2>8. rank[x] \in Nat /\ rank[y] \in Nat
    BY <1>2
  <2>. QED
    BY <2>7, <2>8
<1> HIDE DEF Below
<1>4. rank \in [S -> 0..(n - 1)]
  BY <1>1, <1>2
<1>5. \A x, y \in S : rank[x] = rank[y] => x = y
  BY <1>3, <1>4
<1>6. \A r \in 0..(n - 1) : \E x \in S : rank[x] = r
  <2>1. rank \in Injection(S, 0..(n - 1))
    BY <1>4, <1>5 DEF Injection, IsInjective
  <2>2. IsFiniteSet(0..(n - 1)) /\ Cardinality(0..(n - 1)) = n
    BY <1>1, FS_Interval
  <2>3. rank \in Surjection(S, 0..(n - 1))
    BY <2>1, <2>2, FS_Injection
  <2>. QED
    BY <2>3, Zenon DEF Surjection
<1>7. ASSUME NEW i \in 1..n PROVE Sorted(S)[i] \in S /\ rank[Sorted(S)[i]] = i - 1
  <2>1. Sorted(S)[i] = CHOOSE x \in S : Cardinality(Below(x)) = i - 1
    BY Zenon DEF Sorted, Below
  <2>2. PICK x \in S : Cardinality(Below(x)) = i - 1
    BY <1>1, <1>6
  <2>. QED
    BY <2>1, <2>2
<1>8. Sorted(S) \in [1..n -> S]
  BY <1>7, Zenon DEF Sorted
<1> DEFINE s == Sorted(S)
<1>12. /\ \A i \in 1..n : s[i] \in S /\ rank[s[i]] = i - 1
       /\ \A x, y \in S : x < y => rank[x] < rank[y]
       /\ \A x \in S : rank[x] \in Nat /\ x \in Int
  BY <1>2, <1>3, <1>7
<1> HIDE DEF rank, n, s
<1>9. \A i, j \in 1..n : i < j => s[i] < s[j]
  <2> SUFFICES ASSUME NEW i \in 1..n, NEW j \in 1..n, i < j, ~(s[i] < s[j]) PROVE FALSE
    OBVIOUS
  <2>1. /\ s[i] \in Int /\ s[j] \in Int /\ rank[s[i]] = i - 1 /\ rank[s[j]] = j - 1
        /\ s[j] < s[i] => rank[s[j]] < rank[s[i]]
    BY <1>12, Zenon
  <2>2. s[j] < s[i] \/ s[i] = s[j]
    BY <2>1
  <2>. QED
    BY <1>1, <2>1, <2>2
<1>10. \A x \in S : \E i \in 1..n : s[i] = x
  <2> SUFFICES ASSUME NEW x \in S PROVE \E i \in 1..n : s[i] = x
    OBVIOUS
  <2>1. rank[x] \in 0..(n - 1)
    BY <1>4
  <2> DEFINE i == rank[x] + 1
  <2>2. i \in 1..n /\ i - 1 = rank[x]
    BY <1>1, <2>1
  <2> HIDE DEF i
  <2>3. s[i] \in S /\ rank[s[i]] = rank[x]
    BY <1>12, <2>2
  <2>4. s[i] = x
    BY <1>5, <2>3, Zenon
  <2>. QED
    BY <2>2, <2>4
<1>11. \A i, j \in 1..n : s[i] = s[j] => i = j
  BY <1>1, <1>12
<1>. QED
  BY <1>1, <1>8, <1>9, <1>10, <1>11 DEF n, s

(* The greatest of a finite set of numbers.                                *)
LEMMA LatestFacts ==
  ASSUME NEW S \in SUBSET Int, IsFiniteSet(S), S # {}
  PROVE  Latest(S) \in S
<1> DEFINE n == Cardinality(S)
<1>1. n \in Nat /\ n # 0
  BY FS_CardinalityType, FS_EmptySet
<1>2. Sorted(S)[n] \in S
  BY <1>1, SortedFacts
<1>3. ASSUME NEW y \in S PROVE y <= Sorted(S)[n]
  <2>1. PICK i \in 1..n : Sorted(S)[i] = y
    BY SortedFacts
  <2>2. CASE i = n
    BY <1>2, <2>1, <2>2
  <2>3. CASE i < n
    <3>1. Sorted(S)[i] < Sorted(S)[n]
      BY <1>1, <2>3, SortedFacts
    <3>2. y \in Int /\ Sorted(S)[n] \in Int /\ y = Sorted(S)[i]
      BY <1>2, <2>1, Zenon
    <3>. QED
      BY <3>1, <3>2
  <2>. QED
    BY <1>1, <2>2, <2>3
<1> HIDE DEF n
<1>. QED
  BY <1>2, <1>3, Zenon DEF Latest
-----------------------------------------------------------------------------
LEMMA IsSequence ==
  ASSUME NEW S, NEW n \in Nat, NEW f \in [1..n -> S]
  PROVE  f \in Seq(S) /\ Len(f) = n
OBVIOUS

LEMMA ConfigShape ==
  ASSUME NEW sc \in StoredConfig
  PROVE  /\ sc.opts \in Options /\ sc.users \in [AccountNames -> Int]
         /\ sc.targets \in Seq(Target)
         /\ Len(sc.targets) \in Nat /\ DOMAIN sc.targets = 1..Len(sc.targets)
         /\ sc.targets \in [1..Len(sc.targets) -> Target]
         /\ \A i \in DOMAIN sc.targets :
              sc.targets[i] \in Target /\ sc.targets[i].keys \in Seq(Int)
<1>1. sc.opts \in Options /\ sc.users \in [AccountNames -> Int] /\ sc.targets \in Seq(Target)
  BY DEF StoredConfig
<1> DEFINE s == sc.targets
<1> HIDE DEF s
<1>2. s \in Seq(Target) => /\ Len(s) \in Nat /\ DOMAIN s = 1..Len(s) /\ s \in [1..Len(s) -> Target]
                           /\ \A i \in DOMAIN s : s[i] \in Target
  OBVIOUS
<1>3. \A t \in Target : t.keys \in Seq(Int)
  BY DEF Target
<1>. QED
  BY <1>1, <1>2, <1>3 DEF s

(* What the handlers make of the configuration they got.                   *)
DraftOK(e, sc, d) ==
  /\ d \in StoredConfig
  /\ DistinctIds(sc) /\ (backup # NoConfig => DistinctIds(backup)) => DistinctIds(d)
  /\ e.do # "import" => d.users = sc.users
  /\ d.opts.dry = "delete" => \/ sc.opts.dry = "delete"
                              \/ e.do = "patch" /\ e.dry = "delete"
                              \/ backup # NoConfig /\ backup.opts.dry = "delete"

LEMMA PatchDraft ==
  ASSUME NEW sc \in StoredConfig, NEW e \in EditRequests, e.do = "patch",
         NEW d \in PatchSettings(e, sc)
  PROVE  DraftOK(e, sc, d)
<1>1. e \in [do : {"patch"}, valid : BOOLEAN, addr : Int, force : BOOLEAN, secret : Int,
             dry : DrySettings \cup {"unset"}]
  BY DEF EditRequests
<1> DEFINE o == [addr |-> IF e.addr = 0 THEN sc.opts.addr ELSE e.addr,
                 force |-> e.force,
                 secret |-> IF e.secret \in {0, Mask} THEN sc.opts.secret ELSE e.secret,
                 dry |-> IF e.dry = "unset" THEN sc.opts.dry ELSE e.dry]
<1>2. d = [sc EXCEPT !.opts = o]
  BY DEF PatchSettings
<1>3. sc.opts \in Options
  BY DEF StoredConfig
<1>4. o \in Options
  BY <1>1, <1>3 DEF Options
<1>5. d.opts = o /\ d.targets = sc.targets /\ d.users = sc.users /\ d \in StoredConfig
  BY <1>2, <1>4 DEF StoredConfig
<1>6. o.dry = "delete" => sc.opts.dry = "delete" \/ e.dry = "delete"
  OBVIOUS
<1> HIDE DEF o
<1>. QED
  BY <1>5, <1>6 DEF DraftOK, DistinctIds

(* A draft that differs in the targets only.                               *)
LEMMA TargetsDraft ==
  ASSUME NEW sc \in StoredConfig, NEW e, NEW t \in Seq(Target),
         DistinctIds(sc) => \A i, j \in DOMAIN t : t[i].id = t[j].id => i = j
  PROVE  DraftOK(e, sc, [sc EXCEPT !.targets = t])
<1> DEFINE d == [sc EXCEPT !.targets = t]
<1>1. d \in StoredConfig /\ d.targets = t /\ d.opts = sc.opts /\ d.users = sc.users
  BY Zenon DEF StoredConfig
<1> HIDE DEF d
<1>2. DraftOK(e, sc, d)
  BY <1>1 DEF DraftOK, DistinctIds
<1>. QED
  BY <1>2 DEF d

LEMMA AddDraft ==
  ASSUME NEW sc \in StoredConfig, NEW e \in EditRequests, e.do = "add", NEW fresh \in Int,
         NEW d \in AddTarget(e, sc, fresh)
  PROVE  DraftOK(e, sc, d)
<1> DEFINE t == [e.target EXCEPT !.keys = IF @ = <<>> THEN <<fresh>> ELSE @]
           s == sc.targets
<1>1. e.target \in Target
  BY DEF EditRequests
<1>2. t \in Target /\ t.id = e.target.id
  <2> DEFINE k == IF e.target.keys = <<>> THEN <<fresh>> ELSE e.target.keys
  <2>1. e.target.keys \in Seq(Int) /\ <<fresh>> \in Seq(Int)
    BY <1>1 DEF Target
  <2>2. k \in Seq(Int)
    BY <2>1
  <2>3. t = [e.target EXCEPT !.keys = k]
    OBVIOUS
  <2> HIDE DEF k, t
  <2>. QED
    BY <1>1, <2>2, <2>3, Zenon DEF Target
<1>3. s \in Seq(Target)
  BY DEF StoredConfig
<1>4. \A i \in DOMAIN s : s[i].id # t.id
  BY <1>2 DEF AddTarget, Places
<1>5. d = [sc EXCEPT !.targets = Append(s, t)]
  BY DEF AddTarget
<1> HIDE DEF t, s
<1>6. Append(s, t) \in Seq(Target)
  BY <1>2, <1>3
<1>7. DistinctIds(sc) =>
        \A i, j \in DOMAIN Append(s, t) : Append(s, t)[i].id = Append(s, t)[j].id => i = j
  <2>1. DOMAIN s = 1..Len(s) /\ Len(s) \in Nat /\ DOMAIN Append(s, t) = 1..(Len(s) + 1)
    BY <1>2, <1>3
  <2>2. \A i \in 1..Len(s) : Append(s, t)[i] = s[i]
    BY <1>2, <1>3
  <2>3. Append(s, t)[Len(s) + 1] = t
    BY <1>2, <1>3
  <2>4. DistinctIds(sc) => \A i, j \in 1..Len(s) : s[i].id = s[j].id => i = j
    BY <2>1 DEF DistinctIds, s
  <2>. QED
    BY <1>4, <2>1, <2>2, <2>3, <2>4
<1>. QED
  BY <1>5, <1>6, <1>7, TargetsDraft, Zenon

LEMMA DropDraft ==
  ASSUME NEW sc \in StoredConfig, NEW e, NEW d \in DeleteTarget(e, sc)
  PROVE  DraftOK(e, sc, d)
<1> DEFINE s == sc.targets
           kept == DOMAIN s \ Places(sc, e.id)
           t == [n \in 1..Cardinality(kept) |-> s[Sorted(kept)[n]]]
<1>1. Len(s) \in Nat /\ DOMAIN s = 1..Len(s) /\ \A i \in DOMAIN s : s[i] \in Target
  BY ConfigShape
<1>2. kept \in SUBSET Int /\ kept \subseteq DOMAIN s /\ IsFiniteSet(kept)
  <2>1. kept \in SUBSET (1..Len(s)) /\ IsFiniteSet(1..Len(s))
    BY <1>1, FS_Interval
  <2>2. IsFiniteSet(kept)
    BY <2>1, FS_Subset
  <2>. QED
    BY <1>1, <2>1, <2>2
<1>3. d = [sc EXCEPT !.targets = t]
  BY Zenon DEF DeleteTarget
<1> HIDE DEF kept
<1> DEFINE n == Cardinality(kept)
           r == Sorted(kept)
<1>4. n \in Nat /\ r \in [1..n -> kept] /\ \A i, j \in 1..n : r[i] = r[j] => i = j
  BY <1>2, SortedFacts
<1>5. t = [i \in 1..n |-> s[r[i]]]
  OBVIOUS
<1> HIDE DEF n, r, t, s
<1>6. \A i \in 1..n : r[i] \in DOMAIN s /\ t[i] = s[r[i]] /\ s[r[i]] \in Target
  <2>1. \A i \in 1..n : r[i] \in DOMAIN s
    BY <1>2, <1>4, Zenon
  <2>. QED
    BY <1>1, <1>5, <2>1
<1>7. DOMAIN t = 1..n /\ t \in Seq(Target)
  <2>1. t \in [1..n -> Target]
    BY <1>6, <1>5
  <2>. QED
    BY <1>4, <2>1, IsSequence
<1>8. DistinctIds(sc) => \A i, j \in DOMAIN s : s[i].id = s[j].id => i = j
  BY DEF DistinctIds, s
<1>9. DistinctIds(sc) => \A i, j \in DOMAIN t : t[i].id = t[j].id => i = j
  BY <1>4, <1>6, <1>7, <1>8
<1>. QED
  BY <1>3, <1>7, <1>9, TargetsDraft, Zenon

(* A draft that differs in the keys of one target.                         *)
LEMMA KeysDraft ==
  ASSUME NEW sc \in StoredConfig, NEW e, NEW i \in DOMAIN sc.targets, NEW k \in Seq(Int)
  PROVE  DraftOK(e, sc, [sc EXCEPT !.targets[i].keys = k])
<1> DEFINE s == sc.targets
           t == [s EXCEPT ![i] = [s[i] EXCEPT !.keys = k]]
<1>1. s[i] \in Target /\ s \in [1..Len(s) -> Target] /\ Len(s) \in Nat /\ DOMAIN s = 1..Len(s)
  BY ConfigShape
<1>2. [s[i] EXCEPT !.keys = k] \in Target /\ [s[i] EXCEPT !.keys = k].id = s[i].id
  BY <1>1, Zenon DEF Target
<1>3. t \in Seq(Target) /\ DOMAIN t = DOMAIN s /\ \A j \in DOMAIN s : t[j].id = s[j].id
  <2> HIDE DEF s
  <2>1. /\ t \in [1..Len(s) -> Target] /\ DOMAIN t = DOMAIN s
        /\ \A j \in DOMAIN s : t[j].id = s[j].id
    BY <1>1, <1>2, Zenon
  <2> HIDE DEF t
  <2>. QED
    BY <1>1, <2>1, IsSequence
<1>4. [sc EXCEPT !.targets[i].keys = k] = [sc EXCEPT !.targets = t]
  BY DEF StoredConfig
<1>5. DistinctIds(sc) => \A j, o \in DOMAIN t : t[j].id = t[o].id => j = o
  BY <1>3 DEF DistinctIds
<1> HIDE DEF t
<1>. QED
  BY <1>3, <1>4, <1>5, TargetsDraft

LEMMA UnkeyDraft ==
  ASSUME NEW sc \in StoredConfig, NEW e \in EditRequests, e.do = "unkey",
         NEW d \in DeleteKey(e, sc)
  PROVE  DraftOK(e, sc, d)
<1>1. e.index \in Nat /\ e.index >= 1
  BY DEF EditRequests
<1>2. PICK i \in Places(sc, e.id) :
        /\ e.index <= Len(sc.targets[i].keys)
        /\ d = [sc EXCEPT !.targets[i].keys = WithoutKey(@, e.index)]
  BY DEF DeleteKey
<1>3. i \in DOMAIN sc.targets /\ sc.targets[i].keys \in Seq(Int)
  BY ConfigShape DEF Places
<1> DEFINE k == sc.targets[i].keys
<1>4. WithoutKey(k, e.index) \in Seq(Int)
  <2> DEFINE n == e.index
  <2>1. k \in Seq(Int) /\ n \in Nat /\ n >= 1 /\ n <= Len(k)
    BY <1>1, <1>2, <1>3
  <2> HIDE DEF k, n
  <2>2. SubSeq(k, 1, n - 1) \in Seq(Int)
    BY <2>1
  <2>3. SubSeq(k, n + 1, Len(k)) \in Seq(Int)
    BY <2>1
  <2>4. WithoutKey(k, n) \in Seq(Int)
    BY <2>2, <2>3 DEF WithoutKey
  <2>. QED
    BY <2>4 DEF n
<1>. QED
  BY <1>2, <1>3, <1>4, KeysDraft

LEMMA MintDraft ==
  ASSUME NEW sc \in StoredConfig, NEW e, NEW fresh \in Int, NEW d \in GenerateKey(e, sc, fresh)
  PROVE  DraftOK(e, sc, d)
<1>1. PICK i \in Places(sc, e.id) : d = [sc EXCEPT !.targets[i].keys = Append(@, fresh)]
  BY DEF GenerateKey
<1>2. i \in DOMAIN sc.targets /\ sc.targets[i].keys \in Seq(Int)
  BY ConfigShape DEF Places
<1>3. Append(sc.targets[i].keys, fresh) \in Seq(Int)
  BY <1>2
<1>. QED
  BY <1>1, <1>2, <1>3, KeysDraft, Zenon

(* Masking and restoring change keys and the secret, nothing else.         *)
LEMMA MaskedTarget ==
  ASSUME NEW t \in Target
  PROVE  /\ Masked(t) \in Target /\ Masked(t).id = t.id
         /\ Masked(t) = [t EXCEPT !.keys = [j \in DOMAIN t.keys |-> Mask]]
<1> DEFINE k == [j \in DOMAIN t.keys |-> Mask]
<1>1. t.keys \in Seq(Int)
  BY DEF Target
<1>2. Len(t.keys) \in Nat /\ DOMAIN t.keys = 1..Len(t.keys)
  BY <1>1
<1>3. k \in [1..Len(t.keys) -> Int]
  BY <1>2, ConfigAssumption
<1>4. Masked(t) = [t EXCEPT !.keys = k]
  BY DEF Masked
<1> HIDE DEF k
<1>5. k \in Seq(Int)
  BY <1>2, <1>3, IsSequence
<1>6. Masked(t) \in Target /\ Masked(t).id = t.id
  BY <1>4, <1>5 DEF Target
<1>. QED
  BY <1>4, <1>6 DEF k

LEMMA RestoredTarget ==
  ASSUME NEW t \in Target, NEW sc \in StoredConfig
  PROVE  Restored(t, sc) \in Target /\ Restored(t, sc).id = t.id
<1> DEFINE v(j) == IF t.keys[j] = Mask /\ StoredKeys(sc, t.id, j) # {}
                     THEN CHOOSE x \in StoredKeys(sc, t.id, j) : TRUE ELSE t.keys[j]
           k == [j \in DOMAIN t.keys |-> v(j)]
<1>1. t.keys \in Seq(Int)
  BY DEF Target
<1>2. Len(t.keys) \in Nat /\ DOMAIN t.keys = 1..Len(t.keys) /\ \A j \in DOMAIN t.keys : t.keys[j] \in Int
  BY <1>1
<1>3. ASSUME NEW j \in DOMAIN t.keys PROVE v(j) \in Int
  <2>1. ASSUME NEW x \in StoredKeys(sc, t.id, j) PROVE x \in Int
    <3>1. PICK p \in DOMAIN sc.targets : j <= Len(sc.targets[p].keys) /\ x = sc.targets[p].keys[j]
      BY <2>1 DEF StoredKeys, Places
    <3> DEFINE s == sc.targets[p].keys
    <3>2. s \in Seq(Int)
      BY ConfigShape
    <3> HIDE DEF s
    <3>3. j \in 1..Len(s)
      BY <1>2, <3>1, <3>2 DEF s
    <3>4. s[j] \in Int
      BY <3>2, <3>3
    <3>. QED
      BY <3>1, <3>4 DEF s
  <2>. QED
    BY <1>2, <2>1
<1>4. k \in [1..Len(t.keys) -> Int]
  BY <1>2, <1>3
<1>5. Restored(t, sc) = [t EXCEPT !.keys = k]
  BY DEF Restored
<1> HIDE DEF k
<1>6. k \in Seq(Int)
  BY <1>2, <1>4, IsSequence
<1>. QED
  BY <1>5, <1>6 DEF Target

LEMMA MaskShape ==
  ASSUME NEW sc \in StoredConfig
  PROVE  LET d == MaskConfig(sc)
             x == IF sc.opts.secret = 0 THEN 0 ELSE Mask
         IN  /\ d \in StoredConfig /\ d.users = sc.users
             /\ d.targets = [i \in 1..Len(sc.targets) |-> Masked(sc.targets[i])]
             /\ d.opts = [sc.opts EXCEPT !.secret = x] /\ d.opts.dry = sc.opts.dry
             /\ d.opts.secret = x
<1> DEFINE d == MaskConfig(sc)
           x == IF sc.opts.secret = 0 THEN 0 ELSE Mask
           t == [i \in 1..Len(sc.targets) |-> Masked(sc.targets[i])]
           o == [sc.opts EXCEPT !.secret = x]
<1>1. x \in Int
  BY ConfigAssumption
<1>2. DOMAIN sc.targets = 1..Len(sc.targets)
  BY ConfigShape
<1>3. t \in [1..Len(sc.targets) -> Target]
  BY ConfigShape, MaskedTarget
<1>4. d = [sc EXCEPT !.opts.secret = x, !.targets = t]
  BY <1>2 DEF MaskConfig
<1> HIDE DEF d, x, t
<1>5. d = [sc EXCEPT !.opts = o, !.targets = t]
  BY <1>4 DEF StoredConfig
<1>6. o \in Options /\ o.dry = sc.opts.dry /\ o.secret = x
  BY <1>1, ConfigShape DEF Options
<1>7. t \in Seq(Target)
  BY <1>3, ConfigShape, IsSequence
<1> HIDE DEF o
<1>8. d \in StoredConfig /\ d.targets = t /\ d.users = sc.users /\ d.opts = o
  BY <1>5, <1>6, <1>7, Zenon DEF StoredConfig
<1>. QED
  BY <1>6, <1>8 DEF d, x, t, o

LEMMA RestoreShape ==
  ASSUME NEW file \in StoredConfig, NEW sc \in StoredConfig
  PROVE  LET d == RestoreSecrets(file, sc)
             x == IF file.opts.secret \in {0, Mask} THEN sc.opts.secret ELSE file.opts.secret
         IN  /\ d \in StoredConfig /\ d.users = file.users
             /\ d.targets = [i \in 1..Len(file.targets) |-> Restored(file.targets[i], sc)]
             /\ d.opts = [file.opts EXCEPT !.secret = x] /\ d.opts.dry = file.opts.dry
<1> DEFINE d == RestoreSecrets(file, sc)
           x == IF file.opts.secret \in {0, Mask} THEN sc.opts.secret ELSE file.opts.secret
           t == [i \in 1..Len(file.targets) |-> Restored(file.targets[i], sc)]
           o == [file.opts EXCEPT !.secret = x]
<1>1. x \in Int
  BY ConfigShape DEF Options
<1>2. DOMAIN file.targets = 1..Len(file.targets)
  BY ConfigShape
<1>3. t \in [1..Len(file.targets) -> Target]
  BY ConfigShape, RestoredTarget
<1>4. d = [file EXCEPT !.opts.secret = x, !.targets = t]
  BY <1>2 DEF RestoreSecrets
<1> HIDE DEF d, x, t
<1>5. d = [file EXCEPT !.opts = o, !.targets = t]
  BY <1>4 DEF StoredConfig
<1>6. o \in Options /\ o.dry = file.opts.dry
  BY <1>1, ConfigShape, Zenon DEF Options
<1>7. t \in Seq(Target)
  BY <1>3, ConfigShape, IsSequence, Zenon
<1> HIDE DEF o
<1>8. d \in StoredConfig /\ d.targets = t /\ d.users = file.users /\ d.opts = o
  BY <1>5, <1>6, <1>7, Zenon DEF StoredConfig
<1>. QED
  BY <1>6, <1>8 DEF d, x, t, o

(* Masking and restoring leave the ids of the targets as they are.         *)
LEMMA MaskIds ==
  ASSUME NEW sc \in StoredConfig, DistinctIds(sc)
  PROVE  DistinctIds(MaskConfig(sc))
<1> DEFINE d == MaskConfig(sc)
<1>1. /\ DOMAIN sc.targets = 1..Len(sc.targets)
      /\ d.targets = [i \in 1..Len(sc.targets) |-> Masked(sc.targets[i])]
  BY ConfigShape, MaskShape, Zenon
<1>2. \A i \in 1..Len(sc.targets) : Masked(sc.targets[i]).id = sc.targets[i].id
  BY ConfigShape, MaskedTarget
<1> HIDE DEF d
<1>. QED
  BY <1>1, <1>2 DEF DistinctIds, d

LEMMA RestoreIds ==
  ASSUME NEW file \in StoredConfig, NEW sc \in StoredConfig, DistinctIds(file)
  PROVE  DistinctIds(RestoreSecrets(file, sc))
<1> DEFINE d == RestoreSecrets(file, sc)
<1>1. /\ DOMAIN file.targets = 1..Len(file.targets)
      /\ d.targets = [i \in 1..Len(file.targets) |-> Restored(file.targets[i], sc)]
  BY ConfigShape, RestoreShape, Zenon
<1>2. \A i \in 1..Len(file.targets) : Restored(file.targets[i], sc).id = file.targets[i].id
  BY ConfigShape, RestoredTarget
<1> HIDE DEF d
<1>. QED
  BY <1>1, <1>2 DEF DistinctIds, d

LEMMA ImportDraft ==
  ASSUME NEW sc \in StoredConfig, NEW e, e.do = "import",
         backup \in StoredConfig \cup {NoConfig}, NEW d \in ImportConfig(e, sc)
  PROVE  DraftOK(e, sc, d)
<1> DEFINE file == IF e.masked THEN MaskConfig(backup) ELSE backup
<1>1. backup # NoConfig /\ backup \in StoredConfig /\ d = RestoreSecrets(file, sc)
  BY DEF ImportConfig
<1>2. file \in StoredConfig /\ file.opts.dry = backup.opts.dry
  BY <1>1, MaskShape, Zenon
<1>3. DistinctIds(backup) => DistinctIds(file)
  BY <1>1, MaskIds
<1> HIDE DEF file
<1>4. d \in StoredConfig /\ d.opts.dry = file.opts.dry
  BY <1>1, <1>2, RestoreShape, Zenon
<1>5. DistinctIds(file) => DistinctIds(d)
  BY <1>1, <1>2, RestoreIds
<1>. QED
  BY <1>1, <1>2, <1>3, <1>4, <1>5 DEF DraftOK

(* Whatever a handler makes of a configuration is a configuration; the ids *)
(* of its targets stay distinct, the users change only by an import, and   *)
(* real pruning is not turned on unless the request or the backup says so. *)
LEMMA DraftsOK ==
  ASSUME NEW sc \in StoredConfig, NEW e \in EditRequests, e.do # "account",
         backup \in StoredConfig \cup {NoConfig}, NEW fresh \in Int,
         NEW d \in Drafts(e, sc, fresh)
  PROVE  DraftOK(e, sc, d)
<1>1. e.do \in {"patch", "add", "drop", "mint", "unkey", "import", "account"}
  BY DEF EditRequests
<1>2. CASE e.do = "patch"
  BY <1>2, PatchDraft DEF Drafts
<1>3. CASE e.do = "add"
  BY <1>3, AddDraft DEF Drafts
<1>4. CASE e.do = "drop"
  BY <1>4, DropDraft DEF Drafts
<1>5. CASE e.do = "unkey"
  BY <1>5, UnkeyDraft DEF Drafts
<1>6. CASE e.do = "mint"
  BY <1>6, MintDraft DEF Drafts
<1>7. CASE e.do = "import"
  BY <1>7, ImportDraft DEF Drafts
<1>. QED
  BY <1>1, <1>2, <1>3, <1>4, <1>5, <1>6, <1>7
-----------------------------------------------------------------------------
(* A masked target gets its own keys back: the target of its id is the one *)
(* it was made from, and the keys stand in the same places.                *)
LEMMA KeysComeBack ==
  ASSUME NEW sc \in StoredConfig, DistinctIds(sc), NEW i \in DOMAIN sc.targets
  PROVE  Restored(Masked(sc.targets[i]), sc) = sc.targets[i]
<1> DEFINE t == sc.targets[i]
           m == Masked(t)
           v(j) == IF m.keys[j] = Mask /\ StoredKeys(sc, m.id, j) # {}
                     THEN CHOOSE x \in StoredKeys(sc, m.id, j) : TRUE ELSE m.keys[j]
<1>1. t \in Target /\ t.keys \in Seq(Int)
  BY ConfigShape
<1>2. DOMAIN t.keys = 1..Len(t.keys) /\ Len(t.keys) \in Nat
  BY <1>1
<1>3. Places(sc, t.id) = {i}
  BY DEF Places, DistinctIds
<1>4. ASSUME NEW j \in DOMAIN t.keys PROVE StoredKeys(sc, t.id, j) = {t.keys[j]}
  <2>1. j <= Len(t.keys)
    BY <1>2
  <2>2. {o \in Places(sc, t.id) : j <= Len(sc.targets[o].keys)} = {i}
    BY <1>3, <2>1
  <2>. QED
    BY <2>2 DEF StoredKeys
<1> HIDE DEF t
<1>5. m.id = t.id /\ m.keys = [j \in DOMAIN t.keys |-> Mask] /\ m = [t EXCEPT !.keys = m.keys]
  BY <1>1 DEF Masked, Target
<1> HIDE DEF m
<1>6. ASSUME NEW j \in DOMAIN t.keys PROVE v(j) = t.keys[j]
  BY <1>4, <1>5
<1>7. DOMAIN m.keys = DOMAIN t.keys
  BY <1>5
<1>8. Restored(m, sc) = [m EXCEPT !.keys = [j \in DOMAIN m.keys |-> v(j)]]
  BY DEF Restored
<1>9. t.keys = [j \in DOMAIN t.keys |-> t.keys[j]]
  BY <1>1
<1>10. [j \in DOMAIN m.keys |-> v(j)] = t.keys
  BY <1>6, <1>7, <1>9
<1> HIDE DEF v
<1>. QED
  BY <1>1, <1>5, <1>8, <1>10 DEF m, t, Target

LEMMA MaskedCopy ==
  ASSUME NEW sc \in StoredConfig, DistinctIds(sc)
  PROVE  RestoreSecrets(MaskConfig(sc), sc) = sc
<1> DEFINE m == MaskConfig(sc)
           r == RestoreSecrets(m, sc)
           y == IF sc.opts.secret = 0 THEN 0 ELSE Mask
<1>1. /\ m \in StoredConfig /\ m.users = sc.users
      /\ m.targets = [i \in 1..Len(sc.targets) |-> Masked(sc.targets[i])]
      /\ m.opts = [sc.opts EXCEPT !.secret = y] /\ m.opts.secret = y
  BY MaskShape
<1>2. Len(sc.targets) \in Nat /\ DOMAIN sc.targets = 1..Len(sc.targets)
      /\ sc.targets \in [1..Len(sc.targets) -> Target] /\ sc.opts \in Options
  BY ConfigShape
<1>3. Len(m.targets) = Len(sc.targets)
  <2>1. \A i \in 1..Len(sc.targets) : Masked(sc.targets[i]) \in Target
    BY <1>2, MaskedTarget
  <2>2. m.targets \in [1..Len(sc.targets) -> Target]
    BY <1>1, <2>1
  <2>. QED
    BY <1>2, <2>2, IsSequence
<1> HIDE DEF m
<1>4. /\ r \in StoredConfig /\ r.users = m.users
      /\ r.targets = [i \in 1..Len(m.targets) |-> Restored(m.targets[i], sc)]
      /\ r.opts = [m.opts EXCEPT !.secret = IF m.opts.secret \in {0, Mask} THEN sc.opts.secret
                                            ELSE m.opts.secret]
  BY <1>1, RestoreShape, Zenon
<1> HIDE DEF r
<1>5. \A i \in 1..Len(sc.targets) : Restored(m.targets[i], sc) = sc.targets[i]
  BY <1>1, <1>2, KeysComeBack
<1>6. r.targets = sc.targets
  BY <1>2, <1>3, <1>4, <1>5
<1>7. r.opts = sc.opts
  <2>1. r.opts = [m.opts EXCEPT !.secret = sc.opts.secret]
    BY <1>1, <1>4
  <2>. QED
    BY <1>1, <1>2, <2>1, Zenon DEF Options
<1>8. r = sc
  BY <1>1, <1>4, <1>6, <1>7 DEF StoredConfig
<1>. QED
  BY <1>8 DEF r, m
-----------------------------------------------------------------------------
LEMMA FiniteImage ==
  ASSUME NEW S, IsFiniteSet(S), NEW f, DOMAIN f = S
  PROVE  IsFiniteSet({f[x] : x \in S})
<1> DEFINE T == {f[x] : x \in S}
           g == [x \in S |-> f[x]]
<1>1. g \in Surjection(S, T)
  BY DEF Surjection
<1> HIDE DEF g, T
<1>2. IsFiniteSet(T)
  BY <1>1, FS_Surjection
<1>. QED
  BY <1>2 DEF T

(* The values a list of numbers holds.                                     *)
LEMMA FiniteRange ==
  ASSUME NEW s \in Seq(Int)
  PROVE  IsFiniteSet(DOMAIN s) /\ IsFiniteSet(Range(s)) /\ Range(s) \subseteq Int
<1>1. Len(s) \in Nat /\ DOMAIN s = 1..Len(s) /\ \A i \in DOMAIN s : s[i] \in Int
  OBVIOUS
<1>2. IsFiniteSet(DOMAIN s)
  BY <1>1, FS_Interval
<1>3. IsFiniteSet(Range(s))
  BY <1>2, FiniteImage DEF Range
<1>. QED
  BY <1>1, <1>2, <1>3 DEF Range

(* A field is absent or the value of one of its variables.                 *)
LEMMA FieldFacts ==
  ASSUME NEW vars \in Seq(EnvVar), NEW id, NEW field, NEW absent
  PROVE  \/ Field(vars, id, field, absent) = absent
         \/ \E v \in EnvVar : v.field = field /\ Field(vars, id, field, absent) = v.value
<1> DEFINE set == {i \in DOMAIN vars : Normalize[vars[i].target] = id /\ vars[i].field = field}
<1>1. Len(vars) \in Nat /\ DOMAIN vars = 1..Len(vars) /\ \A i \in DOMAIN vars : vars[i] \in EnvVar
  OBVIOUS
<1>2. set \subseteq 1..Len(vars) /\ set \in SUBSET Int
  BY <1>1
<1>3. IsFiniteSet(set)
  <2>1. IsFiniteSet(1..Len(vars))
    BY <1>1, FS_Interval
  <2> HIDE DEF set
  <2>. QED
    BY <1>2, <2>1, FS_Subset, Zenon
<1>4. \A i \in set : vars[i] \in EnvVar /\ vars[i].field = field
  BY <1>1
<1>5. Field(vars, id, field, absent) = IF set = {} THEN absent ELSE vars[Latest(set)].value
  BY DEF Field
<1> HIDE DEF set
<1>6. set # {} => Latest(set) \in set
  BY <1>2, <1>3, LatestFacts
<1>. QED
  BY <1>4, <1>5, <1>6

LEMMA FieldType ==
  ASSUME NEW vars \in Seq(EnvVar), NEW id, NEW field, NEW S, NEW absent \in S,
         \A v \in EnvVar : v.field = field => v.value \in S
  PROVE  Field(vars, id, field, absent) \in S
BY FieldFacts

LEMMA FieldTypes ==
  ASSUME NEW vars \in Seq(EnvVar), NEW id \in Int
  PROVE  /\ Field(vars, id, "host", NoHost) \in HostValues
         /\ Field(vars, id, "source", id) \in Int
         /\ Field(vars, id, "keys", <<>>) \in Seq(Int)
<1>1. \A v \in EnvVar : v.field = "host" => v.value \in HostValues
  BY DEF EnvVar
<1>2. \A v \in EnvVar : v.field = "source" => v.value \in Int
  BY DEF EnvVar
<1>3. \A v \in EnvVar : v.field = "keys" => v.value \in Seq(Int)
  BY DEF EnvVar
<1>4. NoHost \in HostValues
  BY NamesAssumption
<1>5. <<>> \in Seq(Int)
  OBVIOUS
<1>6. Field(vars, id, "host", NoHost) \in HostValues
  BY <1>1, <1>4, FieldType, Zenon
<1>7. Field(vars, id, "source", id) \in Int
  BY <1>2, FieldType, Zenon
<1>8. Field(vars, id, "keys", <<>>) \in Seq(Int)
  BY <1>3, <1>5, FieldType, Zenon
<1>. QED
  BY <1>6, <1>7, <1>8

(* What is known of the targets and routes an environment describes.       *)
LoadedOK(l) ==
  /\ DOMAIN l.targets \in SUBSET Int /\ IsFiniteSet(DOMAIN l.targets)
  /\ l.targets \in [DOMAIN l.targets -> [source : Int, host : HostValues]]
  /\ DOMAIN l.routes \in SUBSET Int /\ IsFiniteSet(DOMAIN l.routes)
  /\ l.routes \in [DOMAIN l.routes -> [source : Int, target : DOMAIN l.targets]]
  /\ l.default = IF DOMAIN l.targets = {} THEN 0 ELSE Lowest(DOMAIN l.targets)

LEMMA LoadedRecord ==
  ASSUME NEW l, NEW D \in SUBSET Int, NEW K \in SUBSET Int, IsFiniteSet(D), IsFiniteSet(K),
         l.targets \in [D -> [source : Int, host : HostValues]],
         l.routes \in [K -> [source : Int, target : D]],
         l.default = IF D = {} THEN 0 ELSE Lowest(D)
  PROVE  LoadedOK(l)
<1>1. DOMAIN l.targets = D /\ DOMAIN l.routes = K
  OBVIOUS
<1>. QED
  BY <1>1, Zenon DEF LoadedOK

LEMMA NotLoadedOK == LoadedOK(NotLoaded)
<1>1. NotLoaded.targets = EmptyMap /\ NotLoaded.routes = EmptyMap /\ NotLoaded.default = 0
  BY DEF NotLoaded
<1>2. DOMAIN EmptyMap = {} /\ \A S : EmptyMap \in [{} -> S]
  BY DEF EmptyMap
<1>. QED
  BY <1>1, <1>2, FS_EmptySet DEF LoadedOK

LEMMA LegacyKeysFacts ==
  ASSUME NEW vars \in Seq([key : Int, source : Int])
  PROVE  LET keys == LegacyWebhookKeys(vars)
         IN  DOMAIN keys \in SUBSET Int /\ IsFiniteSet(DOMAIN keys) /\ keys \in [DOMAIN keys -> Int]
<1> DEFINE named == [i \in DOMAIN vars |-> vars[i].key]
           D == {vars[i].key : i \in DOMAIN vars}
           at(k) == {i \in DOMAIN vars : vars[i].key = k}
<1>1. /\ Len(vars) \in Nat /\ DOMAIN vars = 1..Len(vars)
      /\ \A i \in DOMAIN vars : vars[i].key \in Int /\ vars[i].source \in Int
  <2> DEFINE V == [key : Int, source : Int]
  <2>1. \A x \in V : x.key \in Int /\ x.source \in Int
    OBVIOUS
  <2>2. vars \in Seq(V)
    OBVIOUS
  <2> HIDE DEF V
  <2>3. Len(vars) \in Nat /\ DOMAIN vars = 1..Len(vars) /\ \A i \in DOMAIN vars : vars[i] \in V
    BY <2>2
  <2>. QED
    BY <2>1, <2>3
<1>2. IsFiniteSet(DOMAIN vars)
  BY <1>1, FS_Interval
<1>3. IsFiniteSet(D) /\ D \in SUBSET Int
  <2>1. DOMAIN named = DOMAIN vars /\ {named[i] : i \in DOMAIN vars} = D
    OBVIOUS
  <2>2. D \in SUBSET Int
    BY <1>1
  <2> HIDE DEF named, D
  <2>3. IsFiniteSet({named[i] : i \in DOMAIN vars})
    BY <1>2, <2>1, FiniteImage
  <2>. QED
    BY <2>1, <2>2, <2>3, Zenon
<1>4. ASSUME NEW k \in D PROVE vars[Latest(at(k))].source \in Int
  <2>1. at(k) \in SUBSET DOMAIN vars /\ at(k) # {} /\ at(k) \in SUBSET Int
    BY <1>1
  <2> HIDE DEF at
  <2>2. IsFiniteSet(at(k))
    BY <1>2, <2>1, FS_Subset
  <2>3. Latest(at(k)) \in at(k)
    BY <2>1, <2>2, LatestFacts
  <2>. QED
    BY <1>1, <2>1, <2>3
<1>5. LegacyWebhookKeys(vars) = [k \in D |-> vars[Latest(at(k))].source]
  BY DEF LegacyWebhookKeys
<1> HIDE DEF D, at
<1>. QED
  BY <1>3, <1>4, <1>5

LEMMA LegacyLoaded ==
  ASSUME NEW v \in Environments
  PROVE  LoadedOK(LoadLegacyTargetAndRoutes(v))
<1> DEFINE keys == LegacyWebhookKeys(v.keyVars)
           T == [t \in {LegacyTarget} |-> [source |-> LegacyTarget, host |-> v.host]]
           R == [k \in DOMAIN keys |-> [source |-> keys[k], target |-> LegacyTarget]]
           l == [ok |-> TRUE, default |-> LegacyTarget, targets |-> T, routes |-> R]
<1>1. v.host \in HostValues /\ v.keyVars \in Seq([key : Int, source : Int]) /\ LegacyTarget \in Int
  BY NamesAssumption DEF Environments
<1>2. DOMAIN keys \in SUBSET Int /\ IsFiniteSet(DOMAIN keys) /\ keys \in [DOMAIN keys -> Int]
  BY <1>1, LegacyKeysFacts
<1>3. LoadLegacyTargetAndRoutes(v) = IF v.host = NoHost \/ DOMAIN keys = {} THEN NotLoaded ELSE l
  BY DEF LoadLegacyTargetAndRoutes
<1> HIDE DEF keys
<1>4. T \in [{LegacyTarget} -> [source : Int, host : HostValues]]
  BY <1>1
<1>5. R \in [DOMAIN keys -> [source : Int, target : {LegacyTarget}]]
  BY <1>1, <1>2
<1>6. l.targets = T /\ l.routes = R /\ l.default = LegacyTarget
      /\ DOMAIN T = {LegacyTarget} /\ DOMAIN R = DOMAIN keys
  OBVIOUS
<1> HIDE DEF T, R, l
<1>7. Lowest({LegacyTarget}) = LegacyTarget
  BY <1>1 DEF Lowest
<1>8. LoadedOK(l)
  <2> DEFINE D == {LegacyTarget}
  <2>1. D \in SUBSET Int /\ IsFiniteSet(D) /\ D # {} /\ l.default = Lowest(D)
    BY <1>1, <1>6, <1>7, FS_Singleton, Zenon
  <2>2. /\ l.targets \in [D -> [source : Int, host : HostValues]]
        /\ l.routes \in [DOMAIN keys -> [source : Int, target : D]]
    BY <1>4, <1>5, <1>6
  <2> HIDE DEF D
  <2>. QED
    BY <1>2, <2>1, <2>2, LoadedRecord
<1>. QED
  BY <1>3, <1>8, NotLoadedOK

(* The targets an environment names.                                       *)
LEMMA SpecIdsFinite ==
  ASSUME NEW v \in Environments
  PROVE  SpecIds(v.vars) \in SUBSET Int /\ IsFiniteSet(SpecIds(v.vars))
<1> DEFINE s == v.vars
           f == [i \in DOMAIN s |-> Normalize[s[i].target]]
           ids == SpecIds(s)
<1>1. s \in Seq(EnvVar)
  BY DEF Environments
<1> HIDE DEF s
<1>2. Len(s) \in Nat /\ DOMAIN s = 1..Len(s) /\ \A i \in DOMAIN s : s[i] \in EnvVar
  BY <1>1
<1>3. \A x \in EnvVar : x.target \in DOMAIN Normalize
  BY DEF EnvVar
<1>4. \A i \in DOMAIN s : f[i] \in Int
  BY <1>2, <1>3, NamesAssumption
<1>5. ids = {f[i] : i \in DOMAIN s} /\ DOMAIN f = DOMAIN s
  BY Zenon DEF SpecIds
<1>6. IsFiniteSet(DOMAIN s)
  BY <1>2, FS_Interval
<1> HIDE DEF f, ids
<1>7. IsFiniteSet({f[i] : i \in DOMAIN s})
  BY <1>5, <1>6, FiniteImage
<1>8. ids \in SUBSET Int /\ IsFiniteSet(ids)
  BY <1>4, <1>5, <1>7
<1>. QED
  BY <1>8 DEF ids, s

(* The places a key is listed at are finitely many.                        *)
Owners(vars, k) ==
  LET keys(id) == Field(vars, id, "keys", <<>>)
  IN  UNION {{<<id, i>> : i \in {j \in DOMAIN keys(id) : keys(id)[j] = k}} : id \in SpecIds(vars)}

LEMMA OwnersFinite ==
  ASSUME NEW v \in Environments, NEW k
  PROVE  IsFiniteSet(Owners(v.vars, k))
<1> DEFINE ids == SpecIds(v.vars)
           keys(id) == Field(v.vars, id, "keys", <<>>)
           places(id) == {j \in DOMAIN keys(id) : keys(id)[j] = k}
           f == [id \in ids |-> {<<id, i>> : i \in places(id)}]
           F == {f[id] : id \in ids}
<1>1. v.vars \in Seq(EnvVar)
  BY DEF Environments
<1>2. ids \in SUBSET Int /\ IsFiniteSet(ids)
  BY SpecIdsFinite
<1>3. ASSUME NEW id \in ids PROVE IsFiniteSet(f[id])
  <2> DEFINE g == [i \in places(id) |-> <<id, i>>]
  <2>1. keys(id) \in Seq(Int)
    BY <1>1, <1>2, FieldTypes
  <2>2. IsFiniteSet(DOMAIN keys(id))
    BY <2>1, FiniteRange
  <2>3. IsFiniteSet(places(id))
    BY <2>2, FS_Subset
  <2>4. f[id] = {g[i] : i \in places(id)} /\ DOMAIN g = places(id)
    BY Zenon
  <2> HIDE DEF g, f, places
  <2>5. IsFiniteSet({g[i] : i \in places(id)})
    BY <2>3, <2>4, FiniteImage
  <2>. QED
    BY <2>4, <2>5, Zenon
<1>4. DOMAIN f = ids
  OBVIOUS
<1>5. UNION F = Owners(v.vars, k)
  BY DEF Owners
<1> HIDE DEF f, ids
<1>6. IsFiniteSet(F)
  BY <1>2, <1>4, FiniteImage, Zenon
<1>7. \A s \in F : IsFiniteSet(s)
  BY <1>3
<1> HIDE DEF F
<1>8. IsFiniteSet(UNION F)
  BY <1>6, <1>7, FS_UNION
<1>. QED
  BY <1>5, <1>8, Zenon

LEMMA TargetsLoaded ==
  ASSUME NEW v \in Environments
  PROVE  LoadedOK(LoadTargetsAndRoutes(v))
<1> DEFINE ids == SpecIds(v.vars)
           host(id) == Field(v.vars, id, "host", NoHost)
           source(id) == Field(v.vars, id, "source", id)
           keys(id) == Field(v.vars, id, "keys", <<>>)
           owners(k) == UNION {{<<id, i>> : i \in {j \in DOMAIN keys(id) : keys(id)[j] = k}} : id \in ids}
           routed == UNION {Range(keys(id)) : id \in ids}
           owner(k) == (CHOOSE o \in owners(k) : TRUE)[1]
           T == [id \in ids |-> [source |-> source(id), host |-> host(id)]]
           R == [k \in routed |-> [source |-> source(owner(k)), target |-> owner(k)]]
           l == [ok |-> TRUE, default |-> Lowest(ids), targets |-> T, routes |-> R]
           bad == \/ (\E id \in ids : host(id) = NoHost) \/ routed = {}
                  \/ (\E k \in routed : Cardinality(owners(k)) > 1)
<1>1. /\ v.vars \in Seq(EnvVar) /\ Len(v.vars) \in Nat /\ DOMAIN v.vars = 1..Len(v.vars)
      /\ \A i \in DOMAIN v.vars : v.vars[i] \in EnvVar
  <2>1. v.vars \in Seq(EnvVar)
    BY DEF Environments
  <2> DEFINE s == v.vars
  <2> HIDE DEF s
  <2>2. s \in Seq(EnvVar) => Len(s) \in Nat /\ DOMAIN s = 1..Len(s) /\ \A i \in DOMAIN s : s[i] \in EnvVar
    OBVIOUS
  <2>. QED
    BY <2>1, <2>2 DEF s
<1>2. ids \in SUBSET Int /\ IsFiniteSet(ids)
  BY SpecIdsFinite
<1>3. \A id \in ids : host(id) \in HostValues /\ source(id) \in Int /\ keys(id) \in Seq(Int)
  BY <1>1, <1>2, FieldTypes
<1>4. LoadTargetsAndRoutes(v) = IF ids = {} THEN LoadLegacyTargetAndRoutes(v)
                                ELSE IF bad THEN NotLoaded ELSE l
  BY DEF LoadTargetsAndRoutes
<1>5. ASSUME NEW k \in routed PROVE owner(k) \in ids
  <2>1. PICK id \in ids : k \in Range(keys(id))
    OBVIOUS
  <2>2. PICK i \in DOMAIN keys(id) : keys(id)[i] = k
    BY <2>1 DEF Range
  <2>3. <<id, i>> \in owners(k)
    BY <2>2
  <2>4. \A o \in owners(k) : o[1] \in ids
    OBVIOUS
  <2> HIDE DEF owners
  <2>. QED
    BY <2>3, <2>4
<1> HIDE DEF ids, host, source, keys, owners, owner
<1>6. routed \in SUBSET Int /\ IsFiniteSet(routed)
  <2> DEFINE f == [id \in ids |-> Range(keys(id))]
             F == {f[id] : id \in ids}
  <2>1. IsFiniteSet(F)
    BY <1>2, FiniteImage, Zenon
  <2>2. \A id \in ids : IsFiniteSet(Range(keys(id))) /\ Range(keys(id)) \subseteq Int
    BY <1>3, FiniteRange
  <2>3. \A s \in F : IsFiniteSet(s) /\ s \subseteq Int
    BY <2>2
  <2>4. routed = UNION F
    OBVIOUS
  <2> HIDE DEF F
  <2>5. IsFiniteSet(UNION F)
    BY <2>1, <2>3, FS_UNION
  <2>. QED
    BY <2>3, <2>4, <2>5, Zenon
<1> HIDE DEF routed
<1>7. T \in [ids -> [source : Int, host : HostValues]]
  BY <1>3
<1>8. R \in [routed -> [source : Int, target : ids]]
  BY <1>3, <1>5
<1>9. l.targets = T /\ l.routes = R /\ l.default = Lowest(ids)
  OBVIOUS
<1> HIDE DEF T, R, l, bad
<1>10. ids # {} => LoadedOK(l)
  BY <1>2, <1>6, <1>7, <1>8, <1>9, LoadedRecord, Zenon
<1>. QED
  BY <1>4, <1>10, LegacyLoaded, NotLoadedOK

LEMMA EnvLoaded ==
  ASSUME NEW v \in Environments
  PROVE  /\ LoadedOK(LoadEnv(v)) /\ LoadEnv(v).opts = v.opts
         /\ v.opts \in Options /\ v.opts.dry # "unset"
<1> DEFINE t == LoadTargetsAndRoutes(v)
           l == LoadEnv(v)
<1>1. /\ l.targets = t.targets /\ l.routes = t.routes /\ l.default = t.default /\ l.opts = v.opts
  BY DEF LoadEnv
<1> HIDE DEF t, l
<1>2. LoadedOK(t)
  BY TargetsLoaded DEF t
<1>3. LoadedOK(l)
  BY <1>1, <1>2 DEF LoadedOK
<1>4. v.opts \in Options /\ v.opts.dry # "unset"
  BY DEF Environments, Options, DrySettings
<1>. QED
  BY <1>1, <1>3, <1>4 DEF l
-----------------------------------------------------------------------------
(* The least of a finite set of numbers.                                   *)
LEMMA LowestFacts ==
  ASSUME NEW S \in SUBSET Int, IsFiniteSet(S), S # {}
  PROVE  Lowest(S) \in S
<1> DEFINE n == Cardinality(S)
<1>1. n \in Nat /\ n # 0
  BY FS_CardinalityType, FS_EmptySet
<1>2. Sorted(S)[1] \in S
  BY <1>1, SortedFacts
<1>3. ASSUME NEW y \in S PROVE Sorted(S)[1] <= y
  <2>1. PICK i \in 1..n : Sorted(S)[i] = y
    BY SortedFacts
  <2>2. CASE i = 1
    BY <1>2, <2>1, <2>2
  <2>3. CASE 1 < i
    <3>1. Sorted(S)[1] < Sorted(S)[i]
      BY <1>1, <2>3, SortedFacts
    <3>2. y \in Int /\ Sorted(S)[1] \in Int /\ y = Sorted(S)[i]
      BY <1>2, <2>1, Zenon
    <3>. QED
      BY <3>1, <3>2
  <2>. QED
    BY <1>1, <2>2, <2>3
<1> HIDE DEF n
<1>. QED
  BY <1>2, <1>3, Zenon DEF Lowest

(* Two members make a finite set larger than one.                          *)
LEMMA AtMostOne ==
  ASSUME NEW S, IsFiniteSet(S), ~(Cardinality(S) > 1), NEW a \in S, NEW b \in S
  PROVE  a = b
<1> SUFFICES ASSUME a # b PROVE FALSE
  OBVIOUS
<1>1. IsFiniteSet({a}) /\ Cardinality({a}) = 1
  BY FS_Singleton, Zenon
<1>2. IsFiniteSet({a} \cup {b}) /\ Cardinality({a} \cup {b}) = 2
  <2> DEFINE A == {a}
  <2>1. b \notin A /\ IsFiniteSet(A) /\ Cardinality(A) = 1
    BY <1>1
  <2> HIDE DEF A
  <2>2. IsFiniteSet(A \cup {b}) /\ Cardinality(A \cup {b}) = Cardinality(A) + 1
    BY <2>1, FS_AddElement, ZenonT(30)
  <2>. QED
    BY <2>1, <2>2 DEF A
<1>3. {a} \cup {b} \subseteq S
  OBVIOUS
<1>4. Cardinality(S) \in Nat /\ Cardinality({a} \cup {b}) <= Cardinality(S)
  BY <1>2, <1>3, FS_Subset, FS_CardinalityType
<1>. QED
  BY <1>2, <1>4

(* No key changes hands: for every environment that can be loaded, a key   *)
(* listed for a target goes to that target, and the default is a target.   *)
THEOREM EveryKeyGoesWhereListed ==
  ASSUME NEW v \in Environments
  PROVE  KeysGoWhereListed(v)
<1> DEFINE ids == SpecIds(v.vars)
           host(id) == Field(v.vars, id, "host", NoHost)
           source(id) == Field(v.vars, id, "source", id)
           keys(id) == Field(v.vars, id, "keys", <<>>)
           routed == UNION {Range(keys(id)) : id \in ids}
           owner(k) == (CHOOSE o \in Owners(v.vars, k) : TRUE)[1]
           T == [id \in ids |-> [source |-> source(id), host |-> host(id)]]
           R == [k \in routed |-> [source |-> source(owner(k)), target |-> owner(k)]]
           t == LoadTargetsAndRoutes(v)
           bad == \/ (\E id \in ids : host(id) = NoHost) \/ routed = {}
                  \/ (\E k \in routed : Cardinality(Owners(v.vars, k)) > 1)
           l == LoadEnv(v)
<1>1. l.targets = t.targets /\ l.routes = t.routes /\ l.default = t.default
  BY DEF LoadEnv
<1>2. t = IF ids = {} THEN LoadLegacyTargetAndRoutes(v)
          ELSE IF bad THEN NotLoaded
          ELSE [ok |-> TRUE, default |-> Lowest(ids), targets |-> T, routes |-> R]
  BY DEF LoadTargetsAndRoutes, Owners
<1>3. LoadedOK(t)
  BY TargetsLoaded
<1> HIDE DEF t, l
<1>4. SUFFICES ASSUME l.ok, DOMAIN l.targets # {}
               PROVE  /\ l.default \in DOMAIN l.targets
                      /\ \A i \in DOMAIN v.vars :
                           LET id == Normalize[v.vars[i].target]
                           IN  v.vars[i].field = "keys" /\ v.vars[i].value = keys(id) =>
                                 \A k \in Range(v.vars[i].value) :
                                   k \in DOMAIN l.routes /\ l.routes[k].target = id
  BY Zenon DEF KeysGoWhereListed, l
<1>5. l.default \in DOMAIN l.targets
  BY <1>1, <1>3, <1>4, LowestFacts, Zenon DEF LoadedOK
<1>6. ASSUME NEW i \in DOMAIN v.vars,
             v.vars[i].value = keys(Normalize[v.vars[i].target]),
             NEW k \in Range(v.vars[i].value)
      PROVE  k \in DOMAIN l.routes /\ l.routes[k].target = Normalize[v.vars[i].target]
  <2> DEFINE id == Normalize[v.vars[i].target]
  <2>1. id \in ids
    BY Zenon DEF SpecIds
  <2>2. k \in routed /\ k \in Range(keys(id))
    BY <1>6, <2>1, Zenon
  <2>3. DOMAIN NotLoaded.targets = {}
    BY DEF NotLoaded, EmptyMap
  <2>4. ~bad /\ l.routes = R
    <3> HIDE DEF bad, T, R
    <3>. QED
      BY <1>1, <1>2, <1>4, <2>1, <2>3
  <2>5. PICK j \in DOMAIN keys(id) : keys(id)[j] = k
    BY <2>2 DEF Range
  <2>6. <<id, j>> \in Owners(v.vars, k)
    BY <2>1, <2>5 DEF Owners
  <2>7. IsFiniteSet(Owners(v.vars, k))
    BY OwnersFinite
  <2>8. \A o \in Owners(v.vars, k) : o = <<id, j>>
    <3>1. ~(Cardinality(Owners(v.vars, k)) > 1)
      BY <2>2, <2>4, Zenon
    <3>. QED
      BY <2>6, <2>7, <3>1, AtMostOne, Zenon
  <2> HIDE DEF id
  <2> DEFINE o == CHOOSE o \in Owners(v.vars, k) : TRUE
  <2>9. o = <<id, j>> /\ owner(k) = o[1]
    BY <2>6, <2>8, Zenon
  <2> HIDE DEF o, owner
  <2>10. owner(k) = id
    BY <2>9
  <2> HIDE DEF routed
  <2>. QED
    BY <2>2, <2>4, <2>10 DEF id
<1>. QED
  BY <1>5, <1>6, Zenon
-----------------------------------------------------------------------------
LEMMA SortedRange ==
  ASSUME NEW S \in SUBSET Int, IsFiniteSet(S)
  PROVE  Sorted(S) \in Seq(Int) /\ Range(Sorted(S)) = S
<1> DEFINE s == Sorted(S)
           n == Cardinality(S)
<1>1. n \in Nat /\ s \in [1..n -> S] /\ \A x \in S : \E i \in 1..n : s[i] = x
  BY SortedFacts
<1> HIDE DEF s, n
<1>2. s \in [1..n -> Int]
  BY <1>1, Zenon
<1>3. s \in Seq(Int)
  BY <1>1, <1>2, IsSequence
<1>4. Range(s) = S
  BY <1>1, Zenon DEF Range
<1>. QED
  BY <1>3, <1>4 DEF s

(* The targets MigrateFromEnv stores: one for each id, in the order of the *)
(* ids, with the keys that were routed to it.                              *)
LEMMA MigratedTargets ==
  ASSUME NEW l, LoadedOK(l)
  PROVE  LET t == MigrateFromEnv(l).targets
             n == Cardinality(DOMAIN l.targets)
         IN  /\ n \in Nat /\ t \in [1..n -> Target]
             /\ \A i \in 1..n : /\ t[i].id \in DOMAIN l.targets
                                /\ t[i].source = l.targets[t[i].id].source
                                /\ t[i].host = l.targets[t[i].id].host
                                /\ Range(t[i].keys) = KeysOf(l, t[i].id)
             /\ \A i, j \in 1..n : t[i].id = t[j].id => i = j
             /\ \A id \in DOMAIN l.targets : \E i \in 1..n : t[i].id = id
<1> DEFINE t == MigrateFromEnv(l).targets
           D == DOMAIN l.targets
           n == Cardinality(D)
           s == Sorted(D)
<1>1. D \in SUBSET Int /\ IsFiniteSet(D) /\ l.targets \in [D -> [source : Int, host : HostValues]]
  BY DEF LoadedOK
<1>2. /\ n \in Nat /\ s \in [1..n -> D]
      /\ \A i, j \in 1..n : s[i] = s[j] => i = j
      /\ \A x \in D : \E i \in 1..n : s[i] = x
  BY <1>1, SortedFacts
<1>3. t = [i \in 1..n |-> StoredTarget(l, s[i])]
  BY DEF MigrateFromEnv
<1> HIDE DEF t, n, s, D
<1>4. ASSUME NEW id \in D
      PROVE  /\ StoredTarget(l, id) \in Target /\ StoredTarget(l, id).id = id
             /\ StoredTarget(l, id).source = l.targets[id].source
             /\ StoredTarget(l, id).host = l.targets[id].host
             /\ Range(StoredTarget(l, id).keys) = KeysOf(l, id)
  <2> DEFINE k == Sorted(KeysOf(l, id))
  <2>1. KeysOf(l, id) \in SUBSET DOMAIN l.routes
    BY DEF KeysOf
  <2>2. DOMAIN l.routes \in SUBSET Int /\ IsFiniteSet(DOMAIN l.routes)
    BY DEF LoadedOK
  <2>3. KeysOf(l, id) \in SUBSET Int /\ IsFiniteSet(KeysOf(l, id))
    BY <2>1, <2>2, FS_Subset
  <2>4. k \in Seq(Int) /\ Range(k) = KeysOf(l, id)
    BY <2>3, SortedRange
  <2>5. id \in Int /\ l.targets[id].source \in Int /\ l.targets[id].host \in HostValues
    BY <1>1, <1>4
  <2>6. StoredTarget(l, id) = [id |-> id, source |-> l.targets[id].source,
                               host |-> l.targets[id].host, keys |-> k]
    BY DEF StoredTarget
  <2> HIDE DEF k
  <2>. QED
    BY <2>4, <2>5, <2>6 DEF Target
<1>5. ASSUME NEW i \in 1..n
      PROVE  /\ t[i] \in Target /\ t[i].id = s[i] /\ t[i].id \in D
             /\ t[i].source = l.targets[t[i].id].source
             /\ t[i].host = l.targets[t[i].id].host
             /\ Range(t[i].keys) = KeysOf(l, t[i].id)
  BY <1>2, <1>3, <1>4
<1>6. t \in [1..n -> Target]
  BY <1>3, <1>5
<1>7. \A i, j \in 1..n : t[i].id = t[j].id => i = j
  BY <1>2, <1>5
<1>8. \A id \in D : \E i \in 1..n : t[i].id = id
  BY <1>2, <1>5
<1>. QED
  BY <1>2, <1>5, <1>6, <1>7, <1>8, Zenon DEF t, D, n

LEMMA MigratedConfig ==
  ASSUME NEW l, LoadedOK(l), l.opts \in Options
  PROVE  /\ MigrateFromEnv(l) \in StoredConfig /\ DistinctIds(MigrateFromEnv(l))
         /\ MigrateFromEnv(l).opts = l.opts
<1> DEFINE sc == MigrateFromEnv(l)
           t == sc.targets
           n == Cardinality(DOMAIN l.targets)
<1>1. n \in Nat /\ t \in [1..n -> Target] /\ \A i, j \in 1..n : t[i].id = t[j].id => i = j
  BY MigratedTargets
<1>2. sc = [opts |-> l.opts, users |-> NoUsers, targets |-> t] /\ sc.opts = l.opts
  BY DEF MigrateFromEnv
<1>3. NoUsers \in [AccountNames -> Int]
  BY DEF NoUsers
<1> HIDE DEF sc, n
<1>4. t \in Seq(Target) /\ DOMAIN t = 1..n
  BY <1>1, IsSequence
<1>. QED
  BY <1>1, <1>2, <1>3, <1>4 DEF StoredConfig, DistinctIds, sc

(* The parts of a converted configuration.                                 *)
LEMMA ConvertedParts ==
  ASSUME NEW t, NEW o
  PROVE  LET c == Converted(t, o)
             ids == {t[i].id : i \in DOMAIN t}
         IN  /\ c.targets = [id \in ids |-> [source |-> Named(t, id).source, host |-> Named(t, id).host]]
             /\ c.routes = [k \in UNION {Range(t[i].keys) : i \in DOMAIN t} |->
                              [source |-> Holder(t, k).source, target |-> Holder(t, k).id]]
             /\ c.default = IF ids = {} THEN 0 ELSE Lowest(ids)
             /\ c.opts = [o EXCEPT !.dry = IF @ = "unset" THEN "dry" ELSE @]
BY DEF Converted

(* Storing the environment changes nothing for the senders of alerts: the  *)
(* stored configuration, converted back, has the targets, the keys, the    *)
(* default target and the options the environment has.                     *)
LEMMA MigratedService ==
  ASSUME NEW l, LoadedOK(l), l.opts \in Options, l.opts.dry # "unset"
  PROVE  SameService(FromEnv(l), ToConfig(MigrateFromEnv(l)))
<1> DEFINE sc == MigrateFromEnv(l)
           t == sc.targets
           D == DOMAIN l.targets
           n == Cardinality(D)
           c == ToConfig(sc)
           ids == {t[i].id : i \in DOMAIN t}
           keys == UNION {Range(t[i].keys) : i \in DOMAIN t}
<1>1. /\ n \in Nat /\ DOMAIN t = 1..n
      /\ \A i \in 1..n : /\ t[i].id \in D /\ Range(t[i].keys) = KeysOf(l, t[i].id)
                         /\ t[i].source = l.targets[t[i].id].source
                         /\ t[i].host = l.targets[t[i].id].host
      /\ \A id \in D : \E i \in 1..n : t[i].id = id
  BY MigratedTargets
<1>2. /\ l.targets \in [D -> [source : Int, host : HostValues]]
      /\ l.routes \in [DOMAIN l.routes -> [source : Int, target : D]]
      /\ l.default = IF D = {} THEN 0 ELSE Lowest(D)
  BY DEF LoadedOK
<1>3. sc.opts = l.opts
  BY MigratedConfig
<1>4. /\ c.targets = [id \in ids |-> [source |-> Named(t, id).source, host |-> Named(t, id).host]]
      /\ c.routes = [k \in keys |-> [source |-> Holder(t, k).source, target |-> Holder(t, k).id]]
      /\ c.default = IF ids = {} THEN 0 ELSE Lowest(ids)
      /\ c.opts = [sc.opts EXCEPT !.dry = IF @ = "unset" THEN "dry" ELSE @]
  BY ConvertedParts, Zenon DEF ToConfig
<1> HIDE DEF sc, n, D, c
<1>5. ids = D
  BY <1>1
<1>6. keys = DOMAIN l.routes
  <2>1. \A k \in DOMAIN l.routes : l.routes[k].target \in D
    BY <1>2
  <2>2. ASSUME NEW k \in DOMAIN l.routes PROVE k \in keys
    <3>1. PICK i \in 1..n : t[i].id = l.routes[k].target
      BY <1>1, <2>1
    <3>. QED
      BY <1>1, <3>1 DEF KeysOf
  <2>3. ASSUME NEW k \in keys PROVE k \in DOMAIN l.routes
    BY <1>1 DEF KeysOf
  <2>. QED
    BY <2>2, <2>3
<1>7. \A S \in SUBSET (1..n) : S # {} => Latest(S) \in S
  <2> SUFFICES ASSUME NEW S \in SUBSET (1..n), S # {} PROVE Latest(S) \in S
    OBVIOUS
  <2>1. S \in SUBSET Int
    BY <1>1
  <2>2. IsFiniteSet(1..n)
    BY <1>1, FS_Interval
  <2>3. IsFiniteSet(S)
    BY <2>2, FS_Subset, Zenon
  <2>. QED
    BY <2>1, <2>3, LatestFacts
<1>8. ASSUME NEW id \in D
      PROVE  Named(t, id).source = l.targets[id].source /\ Named(t, id).host = l.targets[id].host
  <2> DEFINE S == {i \in DOMAIN t : t[i].id = id}
  <2>1. S \in SUBSET (1..n) /\ S # {}
    BY <1>1
  <2>2. Named(t, id) = t[Latest(S)]
    BY DEF Named
  <2>3. PICK i \in 1..n : i = Latest(S) /\ t[i].id = id
    BY <1>1, <1>7, <2>1, Zenon
  <2> HIDE DEF S
  <2>. QED
    BY <1>1, <2>2, <2>3
<1>9. ASSUME NEW k \in DOMAIN l.routes PROVE Holder(t, k).id = l.routes[k].target
  <2> DEFINE S == {i \in DOMAIN t : k \in Range(t[i].keys)}
  <2>1. S \in SUBSET (1..n) /\ S # {}
    BY <1>1, <1>6
  <2>2. Holder(t, k) = t[Latest(S)]
    BY DEF Holder
  <2>3. PICK i \in 1..n : i = Latest(S) /\ k \in Range(t[i].keys)
    BY <1>1, <1>7, <2>1, Zenon
  <2> HIDE DEF S
  <2>4. k \in KeysOf(l, t[i].id)
    BY <1>1, <2>3
  <2>. QED
    BY <2>2, <2>3, <2>4 DEF KeysOf
<1> HIDE DEF ids, keys
<1>10. c.targets = l.targets
  <2>1. \A id \in D : l.targets[id] = [source |-> Named(t, id).source, host |-> Named(t, id).host]
    BY <1>2, <1>8
  <2>. QED
    BY <1>2, <1>4, <1>5, <2>1
<1>11. DOMAIN c.routes = DOMAIN l.routes /\ \A k \in DOMAIN l.routes : c.routes[k].target = l.routes[k].target
  BY <1>4, <1>6, <1>9
<1>12. c.default = l.default
  BY <1>2, <1>4, <1>5
<1>13. c.opts = l.opts
  BY <1>3, <1>4 DEF Options
<1> DEFINE v == FromEnv(l)
<1>14. v.targets = l.targets /\ v.routes = l.routes /\ v.default = l.default /\ v.opts = l.opts
  BY DEF FromEnv
<1> HIDE DEF v
<1>15. Routing(v) = Routing(c)
  BY <1>11, <1>14 DEF Routing
<1>. QED
  BY <1>10, <1>12, <1>13, <1>14, <1>15 DEF SameService, v, c, sc
-----------------------------------------------------------------------------
(* Types.  What runs is the conversion of some storable configuration or   *)
(* what some environment describes.                                        *)
Steps ==
  {"idle", "update", "collect", "users", "save", "rename", "convert", "front", "back", "answer"}
Conversions == {ToConfig(sc) : sc \in StoredConfig}
Services == Conversions \cup {FromEnv(LoadEnv(v)) : v \in Envs}
Request == [at : Steps, edit : EditRequests \cup {[do |-> "none"]},
            draft : StoredConfig, snap : StoredConfig, conv : Conversions]
StoreTypes ==
  /\ env \in Envs /\ proc \in {"down", "up", "exited"}
  /\ mem \in StoredConfig /\ accounts \in [AccountNames -> Int]
  /\ disk \in StoredConfig \cup {NoConfig} /\ backup \in StoredConfig \cup {NoConfig}
  /\ acked \in StoredConfig \cup {NoConfig}
  /\ running \in [front : Services, back : Services]
  /\ req \in [Editors -> Request]
  /\ minted \in Nat /\ edits \in Nat /\ crashes \in Nat

(* Nothing is in memory or under way while the process is down, and before *)
(* the first start there is no file and no backup.                         *)
DownInv ==
  /\ proc # "up" => /\ mem = Blank /\ req = [q \in Editors |-> NoRequest]
                    /\ running = [front |-> ToConfig(Blank), back |-> ToConfig(Blank)]
  /\ proc = "up" => disk # NoConfig
  /\ disk = NoConfig => backup = NoConfig

(* Every configuration anywhere has distinct ids, and does not ask for     *)
(* real pruning unless somebody did.                                       *)
Careful(c, asked) == c.opts.dry = "delete" => asked
Fine(sc, asked) == DistinctIds(sc) /\ (sc.opts.dry = "delete" => asked)
RequestFine(r, asked) == Fine(r.draft, asked) /\ Fine(r.snap, asked) /\ Careful(r.conv, asked)
FineInv ==
  /\ Fine(mem, pruneAsked) /\ (disk # NoConfig => Fine(disk, pruneAsked))
  /\ backup # NoConfig => Fine(backup, pruneAsked)
  /\ \A q \in Editors : RequestFine(req[q], pruneAsked)
  /\ Careful(running.front, pruneAsked) /\ Careful(running.back, pruneAsked)

(* While requests come one at a time, what the one under way has done.     *)
None(at) == \A q \in Editors : req[q].at \notin at
Alone == \A p, q \in Editors : req[p].at # "idle" /\ req[q].at # "idle" => p = q
StoredInv ==
  /\ None({"convert", "front", "back", "answer"}) => disk = acked
  /\ \A q \in Editors : /\ req[q].at = "save" => mem = req[q].draft
                        /\ req[q].at = "rename" => req[q].snap = req[q].draft /\ req[q].snap = mem
                        /\ Renamed(q) => disk = req[q].draft
RunningInv ==
  /\ ~unsaved /\ None({"save", "rename"}) => mem = disk
  /\ ~unapplied /\ None({"front", "back"}) =>
       SameService(running.front, ToConfig(mem)) /\ SameService(running.back, ToConfig(mem))
  /\ \A q \in Editors : /\ req[q].at \in {"front", "back"} => req[q].conv = ToConfig(mem)
                        /\ req[q].at = "back" => running.front = req[q].conv
UsersInv ==
  /\ ~usersImported /\ None({"collect", "users"}) => accounts = mem.users
  /\ \A q \in Editors :
       /\ req[q].at = "update" /\ req[q].edit.do # "import" => req[q].draft.users = mem.users
       /\ req[q].at = "users" => req[q].draft.users = accounts
SerialInv ==
  serial => Alone /\ StoredInv /\ (proc = "up" => RunningInv /\ UsersInv)
-----------------------------------------------------------------------------
LEMMA BlankFacts ==
  /\ Blank \in StoredConfig /\ DistinctIds(Blank) /\ Blank.opts.dry = "unset"
  /\ NoUsers \in [AccountNames -> Int]
<1> DEFINE o == [addr |-> 0, force |-> FALSE, secret |-> 0, dry |-> "unset"]
           t == <<>>
<1>1. t \in Seq(Target) /\ DOMAIN t = {}
  OBVIOUS
<1>2. NoUsers \in [AccountNames -> Int]
  BY DEF NoUsers
<1>3. o \in Options /\ o.dry = "unset"
  BY DEF Options
<1>4. Blank = [opts |-> o, targets |-> t, users |-> NoUsers]
  BY DEF Blank
<1> HIDE DEF o, t
<1>5. Blank \in StoredConfig
  BY <1>1, <1>2, <1>3, <1>4 DEF StoredConfig
<1>6. DistinctIds(Blank)
  BY <1>1, <1>4 DEF DistinctIds
<1>. QED
  BY <1>2, <1>3, <1>4, <1>5, <1>6

LEMMA NoRequestFacts ==
  /\ NoRequest \in Request /\ NoRequest.at = "idle" /\ NoRequest.draft = Blank
  /\ NoRequest.snap = Blank /\ NoRequest.conv = ToConfig(Blank)
<1>1. ToConfig(Blank) \in Conversions
  BY BlankFacts DEF Conversions
<1>. QED
  BY <1>1, BlankFacts DEF NoRequest, Request, Steps

LEMMA InServices ==
  /\ \A sc \in StoredConfig : ToConfig(sc) \in Conversions /\ ToConfig(sc) \in Services
  /\ Conversions \subseteq Services
BY DEF Conversions, Services

(* Only an absent setting is converted, and into a dry run.                *)
LEMMA ConvertedDry ==
  ASSUME NEW sc \in StoredConfig
  PROVE  ToConfig(sc).opts.dry = "delete" => sc.opts.dry = "delete"
<1> DEFINE o == sc.opts
<1>1. o \in Options
  BY DEF StoredConfig
<1>2. ToConfig(sc).opts = [o EXCEPT !.dry = IF @ = "unset" THEN "dry" ELSE @]
  BY ConvertedParts, Zenon DEF ToConfig
<1> HIDE DEF o
<1>3. [o EXCEPT !.dry = IF @ = "unset" THEN "dry" ELSE @].dry = "delete" => o.dry = "delete"
  BY <1>1 DEF Options
<1>. QED
  BY <1>2, <1>3 DEF o

(* An edit that goes on has a draft made from the current configuration.   *)
LEMMA EditDraft ==
  ASSUME StoreTypes, NEW e \in Edits, e.do # "account",
         NEW d \in Drafts(e, mem, FirstMinted + minted)
  PROVE  DraftOK(e, mem, d)
<1>1. FirstMinted + minted \in Int
  BY ConfigAssumption DEF StoreTypes
<1>2. e \in EditRequests /\ mem \in StoredConfig /\ backup \in StoredConfig \cup {NoConfig}
  BY ConfigAssumption DEF StoreTypes
<1>. QED
  BY <1>1, <1>2, DraftsOK

(* The configuration a first start stores.                                 *)
LEMMA FirstConfig ==
  ASSUME NEW v \in Envs
  PROVE  LET l == LoadEnv(v)
             sc == MigrateFromEnv(l)
         IN  /\ sc \in StoredConfig /\ DistinctIds(sc) /\ sc.opts = v.opts
             /\ FromEnv(l) \in Services /\ FromEnv(l).opts = v.opts
             /\ SameService(FromEnv(l), ToConfig(sc))
<1> DEFINE l == LoadEnv(v)
<1>1. v \in Environments
  BY ConfigAssumption
<1>2. LoadedOK(l) /\ l.opts = v.opts /\ l.opts \in Options /\ l.opts.dry # "unset"
  BY <1>1, EnvLoaded
<1>3. FromEnv(l) \in Services
  BY DEF Services
<1> HIDE DEF l
<1>4. FromEnv(l).opts = v.opts
  BY <1>2 DEF FromEnv
<1>5. /\ MigrateFromEnv(l) \in StoredConfig /\ DistinctIds(MigrateFromEnv(l))
      /\ MigrateFromEnv(l).opts = v.opts
  BY <1>2, MigratedConfig
<1>6. SameService(FromEnv(l), ToConfig(MigrateFromEnv(l)))
  BY <1>2, MigratedService
<1>. QED
  BY <1>3, <1>4, <1>5, <1>6 DEF l

LEMMA UsersReplaced ==
  ASSUME NEW sc \in StoredConfig, NEW u \in [AccountNames -> Int]
  PROVE  LET d == [sc EXCEPT !.users = u]
         IN  /\ d \in StoredConfig /\ d.users = u /\ ToConfig(d) = ToConfig(sc)
             /\ d.opts = sc.opts /\ (DistinctIds(sc) => DistinctIds(d))
<1> DEFINE d == [sc EXCEPT !.users = u]
<1>1. d \in StoredConfig /\ d.users = u /\ d.targets = sc.targets /\ d.opts = sc.opts
  BY Zenon DEF StoredConfig
<1> HIDE DEF d
<1>2. ToConfig(d) = ToConfig(sc) /\ (DistinctIds(sc) => DistinctIds(d))
  BY <1>1 DEF ToConfig, DistinctIds
<1>. QED
  BY <1>1, <1>2 DEF d
-----------------------------------------------------------------------------
(* A step of a request changes its record and no other; of the record, the *)
(* place it has come to and at most one of the configurations it carries.  *)
Moved(q, at, draft, snap, conv) ==
  /\ req' \in [Editors -> Request] /\ \A p \in Editors : p # q => req'[p] = req[p]
  /\ req'[q].at = at /\ req'[q].edit = req[q].edit
  /\ req'[q].draft = draft /\ req'[q].snap = snap /\ req'[q].conv = conv
Cleared(q) ==
  /\ req' \in [Editors -> Request] /\ \A p \in Editors : p # q => req'[p] = req[p]
  /\ req'[q] = NoRequest

LEMMA MovedBy ==
  ASSUME req \in [Editors -> Request], NEW q \in Editors, NEW r,
         req' = [req EXCEPT ![q] = r], NEW at \in Steps, NEW d \in StoredConfig,
         NEW s \in StoredConfig, NEW c \in Conversions,
         r = [req[q] EXCEPT !.at = at, !.draft = d, !.snap = s, !.conv = c]
  PROVE  Moved(q, at, d, s, c)
<1>1. /\ r \in Request /\ r.at = at /\ r.edit = req[q].edit /\ r.draft = d /\ r.snap = s /\ r.conv = c
  BY Zenon DEF Request
<1>2. req' \in [Editors -> Request] /\ req'[q] = r /\ \A p \in Editors : p # q => req'[p] = req[p]
  BY <1>1
<1>. QED
  BY <1>1, <1>2 DEF Moved

LEMMA MovedAt ==
  ASSUME req \in [Editors -> Request], NEW q \in Editors, NEW at \in Steps,
         req' = [req EXCEPT ![q].at = at]
  PROVE  Moved(q, at, req[q].draft, req[q].snap, req[q].conv)
<1> DEFINE r == [req[q] EXCEPT !.at = at]
<1>1. /\ r = [req[q] EXCEPT !.at = at, !.draft = req[q].draft, !.snap = req[q].snap,
                            !.conv = req[q].conv]
      /\ req[q].draft \in StoredConfig /\ req[q].snap \in StoredConfig /\ req[q].conv \in Conversions
  BY Zenon DEF Request
<1>2. req' = [req EXCEPT ![q] = r]
  OBVIOUS
<1> HIDE DEF r
<1>. QED
  BY <1>1, <1>2, MovedBy, Zenon

(* What the steps of a request after its beginning make of its record.     *)
LEMMA RequestMoves ==
  ASSUME StoreTypes, NEW q \in Editors
  PROVE  LET r == req[q] IN
         /\ Update(q) => Moved(q, "save", r.draft, r.snap, r.conv)
         /\ PersistableUsers(q) =>
              Moved(q, "users", [r.draft EXCEPT !.users = accounts], r.snap, r.conv)
         /\ SetUsers(q) =>
              Moved(q, "save", [mem EXCEPT !.users = r.draft.users], r.snap, r.conv)
         /\ Snapshot(q) => Moved(q, "rename", r.draft, mem, r.conv)
         /\ RenameConfig(q) => Moved(q, AfterSave(q), r.draft, r.snap, r.conv)
         /\ Convert(q) => Moved(q, "front", r.draft, r.snap, ToConfig(mem))
         /\ ReloadFront(q) => Moved(q, "back", r.draft, r.snap, r.conv)
         /\ ReloadBack(q) => Moved(q, "answer", r.draft, r.snap, r.conv)
         /\ SaveFails(q) \/ Acknowledge(q) => Cleared(q)
<1> DEFINE r == req[q]
<1>1. req \in [Editors -> Request] /\ r \in Request /\ mem \in StoredConfig
  BY DEF StoreTypes
<1>2. r.draft \in StoredConfig /\ r.snap \in StoredConfig /\ r.conv \in Conversions
  BY <1>1 DEF Request
<1>3. {"save", "users", "rename", "front", "back", "answer", "convert"} \subseteq Steps
      /\ AfterSave(q) \in {"answer", "convert"}
  BY DEF Steps, AfterSave
<1>4. ASSUME PersistableUsers(q)
      PROVE  Moved(q, "users", [r.draft EXCEPT !.users = accounts], r.snap, r.conv)
  <2> DEFINE d == [r.draft EXCEPT !.users = accounts]
  <2>1. d \in StoredConfig
    BY <1>2, UsersReplaced DEF StoreTypes
  <2>2. req' = [req EXCEPT ![q] = [r EXCEPT !.at = "users", !.draft = d]]
    BY <1>1, <1>4, Zenon DEF PersistableUsers, Request
  <2> HIDE DEF d
  <2>3. [r EXCEPT !.at = "users", !.draft = d]
          = [r EXCEPT !.at = "users", !.draft = d, !.snap = r.snap, !.conv = r.conv]
    BY <1>1, Zenon DEF Request
  <2>4. Moved(q, "users", d, r.snap, r.conv)
    BY <1>1, <1>2, <1>3, <2>1, <2>2, <2>3, MovedBy, Zenon
  <2>. QED
    BY <2>4 DEF d
<1>5. ASSUME SetUsers(q)
      PROVE  Moved(q, "save", [mem EXCEPT !.users = r.draft.users], r.snap, r.conv)
  <2> DEFINE d == [mem EXCEPT !.users = r.draft.users]
  <2>1. d \in StoredConfig
    BY <1>1, <1>2, ConfigShape, UsersReplaced
  <2>2. req' = [req EXCEPT ![q] = [r EXCEPT !.at = "save", !.draft = d]]
    BY <1>1, <1>5, Zenon DEF SetUsers, Request
  <2> HIDE DEF d
  <2>3. [r EXCEPT !.at = "save", !.draft = d]
          = [r EXCEPT !.at = "save", !.draft = d, !.snap = r.snap, !.conv = r.conv]
    BY <1>1, ZenonT(30) DEF Request
  <2>4. Moved(q, "save", d, r.snap, r.conv)
    BY <1>1, <1>2, <1>3, <2>1, <2>2, <2>3, MovedBy, Zenon
  <2>. QED
    BY <2>4 DEF d
<1>6. ASSUME Snapshot(q) PROVE Moved(q, "rename", r.draft, mem, r.conv)
  <2>1. req' = [req EXCEPT ![q] = [r EXCEPT !.at = "rename", !.snap = mem]]
    BY <1>1, <1>6, Zenon DEF Snapshot, Request
  <2>2. [r EXCEPT !.at = "rename", !.snap = mem]
          = [r EXCEPT !.at = "rename", !.draft = r.draft, !.snap = mem, !.conv = r.conv]
    BY <1>1, Zenon DEF Request
  <2>. QED
    BY <1>1, <1>2, <1>3, <2>1, <2>2, MovedBy, Zenon
<1>7. ASSUME Convert(q) PROVE Moved(q, "front", r.draft, r.snap, ToConfig(mem))
  <2> DEFINE c == ToConfig(mem)
  <2>1. req' = [req EXCEPT ![q] = [r EXCEPT !.at = "front", !.conv = c]]
    BY <1>1, <1>7, Zenon DEF Convert, Request
  <2>2. [r EXCEPT !.at = "front", !.conv = c]
          = [r EXCEPT !.at = "front", !.draft = r.draft, !.snap = r.snap, !.conv = c]
    BY <1>1, ZenonT(30) DEF Request
  <2>3. c \in Conversions
    BY <1>1, InServices
  <2> HIDE DEF c
  <2>4. Moved(q, "front", r.draft, r.snap, c)
    BY <1>1, <1>2, <1>3, <2>1, <2>2, <2>3, MovedBy, Zenon
  <2>. QED
    BY <2>4 DEF c
<1>8. ASSUME SaveFails(q) \/ Acknowledge(q) PROVE Cleared(q)
  <2>1. req' = [req EXCEPT ![q] = NoRequest]
    BY <1>8 DEF SaveFails, Acknowledge
  <2>. QED
    BY <1>1, <2>1, NoRequestFacts DEF Cleared
<1>9. Update(q) => Moved(q, "save", r.draft, r.snap, r.conv)
  BY <1>1, <1>3, MovedAt, Zenon DEF Update
<1>10. RenameConfig(q) => Moved(q, AfterSave(q), r.draft, r.snap, r.conv)
  BY <1>1, <1>3, MovedAt, Zenon DEF RenameConfig
<1>11. ReloadFront(q) => Moved(q, "back", r.draft, r.snap, r.conv)
  BY <1>1, <1>3, MovedAt, Zenon DEF ReloadFront
<1>12. ReloadBack(q) => Moved(q, "answer", r.draft, r.snap, r.conv)
  BY <1>1, <1>3, MovedAt, Zenon DEF ReloadBack
<1>. QED
  BY <1>4, <1>5, <1>6, <1>7, <1>8, <1>9, <1>10, <1>11, <1>12

(* How a request begins.                                                   *)
LEMMA EditBegins ==
  ASSUME StoreTypes, NEW q \in Editors, NEW e \in Edits, Edit(q, e)
  PROVE  \/ req' = req
         \/ \E d \in StoredConfig :
              /\ DraftOK(e, mem, d) /\ req' \in [Editors -> Request]
              /\ \A p \in Editors : p # q => req'[p] = req[p]
              /\ req'[q].at = "update" /\ req'[q].edit = e /\ req'[q].draft = d
              /\ req'[q].snap = Blank /\ req'[q].conv = ToConfig(Blank)
<1>1. req \in [Editors -> Request] /\ e \in EditRequests /\ e.do # "account" /\ "update" \in Steps
  BY ConfigAssumption, Zenon DEF StoreTypes, Edit, Steps
<1>2. CASE req' = req
  BY <1>2
<1>3. CASE req' # req
  <2>1. PICK d \in Drafts(e, mem, FirstMinted + minted) :
          req' = [req EXCEPT ![q] = [NoRequest EXCEPT !.at = "update", !.edit = e, !.draft = d]]
    BY <1>3, Zenon DEF Edit
  <2>2. DraftOK(e, mem, d) /\ d \in StoredConfig
    BY <1>1, EditDraft DEF DraftOK
  <2> DEFINE r == [NoRequest EXCEPT !.at = "update", !.edit = e, !.draft = d]
  <2>3. /\ r \in Request /\ r.at = "update" /\ r.edit = e /\ r.draft = d
        /\ r.snap = Blank /\ r.conv = ToConfig(Blank)
    BY <1>1, <2>2, NoRequestFacts, Zenon DEF Request
  <2> HIDE DEF r
  <2>4. /\ req' \in [Editors -> Request] /\ req'[q] = r
        /\ \A p \in Editors : p # q => req'[p] = req[p]
    BY <1>1, <2>1, <2>3 DEF r
  <2>. QED
    BY <2>2, <2>3, <2>4, Zenon
<1>. QED
  BY <1>2, <1>3, Zenon

LEMMA AccountBegins ==
  ASSUME StoreTypes, NEW q \in Editors, NEW e \in Edits, ChangeAccount(q, e)
  PROVE  /\ req' \in [Editors -> Request] /\ \A p \in Editors : p # q => req'[p] = req[p]
         /\ req'[q].at = "collect" /\ req'[q].edit = e /\ req'[q].draft = Blank
         /\ req'[q].snap = Blank /\ req'[q].conv = ToConfig(Blank)
         /\ accounts' \in [AccountNames -> Int]
<1>1. req \in [Editors -> Request] /\ e \in EditRequests /\ e.do = "account" /\ "collect" \in Steps
  BY ConfigAssumption DEF StoreTypes, ChangeAccount, Steps
<1> DEFINE r == [NoRequest EXCEPT !.at = "collect", !.edit = e]
<1>2. /\ r \in Request /\ r.at = "collect" /\ r.edit = e /\ r.draft = Blank
      /\ r.snap = Blank /\ r.conv = ToConfig(Blank)
  BY <1>1, NoRequestFacts, Zenon DEF Request
<1>3. req' = [req EXCEPT ![q] = r]
  BY DEF ChangeAccount
<1> HIDE DEF r
<1>4. /\ req' \in [Editors -> Request] /\ req'[q] = r
      /\ \A p \in Editors : p # q => req'[p] = req[p]
  BY <1>1, <1>2, <1>3
<1>5. e.name \in AccountNames /\ e.pass \in Int
  BY <1>1 DEF EditRequests
<1>6. accounts' \in [AccountNames -> Int]
  BY <1>5 DEF ChangeAccount, StoreTypes
<1>. QED
  BY <1>2, <1>4, <1>6
-----------------------------------------------------------------------------
LEMMA RunningSet ==
  ASSUME running \in [front : Services, back : Services], NEW c \in Services
  PROVE  /\ [front |-> c, back |-> c] \in [front : Services, back : Services]
         /\ LET r == [running EXCEPT !.front = c]
            IN  /\ r \in [front : Services, back : Services]
                /\ r.front = c /\ r.back = running.back
         /\ LET r == [running EXCEPT !.back = c]
            IN  /\ r \in [front : Services, back : Services]
                /\ r.front = running.front /\ r.back = c
OBVIOUS

RequestStep(q) ==
  \/ Update(q) \/ PersistableUsers(q) \/ SetUsers(q) \/ Snapshot(q) \/ RenameConfig(q)
  \/ SaveFails(q) \/ Convert(q) \/ ReloadFront(q) \/ ReloadBack(q) \/ Acknowledge(q)

LEMMA RequestTyped ==
  ASSUME StoreTypes, NEW q \in Editors, RequestStep(q)
  PROVE  req' \in [Editors -> Request]
BY RequestMoves, Zenon DEF RequestStep, Moved, Cleared

(* What these steps leave alone.                                           *)
LEMMA StepLeaves ==
  ASSUME NEW q \in Editors, RequestStep(q)
  PROVE  UNCHANGED <<env, proc, backup, minted, edits, crashes, serial, pruneAsked>>
BY Zenon DEF RequestStep, Update, PersistableUsers, SetUsers, Snapshot, RenameConfig, SaveFails,
       Convert, ReloadFront, ReloadBack, Acknowledge, aside

LEMMA TypesInit == StoreInit => StoreTypes
<1> SUFFICES ASSUME StoreInit PROVE StoreTypes
  OBVIOUS
<1>1. running \in [front : Services, back : Services]
  BY BlankFacts, InServices DEF StoreInit
<1>2. req \in [Editors -> Request]
  BY NoRequestFacts DEF StoreInit
<1>. QED
  BY <1>1, <1>2, BlankFacts DEF StoreInit, StoreTypes

LEMMA TypesStep == StoreTypes /\ [StoreNext]_storeVars => StoreTypes'
<1> SUFFICES ASSUME StoreTypes, [StoreNext]_storeVars PROVE StoreTypes'
  OBVIOUS
<1>1. CASE StartFromFile
  <2>1. disk \in StoredConfig /\ ToConfig(disk) \in Services /\ disk.users \in [AccountNames -> Int]
    BY <1>1, InServices, ConfigShape, Zenon DEF StoreTypes, StartFromFile
  <2>2. running' \in [front : Services, back : Services]
    BY <1>1, <2>1, RunningSet DEF StoreTypes, StartFromFile, Run
  <2>. QED
    BY <1>1, <2>1, <2>2 DEF StoreTypes, StartFromFile, Run
<1>2. CASE StartFromEnv
  <2> DEFINE l == LoadEnv(env)
             sc == MigrateFromEnv(l)
             c == FromEnv(l)
  <2>1. sc \in StoredConfig /\ c \in Services
    BY FirstConfig DEF StoreTypes
  <2>2. /\ disk' = sc /\ acked' = sc /\ proc' = "up" /\ mem' = sc /\ accounts' = sc.users
        /\ running' = [front |-> c, back |-> c]
        /\ UNCHANGED <<env, backup, req, minted, edits, crashes>>
    BY <1>2 DEF StartFromEnv, Run
  <2> HIDE DEF sc, c
  <2>3. running' \in [front : Services, back : Services] /\ accounts' \in [AccountNames -> Int]
    BY <2>1, <2>2, ConfigShape, RunningSet DEF StoreTypes
  <2>. QED
    BY <2>1, <2>2, <2>3 DEF StoreTypes
<1>3. CASE StartFails
  BY <1>3 DEF StoreTypes, StartFails
<1>4. CASE StoreCrash
  <2>1. running' \in [front : Services, back : Services]
    BY <1>4, BlankFacts, InServices, RunningSet DEF StoreTypes, StoreCrash
  <2>2. req' \in [Editors -> Request]
    BY <1>4, NoRequestFacts, Zenon DEF StoreCrash
  <2>. QED
    BY <1>4, <2>1, <2>2, BlankFacts DEF StoreTypes, StoreCrash
<1>5. CASE Export
  BY <1>5 DEF StoreTypes, Export
<1>6. ASSUME NEW q \in Editors, NEW e \in Edits, Edit(q, e) PROVE StoreTypes'
  <2>1. req' \in [Editors -> Request]
    BY <1>6, EditBegins, ZenonT(30) DEF StoreTypes
  <2>2. edits' = edits + 1 /\ minted' \in {minted, minted + 1}
    BY <1>6, Zenon DEF Edit, Begin
  <2>3. edits' \in Nat /\ minted' \in Nat
    BY <2>2 DEF StoreTypes
  <2>. QED
    BY <1>6, <2>1, <2>3, Zenon DEF StoreTypes, Edit
<1>7. ASSUME NEW q \in Editors, NEW e \in Edits, ChangeAccount(q, e) PROVE StoreTypes'
  <2>1. edits' \in Nat
    BY <1>7 DEF StoreTypes, ChangeAccount, Begin
  <2>. QED
    BY <1>7, <2>1, AccountBegins, Zenon DEF StoreTypes, ChangeAccount
<1>8. ASSUME NEW q \in Editors PROVE Update(q) => StoreTypes'
  <2>1. req[q].draft \in StoredConfig
    BY DEF StoreTypes, Request
  <2>. QED
    BY <2>1, RequestTyped, StepLeaves, Zenon DEF StoreTypes, Update, RequestStep
<1>9. ASSUME NEW q \in Editors PROVE PersistableUsers(q) => StoreTypes'
  BY RequestTyped, StepLeaves, Zenon DEF StoreTypes, PersistableUsers, RequestStep
<1>10. ASSUME NEW q \in Editors PROVE SetUsers(q) => StoreTypes'
  <2>1. req[q].draft.users \in [AccountNames -> Int]
    BY ConfigShape DEF StoreTypes, Request
  <2>2. [mem EXCEPT !.users = req[q].draft.users] \in StoredConfig
    BY <2>1, UsersReplaced DEF StoreTypes
  <2>. QED
    BY <2>2, RequestTyped, StepLeaves, Zenon DEF StoreTypes, SetUsers, RequestStep
<1>11. ASSUME NEW q \in Editors PROVE Snapshot(q) => StoreTypes'
  BY RequestTyped, StepLeaves, Zenon DEF StoreTypes, Snapshot, RequestStep
<1>12. ASSUME NEW q \in Editors PROVE RenameConfig(q) => StoreTypes'
  <2>1. req[q].snap \in StoredConfig
    BY DEF StoreTypes, Request
  <2>. QED
    BY <2>1, RequestTyped, StepLeaves, Zenon DEF StoreTypes, RenameConfig, RequestStep
<1>13. ASSUME NEW q \in Editors PROVE SaveFails(q) => StoreTypes'
  BY RequestTyped, StepLeaves, Zenon DEF StoreTypes, SaveFails, RequestStep
<1>14. ASSUME NEW q \in Editors PROVE Convert(q) => StoreTypes'
  BY RequestTyped, StepLeaves, Zenon DEF StoreTypes, Convert, RequestStep
<1>15. ASSUME NEW q \in Editors PROVE ReloadFront(q) \/ ReloadBack(q) => StoreTypes'
  <2>1. req[q].conv \in Services
    BY InServices DEF StoreTypes, Request
  <2>2. ReloadFront(q) \/ ReloadBack(q) => running' \in [front : Services, back : Services]
    BY <2>1, RunningSet, Zenon DEF StoreTypes, ReloadFront, ReloadBack
  <2>. QED
    BY <2>2, RequestTyped, StepLeaves, Zenon DEF StoreTypes, ReloadFront, ReloadBack, RequestStep
<1>16. ASSUME NEW q \in Editors PROVE Acknowledge(q) => StoreTypes'
  <2>1. req[q].draft \in StoredConfig
    BY DEF StoreTypes, Request
  <2>. QED
    BY <2>1, RequestTyped, StepLeaves, Zenon DEF StoreTypes, Acknowledge, RequestStep
<1>17. CASE UNCHANGED storeVars
  BY <1>17 DEF StoreTypes, storeVars, aside
<1>. QED
  BY <1>1, <1>2, <1>3, <1>4, <1>5, <1>6, <1>7, <1>8, <1>9, <1>10, <1>11, <1>12, <1>13, <1>14,
     <1>15, <1>16, <1>17 DEF StoreNext

(* The store never holds anything but configurations, for any requests,    *)
(* crashes and interleavings.                                              *)
THEOREM StoreTypesHold == StoreSpec => []StoreTypes
<1>. QED
  BY TypesInit, TypesStep, PTL DEF StoreSpec
-----------------------------------------------------------------------------
LEMMA DownInit == StoreInit => DownInv
BY DEF StoreInit, DownInv

(* Only requests of a process that is up take steps.                       *)
LEMMA StepsWhenUp ==
  ASSUME StoreTypes, DownInv, NEW q \in Editors, RequestStep(q)
  PROVE  proc = "up" /\ req[q].at # "idle"
<1>1. req[q].at # "idle"
  BY Zenon DEF RequestStep, Update, PersistableUsers, SetUsers, Snapshot, RenameConfig, SaveFails,
       Convert, ReloadFront, ReloadBack, Acknowledge
<1>2. proc # "up" => req[q] = NoRequest
  BY DEF DownInv
<1>. QED
  BY <1>1, <1>2, NoRequestFacts

LEMMA DownStep == StoreTypes /\ DownInv /\ [StoreNext]_storeVars => DownInv'
<1> SUFFICES ASSUME StoreTypes, DownInv, [StoreNext]_storeVars PROVE DownInv'
  OBVIOUS
<1>1. NoConfig \notin StoredConfig
  BY ConfigAssumption
<1>2. CASE StartFromFile
  BY <1>2 DEF DownInv, StartFromFile, Run
<1>3. CASE StartFromEnv
  <2>1. disk' \in StoredConfig
    BY <1>3, FirstConfig DEF StoreTypes, StartFromEnv
  <2>. QED
    BY <1>1, <1>3, <2>1, Zenon DEF DownInv, StartFromEnv, Run
<1>4. CASE StartFails
  BY <1>4 DEF DownInv, StartFails
<1>5. CASE StoreCrash
  BY <1>5 DEF DownInv, StoreCrash
<1>6. CASE Export
  BY <1>6 DEF DownInv, Export
<1>7. ASSUME NEW q \in Editors, NEW e \in Edits, Edit(q, e) \/ ChangeAccount(q, e) PROVE DownInv'
  <2>1. proc = "up" /\ UNCHANGED <<proc, disk, backup>>
    BY <1>7, Zenon DEF Edit, ChangeAccount, Begin
  <2>. QED
    BY <2>1, Zenon DEF DownInv
<1>8. ASSUME NEW q \in Editors, RequestStep(q) PROVE DownInv'
  <2>1. proc = "up" /\ UNCHANGED <<proc, backup>>
    BY <1>8, StepsWhenUp, StepLeaves, Zenon
  <2>2. req[q].snap \in StoredConfig
    BY DEF StoreTypes, Request
  <2>3. disk' = disk \/ disk' = req[q].snap
    BY <1>8, Zenon DEF RequestStep, Update, PersistableUsers, SetUsers, Snapshot, RenameConfig,
         SaveFails, Convert, ReloadFront, ReloadBack, Acknowledge
  <2>. QED
    BY <1>1, <2>1, <2>2, <2>3, Zenon DEF DownInv
<1>9. CASE UNCHANGED storeVars
  BY <1>9 DEF DownInv, storeVars, aside
<1>. QED
  BY <1>2, <1>3, <1>4, <1>5, <1>6, <1>7, <1>8, <1>9, Zenon DEF StoreNext, RequestStep
-----------------------------------------------------------------------------
LEMMA BlankFine ==
  ASSUME NEW asked
  PROVE  /\ Fine(Blank, asked) /\ Careful(ToConfig(Blank), asked)
         /\ RequestFine(NoRequest, asked)
<1>1. Blank.opts.dry # "delete" /\ ToConfig(Blank).opts.dry # "delete"
  BY BlankFacts, ConvertedDry
<1>2. Fine(Blank, asked) /\ Careful(ToConfig(Blank), asked)
  BY <1>1, BlankFacts, Zenon DEF Fine, Careful
<1>. QED
  BY <1>2, NoRequestFacts, Zenon DEF RequestFine

LEMMA ConvertedCareful ==
  ASSUME NEW sc \in StoredConfig, NEW asked, Fine(sc, asked)
  PROVE  Careful(ToConfig(sc), asked)
BY ConvertedDry, Zenon DEF Fine, Careful

LEMMA FineInit == StoreInit => FineInv
<1> SUFFICES ASSUME StoreInit PROVE FineInv
  OBVIOUS
<1>1. running.front = ToConfig(Blank) /\ running.back = ToConfig(Blank)
  BY DEF StoreInit
<1>2. mem = Blank /\ disk = NoConfig /\ backup = NoConfig /\ \A q \in Editors : req[q] = NoRequest
  BY DEF StoreInit
<1>. QED
  BY <1>1, <1>2, BlankFine, Zenon DEF FineInv

(* A step that does not take back a request for pruning keeps what was     *)
(* fine.                                                                   *)
LEMMA FineKept ==
  ASSUME FineInv, pruneAsked => pruneAsked'
  PROVE  /\ \A sc : Fine(sc, pruneAsked) => Fine(sc, pruneAsked')
         /\ \A q \in Editors : RequestFine(req[q], pruneAsked')
         /\ Careful(running.front, pruneAsked') /\ Careful(running.back, pruneAsked')
         /\ Fine(mem, pruneAsked') /\ (disk # NoConfig => Fine(disk, pruneAsked'))
         /\ backup # NoConfig => Fine(backup, pruneAsked')
<1>1. \A sc : Fine(sc, pruneAsked) => Fine(sc, pruneAsked')
  BY Zenon DEF Fine
<1>2. \A c : Careful(c, pruneAsked) => Careful(c, pruneAsked')
  BY Zenon DEF Careful
<1>. QED
  BY <1>1, <1>2, Zenon DEF FineInv, RequestFine

LEMMA FineRequestStep ==
  ASSUME StoreTypes, FineInv, NEW q \in Editors, RequestStep(q)
  PROVE  FineInv'
<1> DEFINE r == req[q]
<1>1. UNCHANGED <<backup, pruneAsked>>
  BY StepLeaves, Zenon
<1>2. /\ Fine(mem, pruneAsked) /\ (disk # NoConfig => Fine(disk, pruneAsked))
      /\ Fine(r.draft, pruneAsked) /\ Fine(r.snap, pruneAsked) /\ Careful(r.conv, pruneAsked)
      /\ \A p \in Editors : RequestFine(req[p], pruneAsked)
      /\ Careful(running.front, pruneAsked) /\ Careful(running.back, pruneAsked)
      /\ backup # NoConfig => Fine(backup, pruneAsked)
  BY Zenon DEF FineInv, RequestFine
<1>3. /\ req[q] \in Request /\ mem \in StoredConfig /\ accounts \in [AccountNames -> Int]
      /\ r.draft \in StoredConfig /\ r.draft.users \in [AccountNames -> Int]
      /\ running \in [front : Services, back : Services] /\ r.conv \in Services
  BY InServices, ConfigShape DEF StoreTypes, Request
<1>4. ASSUME NEW sc \in StoredConfig, NEW u \in [AccountNames -> Int], Fine(sc, pruneAsked)
      PROVE  Fine([sc EXCEPT !.users = u], pruneAsked)
  BY <1>4, UsersReplaced DEF Fine
<1> HIDE DEF r
<1>5. Fine(mem', pruneAsked) /\ (disk' # NoConfig => Fine(disk', pruneAsked))
  <2>1. /\ mem' = mem \/ mem' = r.draft \/ mem' = [mem EXCEPT !.users = r.draft.users]
        /\ disk' = disk \/ disk' = r.snap
    BY Zenon DEF RequestStep, Update, PersistableUsers, SetUsers, Snapshot,
         RenameConfig, SaveFails, Convert, ReloadFront, ReloadBack, Acknowledge, r
  <2>2. Fine(mem', pruneAsked)
    BY <1>2, <1>3, <1>4, <2>1, Zenon
  <2>. QED
    BY <1>2, <2>1, <2>2, Zenon
<1>6. Careful(running'.front, pruneAsked) /\ Careful(running'.back, pruneAsked)
  <2>1. \/ running' = running
        \/ running' = [running EXCEPT !.front = r.conv]
        \/ running' = [running EXCEPT !.back = r.conv]
    BY Zenon DEF RequestStep, Update, PersistableUsers, SetUsers, Snapshot,
         RenameConfig, SaveFails, Convert, ReloadFront, ReloadBack, Acknowledge, r
  <2>. QED
    BY <1>2, <1>3, <2>1, RunningSet, Zenon
<1>7. \A p \in Editors : RequestFine(req'[p], pruneAsked)
  <2>1. Careful(ToConfig(mem), pruneAsked)
    BY <1>2, <1>3, ConvertedCareful
  <2>2. \A p \in Editors : p # q => req'[p] = req[p]
    BY RequestMoves, Zenon DEF RequestStep, Moved, Cleared
  <2>3. RequestFine(req'[q], pruneAsked)
    <3> DEFINE n == req'[q]
    <3>1. \/ Cleared(q)
          \/ /\ \/ n.draft = r.draft \/ n.draft = [r.draft EXCEPT !.users = accounts]
                \/ n.draft = [mem EXCEPT !.users = r.draft.users]
             /\ n.snap = r.snap \/ n.snap = mem
             /\ n.conv = r.conv \/ n.conv = ToConfig(mem)
      BY RequestMoves, ZenonT(30) DEF RequestStep, Moved, r
    <3>2. Cleared(q) => n = NoRequest
      BY Zenon DEF Cleared
    <3> HIDE DEF n
    <3>3. CASE n = NoRequest
      BY <3>3, BlankFine, Zenon DEF n
    <3>4. CASE ~Cleared(q)
      <4>1. Fine(n.draft, pruneAsked)
        BY <1>2, <1>3, <1>4, <3>1, <3>4, Zenon
      <4>2. Fine(n.snap, pruneAsked) /\ Careful(n.conv, pruneAsked)
        BY <1>2, <2>1, <3>1, <3>4, Zenon
      <4>. QED
        BY <4>1, <4>2, Zenon DEF RequestFine, n
    <3>. QED
      BY <3>2, <3>3, <3>4, Zenon
  <2>. QED
    BY <1>2, <2>2, <2>3, Zenon
<1>. QED
  BY <1>1, <1>2, <1>5, <1>6, <1>7, Zenon DEF FineInv

LEMMA FineStep == StoreTypes /\ DownInv /\ FineInv /\ [StoreNext]_storeVars => FineInv'
<1> SUFFICES ASSUME StoreTypes, DownInv, FineInv, [StoreNext]_storeVars PROVE FineInv'
  OBVIOUS
<1>1. CASE StartFromFile
  <2>1. /\ disk \in StoredConfig /\ disk # NoConfig /\ mem' = disk
        /\ running'.front = ToConfig(disk) /\ running'.back = ToConfig(disk)
        /\ UNCHANGED <<disk, backup, req, pruneAsked>>
    BY <1>1 DEF StoreTypes, StartFromFile, Run
  <2>2. Fine(disk, pruneAsked) /\ Careful(ToConfig(disk), pruneAsked)
    BY <2>1, ConvertedCareful, Zenon DEF FineInv
  <2>. QED
    BY <2>1, <2>2, Zenon DEF FineInv
<1>2. CASE StartFromEnv
  <2> DEFINE l == LoadEnv(env)
             sc == MigrateFromEnv(l)
             c == FromEnv(l)
  <2>1. sc \in StoredConfig /\ DistinctIds(sc) /\ sc.opts = env.opts /\ c.opts = env.opts
    BY FirstConfig, Zenon DEF StoreTypes
  <2>2. /\ disk' = sc /\ mem' = sc /\ running' = [front |-> c, back |-> c]
        /\ pruneAsked' = (env.opts.dry = "delete") /\ UNCHANGED <<backup, req>>
    BY <1>2, Zenon DEF StartFromEnv, Run
  <2>3. backup = NoConfig /\ \A q \in Editors : req[q] = NoRequest
    BY <1>2 DEF DownInv, StartFromEnv
  <2> HIDE DEF sc, c
  <2>4. Fine(sc, pruneAsked') /\ Careful(c, pruneAsked')
    BY <2>1, <2>2, Zenon DEF Fine, Careful
  <2>5. running'.front = c /\ running'.back = c
    BY <2>2
  <2>. QED
    BY <2>2, <2>3, <2>4, <2>5, BlankFine, Zenon DEF FineInv
<1>3. CASE StartFails
  BY <1>3, Zenon DEF FineInv, StartFails
<1>4. CASE StoreCrash
  <2>1. /\ mem' = Blank /\ running'.front = ToConfig(Blank) /\ running'.back = ToConfig(Blank)
        /\ \A q \in Editors : req'[q] = NoRequest
        /\ UNCHANGED <<disk, backup, pruneAsked>>
    BY <1>4 DEF StoreCrash
  <2>. QED
    BY <2>1, BlankFine, Zenon DEF FineInv
<1>5. CASE Export
  BY <1>5, Zenon DEF FineInv, Export
<1>6. ASSUME NEW q \in Editors, NEW e \in Edits, Edit(q, e) PROVE FineInv'
  <2>1. /\ pruneAsked' = (pruneAsked \/ (e.do = "patch" /\ e.dry = "delete"))
        /\ UNCHANGED <<disk, mem, running, backup>>
    BY <1>6, Zenon DEF Edit
  <2>2. pruneAsked => pruneAsked'
    BY <2>1, Zenon
  <2>3. \A p \in Editors : RequestFine(req'[p], pruneAsked')
    <3>1. CASE req' = req
      BY <2>2, <3>1, FineKept, Zenon
    <3>2. CASE req' # req
      <4>1. PICK d \in StoredConfig :
              /\ DraftOK(e, mem, d) /\ \A p \in Editors : p # q => req'[p] = req[p]
              /\ req'[q].draft = d /\ req'[q].snap = Blank /\ req'[q].conv = ToConfig(Blank)
        BY <1>6, <3>2, EditBegins, ZenonT(30)
      <4>2. /\ DistinctIds(mem) /\ (backup # NoConfig => DistinctIds(backup))
            /\ mem.opts.dry = "delete" => pruneAsked
            /\ backup # NoConfig /\ backup.opts.dry = "delete" => pruneAsked
        BY Zenon DEF FineInv, Fine
      <4>3. Fine(d, pruneAsked')
        BY <2>1, <4>1, <4>2, Zenon DEF DraftOK, Fine
      <4>4. RequestFine(req'[q], pruneAsked')
        BY <4>1, <4>3, BlankFine, Zenon DEF RequestFine
      <4>. QED
        BY <2>2, <4>1, <4>4, FineKept, Zenon
    <3>. QED
      BY <3>1, <3>2, Zenon
  <2>. QED
    BY <2>1, <2>2, <2>3, FineKept, Zenon DEF FineInv
<1>7. ASSUME NEW q \in Editors, NEW e \in Edits, ChangeAccount(q, e) PROVE FineInv'
  <2>1. UNCHANGED <<disk, mem, running, backup, pruneAsked>>
    BY <1>7, Zenon DEF ChangeAccount
  <2>2. \A p \in Editors : RequestFine(req'[p], pruneAsked)
    BY <1>7, AccountBegins, BlankFine, Zenon DEF RequestFine, FineInv
  <2>. QED
    BY <2>1, <2>2, Zenon DEF FineInv
<1>8. ASSUME NEW q \in Editors, RequestStep(q) PROVE FineInv'
  BY <1>8, FineRequestStep, Zenon
<1>9. CASE UNCHANGED storeVars
  BY <1>9, Zenon DEF FineInv, storeVars, aside
<1>. QED
  BY <1>1, <1>2, <1>3, <1>4, <1>5, <1>6, <1>7, <1>8, <1>9, Zenon DEF StoreNext, RequestStep

LEMMA FineHolds == StoreSpec => [](StoreTypes /\ DownInv /\ FineInv)
<1> DEFINE Inv == StoreTypes /\ DownInv /\ FineInv
<1>1. StoreInit => Inv
  BY TypesInit, DownInit, FineInit
<1>2. Inv /\ [StoreNext]_storeVars => Inv'
  BY TypesStep, DownStep, FineStep
<1>. QED
  BY <1>1, <1>2, PTL DEF StoreSpec

(* Services are pruned for real only if somebody asked for that, in the    *)
(* environment or in a settings request, for any requests and backups.     *)
THEOREM PruningWasAsked == StoreSpec => []PruneOnlyIfAsked
<1>1. FineInv => PruneOnlyIfAsked
  BY Zenon DEF FineInv, Careful, PruneOnlyIfAsked
<1>. QED
  BY <1>1, FineHolds, PTL

(* A masked copy imported over the configuration it was made from changes  *)
(* nothing, whatever targets and keys were added and deleted before.       *)
THEOREM MaskedCopyAlwaysHarmless == StoreSpec => []MaskedCopyIsHarmless
<1>1. StoreTypes /\ FineInv => MaskedCopyIsHarmless
  <2> SUFFICES ASSUME StoreTypes, FineInv PROVE MaskedCopyIsHarmless
    OBVIOUS
  <2>1. mem \in StoredConfig /\ DistinctIds(mem)
    BY Zenon DEF StoreTypes, FineInv, Fine
  <2>. QED
    BY <2>1, MaskedCopy, Zenon DEF MaskedCopyIsHarmless
<1>. QED
  BY <1>1, FineHolds, PTL
-----------------------------------------------------------------------------
LEMMA SameAsItself == \A c : SameService(c, c)
BY DEF SameService

(* While requests come one at a time, all others are idle when one steps.  *)
LEMMA OneAtATime ==
  ASSUME StoreTypes, Alone, NEW q \in Editors, RequestStep(q)
  PROVE  \A p \in Editors : p # q => req[p].at = "idle" /\ req'[p] = req[p]
<1>1. req[q].at # "idle"
  BY Zenon DEF RequestStep, Update, PersistableUsers, SetUsers, Snapshot, RenameConfig, SaveFails,
       Convert, ReloadFront, ReloadBack, Acknowledge
<1>2. \A p \in Editors : p # q => req'[p] = req[p]
  BY RequestMoves, Zenon DEF RequestStep, Moved, Cleared
<1>. QED
  BY <1>1, <1>2, Zenon DEF Alone

LEMMA StoredStep ==
  ASSUME StoreTypes, Alone, StoredInv, NEW q \in Editors, RequestStep(q)
  PROVE  StoredInv'
<1> DEFINE Ren == {"convert", "front", "back", "answer"}
<1>1. \A p \in Editors : p # q => req[p].at = "idle" /\ req'[p].at = "idle"
  BY OneAtATime, Zenon
<1>2. /\ req[q].at \notin Ren => disk = acked
      /\ req[q].at = "save" => mem = req[q].draft
      /\ req[q].at = "rename" => req[q].snap = req[q].draft /\ req[q].snap = mem
      /\ req[q].at \in Ren => disk = req[q].draft
  BY <1>1 DEF StoredInv, None, Renamed
<1>3. ASSUME /\ req'[q].at \notin Ren => disk' = acked'
             /\ req'[q].at = "save" => mem' = req'[q].draft
             /\ req'[q].at = "rename" => req'[q].snap = req'[q].draft /\ req'[q].snap = mem'
             /\ req'[q].at \in Ren => disk' = req'[q].draft
      PROVE  StoredInv'
  BY <1>1, <1>3 DEF StoredInv, None, Renamed
<1>4. CASE Update(q)
  <2>1. /\ req[q].at = "update" /\ req'[q].at = "save" /\ req'[q].draft = req[q].draft
        /\ mem' = req[q].draft /\ disk' = disk /\ acked' = acked
    BY <1>4, RequestMoves, Zenon DEF Update, Moved
  <2>. QED
    BY <1>2, <1>3, <2>1
<1>5. CASE PersistableUsers(q)
  <2>1. /\ req[q].at = "collect" /\ req'[q].at = "users" /\ disk' = disk /\ acked' = acked
    BY <1>5, RequestMoves, Zenon DEF PersistableUsers, Moved
  <2>. QED
    BY <1>2, <1>3, <2>1
<1>6. CASE SetUsers(q)
  <2>1. /\ req[q].at = "users" /\ req'[q].at = "save" /\ req'[q].draft = mem'
        /\ disk' = disk /\ acked' = acked
    BY <1>6, RequestMoves, Zenon DEF SetUsers, Moved
  <2>. QED
    BY <1>2, <1>3, <2>1
<1>7. CASE Snapshot(q)
  <2>1. /\ req[q].at = "save" /\ req'[q].at = "rename" /\ req'[q].draft = req[q].draft
        /\ req'[q].snap = mem /\ mem' = mem /\ disk' = disk /\ acked' = acked
    BY <1>7, RequestMoves, Zenon DEF Snapshot, Moved
  <2>. QED
    BY <1>2, <1>3, <2>1
<1>8. CASE RenameConfig(q)
  <2>1. /\ req[q].at = "rename" /\ req'[q].at = AfterSave(q) /\ req'[q].draft = req[q].draft
        /\ disk' = req[q].snap
    BY <1>8, RequestMoves, Zenon DEF RenameConfig, Moved
  <2>2. AfterSave(q) \in {"answer", "convert"}
    BY DEF AfterSave
  <2>. QED
    BY <1>2, <1>3, <2>1, <2>2
<1>9. CASE SaveFails(q)
  <2>1. req[q].at = "rename" /\ req'[q].at = "idle" /\ disk' = disk /\ acked' = acked
    BY <1>9, RequestMoves, NoRequestFacts, Zenon DEF SaveFails, Cleared
  <2>. QED
    BY <1>2, <1>3, <2>1
<1>10. CASE Acknowledge(q)
  <2>1. req[q].at = "answer" /\ req'[q].at = "idle" /\ disk' = disk /\ acked' = req[q].draft
    BY <1>10, RequestMoves, NoRequestFacts, Zenon DEF Acknowledge, Cleared
  <2>. QED
    BY <1>2, <1>3, <2>1
<1>11. CASE Convert(q) \/ ReloadFront(q) \/ ReloadBack(q)
  <2>1. /\ req[q].at \in Ren /\ req'[q].at \in Ren /\ req'[q].draft = req[q].draft /\ disk' = disk
    BY <1>11, RequestMoves, Zenon DEF Convert, ReloadFront, ReloadBack, Moved
  <2>. QED
    BY <1>2, <1>3, <2>1
<1>. QED
  BY <1>4, <1>5, <1>6, <1>7, <1>8, <1>9, <1>10, <1>11, Zenon DEF RequestStep

LEMMA RunningStep ==
  ASSUME StoreTypes, Alone, StoredInv, RunningInv, NEW q \in Editors, RequestStep(q)
  PROVE  RunningInv'
<1> DEFINE Same(c, sc) == SameService(c, ToConfig(sc))
<1>1. \A p \in Editors : p # q => req[p].at = "idle" /\ req'[p].at = "idle"
  BY OneAtATime, Zenon
<1>2. /\ ~unsaved /\ req[q].at \notin {"save", "rename"} => mem = disk
      /\ req[q].at = "rename" => req[q].snap = mem
      /\ ~unapplied /\ req[q].at \notin {"front", "back"} =>
           Same(running.front, mem) /\ Same(running.back, mem)
      /\ req[q].at \in {"front", "back"} => req[q].conv = ToConfig(mem)
      /\ req[q].at = "back" => running.front = req[q].conv
  BY <1>1 DEF RunningInv, StoredInv, None
<1>3. ASSUME /\ ~unsaved' /\ req'[q].at \notin {"save", "rename"} => mem' = disk'
             /\ ~unapplied' /\ req'[q].at \notin {"front", "back"} =>
                  Same(running'.front, mem') /\ Same(running'.back, mem')
             /\ req'[q].at \in {"front", "back"} => req'[q].conv = ToConfig(mem')
             /\ req'[q].at = "back" => running'.front = req'[q].conv
      PROVE  RunningInv'
  BY <1>1, <1>3, Zenon DEF RunningInv, None
<1> HIDE DEF Same
<1>4. CASE Update(q)
  <2>1. req[q].at = "update" /\ req'[q].at = "save" /\ unapplied'
    BY <1>4, RequestMoves, Zenon DEF Update, Moved
  <2>. QED
    BY <1>3, <2>1
<1>5. CASE PersistableUsers(q)
  <2>1. /\ req[q].at = "collect" /\ req'[q].at = "users"
        /\ UNCHANGED <<disk, mem, running, unsaved, unapplied>>
    BY <1>5, RequestMoves, Zenon DEF PersistableUsers, Moved
  <2>. QED
    BY <1>2, <1>3, <2>1
<1>6. CASE SetUsers(q)
  <2>1. /\ req[q].at = "users" /\ req'[q].at = "save"
        /\ mem' = [mem EXCEPT !.users = req[q].draft.users] /\ UNCHANGED <<running, unapplied>>
    BY <1>6, RequestMoves, Zenon DEF SetUsers, Moved
  <2>2. req[q].draft.users \in [AccountNames -> Int] /\ mem \in StoredConfig
    BY ConfigShape DEF StoreTypes, Request
  <2>3. ToConfig(mem') = ToConfig(mem)
    BY <2>1, <2>2, UsersReplaced, Zenon
  <2>4. \A c : Same(c, mem') <=> Same(c, mem)
    BY <2>3, Zenon DEF Same
  <2>. QED
    BY <1>2, <1>3, <2>1, <2>4
<1>7. CASE Snapshot(q)
  <2>1. /\ req[q].at = "save" /\ req'[q].at = "rename"
        /\ UNCHANGED <<disk, mem, running, unsaved, unapplied>>
    BY <1>7, RequestMoves, Zenon DEF Snapshot, Moved
  <2>. QED
    BY <1>2, <1>3, <2>1
<1>8. CASE RenameConfig(q)
  <2>1. /\ req[q].at = "rename" /\ req'[q].at = AfterSave(q) /\ disk' = req[q].snap
        /\ UNCHANGED <<mem, running, unapplied>>
    BY <1>8, RequestMoves, Zenon DEF RenameConfig, Moved
  <2>2. AfterSave(q) \in {"answer", "convert"}
    BY DEF AfterSave
  <2>. QED
    BY <1>2, <1>3, <2>1, <2>2
<1>9. CASE SaveFails(q)
  <2>1. /\ req[q].at = "rename" /\ req'[q].at = "idle" /\ unsaved'
        /\ UNCHANGED <<disk, mem, running, unapplied>>
    BY <1>9, RequestMoves, NoRequestFacts, Zenon DEF SaveFails, Cleared
  <2>. QED
    BY <1>2, <1>3, <2>1
<1>10. CASE Convert(q)
  <2>1. /\ req[q].at = "convert" /\ req'[q].at = "front" /\ req'[q].conv = ToConfig(mem)
        /\ UNCHANGED <<disk, mem, unsaved>>
    BY <1>10, RequestMoves, Zenon DEF Convert, Moved
  <2>. QED
    BY <1>2, <1>3, <2>1
<1>11. CASE ReloadFront(q)
  <2>1. /\ req[q].at = "front" /\ req'[q].at = "back" /\ req'[q].conv = req[q].conv
        /\ running' = [running EXCEPT !.front = req[q].conv] /\ UNCHANGED <<disk, mem, unsaved>>
    BY <1>11, RequestMoves, Zenon DEF ReloadFront, Moved
  <2>2. running \in [front : Services, back : Services] /\ req[q].conv \in Services
    BY InServices DEF StoreTypes, Request
  <2>3. running'.front = req[q].conv
    BY <2>1, <2>2, RunningSet, Zenon
  <2>. QED
    BY <1>2, <1>3, <2>1, <2>3
<1>12. CASE ReloadBack(q)
  <2>1. /\ req[q].at = "back" /\ req'[q].at = "answer"
        /\ running' = [running EXCEPT !.back = req[q].conv] /\ UNCHANGED <<disk, mem, unsaved>>
    BY <1>12, RequestMoves, Zenon DEF ReloadBack, Moved
  <2>2. running \in [front : Services, back : Services] /\ req[q].conv \in Services
    BY InServices DEF StoreTypes, Request
  <2>3. running'.front = running.front /\ running'.back = req[q].conv
    BY <2>1, <2>2, RunningSet, Zenon
  <2>4. running'.front = ToConfig(mem) /\ running'.back = ToConfig(mem)
    BY <1>2, <2>1, <2>3
  <2>5. Same(running'.front, mem') /\ Same(running'.back, mem')
    BY <2>1, <2>4, SameAsItself, Zenon DEF Same
  <2>. QED
    BY <1>2, <1>3, <2>1, <2>5
<1>13. CASE Acknowledge(q)
  <2>1. /\ req[q].at = "answer" /\ req'[q].at = "idle"
        /\ UNCHANGED <<disk, mem, running, unsaved, unapplied>>
    BY <1>13, RequestMoves, NoRequestFacts, Zenon DEF Acknowledge, Cleared
  <2>. QED
    BY <1>2, <1>3, <2>1
<1>. QED
  BY <1>4, <1>5, <1>6, <1>7, <1>8, <1>9, <1>10, <1>11, <1>12, <1>13, Zenon DEF RequestStep

LEMMA UsersStep ==
  ASSUME StoreTypes, Alone, UsersInv, NEW q \in Editors, RequestStep(q)
  PROVE  UsersInv'
<1>1. \A p \in Editors : p # q => req[p].at = "idle" /\ req'[p].at = "idle"
  BY OneAtATime, Zenon
<1>2. /\ ~usersImported /\ req[q].at \notin {"collect", "users"} => accounts = mem.users
      /\ req[q].at = "update" /\ req[q].edit.do # "import" => req[q].draft.users = mem.users
      /\ req[q].at = "users" => req[q].draft.users = accounts
  BY <1>1 DEF UsersInv, None
<1>3. ASSUME /\ ~usersImported' /\ req'[q].at \notin {"collect", "users"} => accounts' = mem'.users
             /\ req'[q].at # "update"
             /\ req'[q].at = "users" => req'[q].draft.users = accounts'
      PROVE  UsersInv'
  BY <1>1, <1>3 DEF UsersInv, None
<1>4. mem \in StoredConfig /\ req[q].draft \in StoredConfig /\ accounts \in [AccountNames -> Int]
      /\ req[q].draft.users \in [AccountNames -> Int]
  BY ConfigShape, Zenon DEF StoreTypes, Request
<1>5. CASE Update(q)
  <2>1. /\ req[q].at = "update" /\ req'[q].at = "save" /\ mem' = req[q].draft
        /\ usersImported' = (usersImported \/ req[q].edit.do = "import") /\ accounts' = accounts
    BY <1>5, RequestMoves, Zenon DEF Update, Moved
  <2>2. ~usersImported' => ~usersImported /\ req[q].edit.do # "import"
    BY <2>1, Zenon
  <2>. QED
    BY <1>2, <1>3, <2>1, <2>2
<1>6. CASE PersistableUsers(q)
  <2>1. /\ req'[q].at = "users" /\ accounts' = accounts
        /\ req'[q].draft = [req[q].draft EXCEPT !.users = accounts]
    BY <1>6, RequestMoves, Zenon DEF PersistableUsers, Moved
  <2>2. [req[q].draft EXCEPT !.users = accounts].users = accounts
    BY <1>4, UsersReplaced, Zenon
  <2>3. req'[q].draft.users = accounts
    BY <2>1, <2>2, Zenon
  <2>. QED
    BY <1>3, <2>1, <2>3
<1>7. CASE SetUsers(q)
  <2>1. /\ req[q].at = "users" /\ req'[q].at = "save" /\ accounts' = accounts
        /\ mem' = [mem EXCEPT !.users = req[q].draft.users]
    BY <1>7, RequestMoves, Zenon DEF SetUsers, Moved
  <2>2. mem'.users = req[q].draft.users
    BY <1>4, <2>1, UsersReplaced, Zenon
  <2>. QED
    BY <1>2, <1>3, <2>1, <2>2
<1>8. CASE /\ ~Update(q) /\ ~PersistableUsers(q) /\ ~SetUsers(q)
  <2>1. /\ req[q].at \in {"save", "rename", "convert", "front", "back", "answer"}
        /\ UNCHANGED <<mem, accounts, usersImported>>
    BY <1>8, Zenon DEF RequestStep, Snapshot, RenameConfig, SaveFails, Convert, ReloadFront,
         ReloadBack, Acknowledge
  <2>2. req'[q].at \in {"rename", "answer", "convert", "idle", "front", "back"}
    <3>1. AfterSave(q) \in {"answer", "convert"} /\ NoRequest.at = "idle"
      BY NoRequestFacts DEF AfterSave
    <3>. QED
      BY <1>8, <3>1, RequestMoves, Zenon DEF RequestStep, Moved, Cleared
  <2>. QED
    BY <1>2, <1>3, <2>1, <2>2
<1>. QED
  BY <1>5, <1>6, <1>7, <1>8, Zenon

LEMMA SerialInit == StoreInit => SerialInv
<1> SUFFICES ASSUME StoreInit PROVE SerialInv
  OBVIOUS
<1>1. disk = NoConfig /\ acked = NoConfig /\ proc = "down" /\ \A q \in Editors : req[q].at = "idle"
  BY NoRequestFacts DEF StoreInit
<1>. QED
  BY <1>1 DEF SerialInv, Alone, StoredInv, Renamed

(* With no request under way there is little to show.                      *)
LEMMA SerialWhenQuiet ==
  ASSUME Quiet', disk' = acked',
         proc' = "up" => /\ ~unsaved' => mem' = disk'
                         /\ ~unapplied' => /\ SameService(running'.front, ToConfig(mem'))
                                           /\ SameService(running'.back, ToConfig(mem'))
                         /\ ~usersImported' => accounts' = mem'.users
  PROVE  SerialInv'
<1>1. \A q \in Editors : req'[q].at = "idle"
  BY DEF Quiet
<1>2. Alone'
  BY <1>1, Zenon DEF Alone
<1>3. StoredInv'
  BY <1>1 DEF StoredInv, Renamed
<1>4. proc' = "up" => RunningInv'
  BY <1>1 DEF RunningInv
<1>5. proc' = "up" => UsersInv'
  BY <1>1 DEF UsersInv
<1>. QED
  BY <1>2, <1>3, <1>4, <1>5, Zenon DEF SerialInv

LEMMA QuietFacts ==
  ASSUME SerialInv, serial, Quiet
  PROVE  /\ disk = acked
         /\ proc = "up" => /\ ~unsaved => mem = disk
                           /\ ~unapplied => /\ SameService(running.front, ToConfig(mem))
                                            /\ SameService(running.back, ToConfig(mem))
                           /\ ~usersImported => accounts = mem.users
<1>1. \A S : "idle" \notin S => None(S)
  BY DEF Quiet, None
<1>2. /\ "idle" \notin {"convert", "front", "back", "answer"} /\ "idle" \notin {"save", "rename"}
      /\ "idle" \notin {"front", "back"} /\ "idle" \notin {"collect", "users"}
  OBVIOUS
<1>3. disk = acked
  BY <1>1, <1>2, Zenon DEF SerialInv, StoredInv
<1>. QED
  BY <1>1, <1>2, <1>3, Zenon DEF SerialInv, RunningInv, UsersInv

LEMMA SerialStep == StoreTypes /\ DownInv /\ SerialInv /\ [StoreNext]_storeVars => SerialInv'
<1> SUFFICES ASSUME StoreTypes, DownInv, SerialInv, [StoreNext]_storeVars PROVE SerialInv'
  OBVIOUS
<1>1. proc # "up" => Quiet
  BY NoRequestFacts DEF DownInv, Quiet
<1>2. serial /\ Quiet => disk = acked
  BY QuietFacts, Zenon
<1>3. CASE StartFromFile
  <2>1. /\ mem' = disk /\ accounts' = disk.users /\ running'.front = ToConfig(disk)
        /\ running'.back = ToConfig(disk) /\ proc = "down"
        /\ UNCHANGED <<disk, req, acked, serial>>
    BY <1>3 DEF StartFromFile, Run
  <2>2. Quiet'
    BY <1>1, <2>1 DEF Quiet
  <2>3. CASE serial
    BY <1>1, <1>2, <2>1, <2>2, <2>3, SerialWhenQuiet, SameAsItself, Zenon
  <2>. QED
    BY <2>1, <2>3, Zenon DEF SerialInv
<1>4. CASE StartFromEnv
  <2> DEFINE l == LoadEnv(env)
             sc == MigrateFromEnv(l)
             c == FromEnv(l)
  <2>1. SameService(c, ToConfig(sc))
    BY FirstConfig DEF StoreTypes
  <2>2. /\ disk' = sc /\ acked' = sc /\ mem' = sc /\ accounts' = sc.users /\ proc = "down"
        /\ running' = [front |-> c, back |-> c] /\ req' = req
    BY <1>4 DEF StartFromEnv, Run
  <2> HIDE DEF sc, c
  <2>3. running'.front = c /\ running'.back = c
    BY <2>2
  <2>4. Quiet'
    BY <1>1, <2>2 DEF Quiet
  <2>. QED
    BY <2>1, <2>2, <2>3, <2>4, SerialWhenQuiet, Zenon
<1>5. CASE StartFails
  <2>1. Quiet' /\ proc' # "up" /\ UNCHANGED <<disk, acked, serial>>
    BY <1>1, <1>5 DEF StartFails, Quiet
  <2>2. CASE serial
    BY <1>1, <1>2, <1>5, <2>1, <2>2, SerialWhenQuiet, Zenon DEF StartFails
  <2>. QED
    BY <2>1, <2>2, Zenon DEF SerialInv
<1>6. CASE StoreCrash
  <2>1. /\ proc' = "down" /\ disk' = disk
        /\ acked' = IF serial /\ \A q \in Editors : ~Renamed(q) THEN acked ELSE disk
    BY <1>6, Zenon DEF StoreCrash
  <2>2. Quiet'
    BY <1>6, NoRequestFacts DEF StoreCrash, Quiet
  <2>3. serial /\ (\A q \in Editors : ~Renamed(q)) => disk = acked
    BY Zenon DEF SerialInv, StoredInv, None, Renamed
  <2>4. disk' = acked'
    BY <2>1, <2>3, Zenon
  <2>. QED
    BY <2>1, <2>2, <2>4, SerialWhenQuiet
<1>7. CASE Export
  BY <1>7, Zenon DEF Export, SerialInv, Alone, StoredInv, RunningInv, UsersInv, None, Renamed
<1>8. ASSUME NEW q \in Editors, NEW e \in Edits, Edit(q, e), serial' PROVE SerialInv'
  <2>1. /\ serial /\ Quiet /\ proc = "up"
        /\ UNCHANGED <<proc, disk, mem, running, accounts, acked, unsaved, unapplied, usersImported>>
    BY <1>8, Zenon DEF Edit, Begin
  <2>2. /\ disk = acked /\ (~unsaved => mem = disk)
        /\ ~unapplied => /\ SameService(running.front, ToConfig(mem))
                         /\ SameService(running.back, ToConfig(mem))
        /\ ~usersImported => accounts = mem.users
    BY <2>1, QuietFacts, Zenon
  <2>3. CASE req' = req
    <3>1. Quiet'
      BY <2>1, <2>3 DEF Quiet
    <3>. QED
      BY <2>1, <2>2, <3>1, SerialWhenQuiet, Zenon
  <2>4. CASE req' # req
    <3>1. PICK d \in StoredConfig :
            /\ DraftOK(e, mem, d) /\ \A p \in Editors : p # q => req'[p] = req[p]
            /\ req'[q].at = "update" /\ req'[q].edit = e /\ req'[q].draft = d
      BY <1>8, <2>4, EditBegins, ZenonT(30)
    <3>2. \A p \in Editors : p # q => req'[p].at = "idle"
      BY <2>1, <3>1, Zenon DEF Quiet
    <3>3. e.do # "import" => d.users = mem.users
      BY <3>1, Zenon DEF DraftOK
    <3>4. Alone'
      BY <3>2, Zenon DEF Alone
    <3>5. StoredInv'
      BY <2>1, <2>2, <3>1, <3>2 DEF StoredInv, Renamed
    <3>6. RunningInv'
      BY <2>1, <2>2, <3>1, <3>2 DEF RunningInv
    <3>7. UsersInv'
      BY <2>1, <2>2, <3>1, <3>2, <3>3 DEF UsersInv
    <3>. QED
      BY <3>4, <3>5, <3>6, <3>7, Zenon DEF SerialInv
  <2>. QED
    BY <2>3, <2>4, Zenon
<1>9. ASSUME NEW q \in Editors, NEW e \in Edits, ChangeAccount(q, e), serial' PROVE SerialInv'
  <2>1. /\ serial /\ Quiet /\ proc = "up"
        /\ UNCHANGED <<proc, disk, mem, running, acked, unsaved, unapplied, usersImported>>
    BY <1>9, Zenon DEF ChangeAccount, Begin
  <2>2. /\ disk = acked /\ (~unsaved => mem = disk)
        /\ ~unapplied => /\ SameService(running.front, ToConfig(mem))
                         /\ SameService(running.back, ToConfig(mem))
    BY <2>1, QuietFacts, Zenon
  <2>3. req'[q].at = "collect" /\ \A p \in Editors : p # q => req'[p].at = "idle"
    BY <1>9, <2>1, AccountBegins, Zenon DEF Quiet
  <2>4. Alone'
    BY <2>3, Zenon DEF Alone
  <2>5. StoredInv'
    BY <2>1, <2>2, <2>3 DEF StoredInv, Renamed
  <2>6. RunningInv'
    BY <2>1, <2>2, <2>3 DEF RunningInv
  <2>7. UsersInv'
    BY <2>3 DEF UsersInv, None
  <2>. QED
    BY <2>4, <2>5, <2>6, <2>7, Zenon DEF SerialInv
<1>10. ASSUME NEW q \in Editors, RequestStep(q) PROVE SerialInv'
  <2>1. proc = "up" /\ UNCHANGED <<proc, serial>>
    BY <1>10, StepsWhenUp, StepLeaves, Zenon
  <2>2. CASE serial
    <3>1. Alone /\ StoredInv /\ RunningInv /\ UsersInv
      BY <2>1, <2>2, Zenon DEF SerialInv
    <3>2. Alone'
      BY <1>10, <3>1, OneAtATime, Zenon DEF Alone
    <3>. QED
      BY <1>10, <3>1, <3>2, StoredStep, RunningStep, UsersStep, Zenon DEF SerialInv
  <2>. QED
    BY <2>1, <2>2, Zenon DEF SerialInv
<1>11. CASE UNCHANGED storeVars
  BY <1>11, Zenon DEF storeVars, aside, SerialInv, Alone, StoredInv, RunningInv, UsersInv, None, Renamed
<1>12. ~serial' => SerialInv'
  BY Zenon DEF SerialInv
<1>. QED
  BY <1>3, <1>4, <1>5, <1>6, <1>7, <1>8, <1>9, <1>10, <1>11, <1>12, Zenon DEF StoreNext, RequestStep

LEMMA StoreInvariant == StoreSpec => [](StoreTypes /\ DownInv /\ SerialInv)
<1> DEFINE Inv == StoreTypes /\ DownInv /\ SerialInv
<1>1. StoreInit => Inv
  BY TypesInit, DownInit, SerialInit
<1>2. Inv /\ [StoreNext]_storeVars => Inv'
  BY TypesStep, DownStep, SerialStep
<1>. QED
  BY <1>1, <1>2, PTL DEF StoreSpec

(* What was answered as done is what a restart finds, for any environment  *)
(* and any requests that come one at a time, with saves that fail and      *)
(* crashes between any two steps.                                          *)
THEOREM AnsweredIsStored == StoreSpec => []AckedIsStored
<1>1. SerialInv => AckedIsStored
  BY Zenon DEF SerialInv, StoredInv, None, Renamed, AckedIsStored
<1>. QED
  BY <1>1, StoreInvariant, PTL

(* Between requests that come one at a time the file, the memory, the      *)
(* running parts and the users agree, the environment's own service right  *)
(* after the migration included.                                           *)
THEOREM RunningIsStored == StoreSpec => []RunningMatchesStored
<1>1. SerialInv => RunningMatchesStored
  BY QuietFacts, Zenon DEF RunningMatchesStored
<1>. QED
  BY <1>1, StoreInvariant, PTL

(* Storing what an environment describes and converting it back gives the  *)
(* senders of alerts the same targets, keys, default target and options,   *)
(* for every environment that can be loaded.                               *)
THEOREM MigrationKeepsService ==
  ASSUME NEW v \in Envs
  PROVE  SameService(FromEnv(LoadEnv(v)), ToConfig(MigrateFromEnv(LoadEnv(v))))
BY FirstConfig, Zenon
=============================================================================
