---------------------------- MODULE TemplatesProofs ----------------------------
(***************************************************************************)
(* Everything checked of Templates holds for every set of names, groups    *)
(* and mapping files, however long the files are.  What a worker has and   *)
(* answers is made by two loops, and the properties follow from what the   *)
(* loops keep true at each turn (Merged, Built), by induction on the       *)
(* number of turns.                                                        *)
(***************************************************************************)
EXTENDS Templates, TLAPS, WellFoundedInduction

-----------------------------------------------------------------------------
(***************************************************************************)
(* The two loops of the template manager are recursive functions of the    *)
(* number of turns made.  The library's induction theorems take an         *)
(* operator; what is needed of them is stated here about sets.             *)
(***************************************************************************)
\* A set of numbers that has 0 and with every number the next has them all.
LEMMA Induction ==
  ASSUME NEW T \in SUBSET Nat, 0 \in T, \A n \in T : n + 1 \in T
  PROVE  T = Nat
<1> DEFINE R == OpToRel(<, Nat)
<1>1. IsWellFoundedOn(R, Nat)
  BY NatLessThanWellFounded
<1>2. \A n \in Nat : n # 0 => n - 1 \in Nat /\ <<n - 1, n>> \in R
  BY DEF OpToRel
<1> HIDE DEF R
<1>3. SUFFICES ASSUME Nat \ T # {} PROVE FALSE
  OBVIOUS
<1>4. PICK x \in Nat \ T : \A y \in Nat \ T : ~(<<y, x>> \in R)
  BY <1>1, <1>3, WFMin
<1>5. x # 0 /\ x - 1 \in Nat /\ <<x - 1, x>> \in R
  BY <1>2, <1>4
<1>6. x - 1 \in T
  BY <1>4, <1>5
<1>7. (x - 1) + 1 \in T
  BY <1>6
<1>8. QED  BY <1>4, <1>7

\* A set of numbers that is not empty has a least one.
LEMMA Least ==
  ASSUME NEW T \in SUBSET Nat, T # {}
  PROVE  \E n \in T : \A k \in T : n <= k
<1> DEFINE R == OpToRel(<, Nat)
<1>1. IsWellFoundedOn(R, Nat)
  BY NatLessThanWellFounded
<1>2. \A k, n \in Nat : k < n => <<k, n>> \in R
  BY DEF OpToRel
<1> HIDE DEF R
<1>3. PICK n \in T : \A k \in T : ~(<<k, n>> \in R)
  BY <1>1, WFMin
<1>4. \A k \in T : ~(k < n)
  BY <1>2, <1>3
<1>5. QED  BY <1>4

\* h is a run of N turns from base, each of which leads from S to S.
Turns(turn, N, S) == \A n \in 1 .. N : \A x \in S : turn[n][x] \in S

IsRun(h, base, turn, N, S) ==
    /\ h \in [0 .. N -> S] /\ h[0] = base
    /\ \A n \in 1 .. N : h[n] = turn[n][h[n - 1]]

\* There is one.
LEMMA Loop ==
  ASSUME NEW S, NEW base \in S, NEW N \in Nat, NEW turn, Turns(turn, N, S)
  PROVE  \E h : IsRun(h, base, turn, N, S)
<1> DEFINE Run(n, h) == IsRun(h, base, turn, n, S)
           Some == {n \in Nat : n <= N => \E h : Run(n, h)}
<1> USE DEF IsRun, Turns
<1>1. 0 \in Some
  <2>1. Run(0, [i \in 0 .. 0 |-> base])
    OBVIOUS
  <2>2. QED  BY <2>1
<1>2. ASSUME NEW n \in Some PROVE n + 1 \in Some
  <2>1. SUFFICES ASSUME n + 1 <= N PROVE \E k : Run(n + 1, k)
    OBVIOUS
  <2>2. PICK h : Run(n, h)
    BY <2>1
  <2> DEFINE k == [i \in 0 .. n + 1 |-> IF i = n + 1 THEN turn[n + 1][h[n]] ELSE h[i]]
  <2>3. h[n] \in S /\ n + 1 \in 1 .. N
    BY <2>1, <2>2
  <2>4. k \in [0 .. n + 1 -> S] /\ k[0] = base
    BY <2>2, <2>3
  <2>5. ASSUME NEW i \in 1 .. n + 1 PROVE k[i] = turn[i][k[i - 1]]
    <3>1. CASE i = n + 1
      <4>1. i - 1 = n /\ i - 1 \in 0 .. n + 1 /\ i \in 0 .. n + 1 /\ i - 1 # n + 1
        BY <3>1
      <4>2. k[i] = turn[i][h[n]] /\ k[i - 1] = h[n]
        BY <3>1, <4>1
      <4>3. QED  BY <4>2
    <3>2. CASE i # n + 1
      <4>1. i \in 1 .. n /\ i - 1 \in 0 .. n
        BY <3>2
      <4>2. k[i] = h[i] /\ k[i - 1] = h[i - 1]
        BY <4>1
      <4>3. QED  BY <2>2, <4>1, <4>2
    <3>3. QED  BY <3>1, <3>2
  <2> HIDE DEF k
  <2>6. QED  BY <2>4, <2>5
<1> HIDE DEF Some
<1>3. Some = Nat
  BY <1>1, <1>2, Induction DEF Some
<1>4. N \in Some
  BY <1>3
<1>5. QED  BY <1>4 DEF Some

-----------------------------------------------------------------------------
(***************************************************************************)
(* Loading.                                                                *)
(***************************************************************************)
\* One mapping for a name.
Unique(entries) ==
    \A i, j \in DOMAIN entries : entries[i].name = entries[j].name => i = j

\* m is the last of its name among the first n entries, or is in base and its
\* name is not among them.
LastUpto(m, entries, n) ==
    \E i \in 1 .. n : /\ entries[i] = m
                     /\ \A j \in 1 .. n : entries[j].name = m.name => j <= i

Spared(m, base, entries, n) ==
    /\ \A j \in 1 .. n : entries[j].name # m.name
    /\ \E i \in DOMAIN base : base[i] = m

\* The invariant of the loop that puts entries over base, after n turns.
Merged(result, base, entries, n) ==
    /\ result \in Seq(Mapping)
    /\ Unique(result)
    /\ \A i \in DOMAIN result :
        LastUpto(result[i], entries, n) \/ Spared(result[i], base, entries, n)
    /\ \A name \in Names : Occurs(name, base) => Occurs(name, result)
    /\ \A j \in 1 .. n : Occurs(entries[j].name, result)

\* What a mapping is called.
LEMMA NameOf == \A m \in Mapping : m.name \in Names
  BY DEF Mapping

\* A mapping is put into a sequence of mappings.
LEMMA PutSeq ==
  ASSUME NEW seq \in Seq(Mapping), NEW m \in Mapping
  PROVE  Put(seq, m) \in Seq(Mapping)
<1>1. CASE \E i \in DOMAIN seq : seq[i].name = m.name
  <2>1. Put(seq, m) = [i \in 1 .. Len(seq) |-> IF seq[i].name = m.name THEN m ELSE seq[i]]
    BY <1>1 DEF Put
  <2>2. QED  BY <2>1
<1>2. CASE ~ \E i \in DOMAIN seq : seq[i].name = m.name
  BY <1>2 DEF Put
<1>3. QED  BY <1>1, <1>2

\* put is seq with m in the place of the one of its name, or else at its end.
Has(put, seq, m) ==
    /\ Unique(put)
    /\ \A i \in DOMAIN put :
        \/ put[i] = m
        \/ put[i].name # m.name /\ i \in DOMAIN seq /\ put[i] = seq[i]
    /\ Occurs(m.name, put)
    /\ \A name \in Names : Occurs(name, seq) => Occurs(name, put)

\* So it is for Put.
LEMMA PutOne ==
  ASSUME NEW seq \in Seq(Mapping), Unique(seq), NEW m \in Mapping
  PROVE  Has(Put(seq, m), seq, m)
<1> DEFINE put == Put(seq, m)
<1>1. CASE \E i \in DOMAIN seq : seq[i].name = m.name
  <2>1. put = [i \in DOMAIN seq |-> IF seq[i].name = m.name THEN m ELSE seq[i]]
    BY <1>1 DEF Put
  <2> HIDE DEF put
  <2>2. DOMAIN put = DOMAIN seq /\ \A i \in DOMAIN seq : put[i].name = seq[i].name
    BY <2>1
  <2>3. Unique(put)
    BY <2>2 DEF Unique
  <2>4. Occurs(m.name, put) /\ \A name \in Names : Occurs(name, seq) => Occurs(name, put)
    BY <1>1, <2>2 DEF Occurs
  <2>5. QED  BY <2>1, <2>3, <2>4 DEF put, Has
<1>2. CASE ~ \E i \in DOMAIN seq : seq[i].name = m.name
  <2>1. put = Append(seq, m)
    BY <1>2 DEF Put
  <2> HIDE DEF put
  <2>2. /\ DOMAIN put = 1 .. Len(seq) + 1 /\ put[Len(seq) + 1] = m
        /\ DOMAIN seq = 1 .. Len(seq) /\ \A i \in DOMAIN seq : put[i] = seq[i]
    BY <2>1
  <2>3. Unique(put)
    BY <1>2, <2>2 DEF Unique
  <2>4. Occurs(m.name, put) /\ \A name \in Names : Occurs(name, seq) => Occurs(name, put)
    BY <2>2 DEF Occurs
  <2>5. QED  BY <1>2, <2>2, <2>3, <2>4 DEF put, Has
<1>3. QED  BY <1>1, <1>2

\* The loop is what PutAll says it is.
LEMMA PutAllRuns ==
  ASSUME NEW base \in Seq(Mapping), NEW entries \in Seq(Mapping)
  PROVE  \E put : /\ put = [n \in 0 .. Len(entries) |->
                        IF n = 0 THEN base ELSE Put(put[n - 1], entries[n])]
                  /\ PutAll(base, entries) = put[Len(entries)]
<1> DEFINE S == Seq(Mapping)
           N == Len(entries)
           turn == [n \in 1 .. N |-> [seq \in S |-> Put(seq, entries[n])]]
<1>0. N \in Nat /\ DOMAIN entries = 1 .. N
  OBVIOUS
<1>1. Turns(turn, N, S)
  BY <1>0, PutSeq DEF Turns
<1>2. PICK h : IsRun(h, base, turn, N, S)
  <2>1. base \in S
    OBVIOUS
  <2> HIDE DEF turn, S, N
  <2>2. QED  BY <1>0, <1>1, <2>1, Loop
<1>3. ASSUME NEW n \in 0 .. N
      PROVE  h[n] = IF n = 0 THEN base ELSE Put(h[n - 1], entries[n])
  <2>1. CASE n = 0
    BY <1>2, <2>1 DEF IsRun
  <2>2. CASE n # 0
    <3>1. n \in 1 .. N /\ n - 1 \in 0 .. N
      <4> HIDE DEF N
      <4>1. QED  BY <1>0, <2>2
    <3> HIDE DEF S, N
    <3>2. h[n] = turn[n][h[n - 1]] /\ h[n - 1] \in S
      <4> HIDE DEF turn
      <4>1. QED  BY <1>2, <3>1 DEF IsRun
    <3>3. QED  BY <2>2, <3>1, <3>2
  <2>3. QED  BY <2>1, <2>2
<1>4. h = [n \in 0 .. N |-> IF n = 0 THEN base ELSE Put(h[n - 1], entries[n])]
  <2> HIDE DEF S, N
  <2>1. h = [n \in 0 .. N |-> h[n]]
    BY <1>2 DEF IsRun
  <2>2. QED  BY <1>3, <2>1
<1> DEFINE put == CHOOSE f : f = [n \in 0 .. N |->
                        IF n = 0 THEN base ELSE Put(f[n - 1], entries[n])]
<1>5. put = [n \in 0 .. N |-> IF n = 0 THEN base ELSE Put(put[n - 1], entries[n])]
  BY <1>4
<1>6. PutAll(base, entries) = put[N]
  BY DEF PutAll
<1>7. QED  BY <1>5, <1>6

\* A turn keeps the invariant.
LEMMA MergeTurn ==
  ASSUME NEW base \in Seq(Mapping), NEW entries \in Seq(Mapping), NEW n \in Nat,
         n + 1 <= Len(entries), NEW result, Merged(result, base, entries, n)
  PROVE  Merged(Put(result, entries[n + 1]), base, entries, n + 1)
<1> DEFINE m == entries[n + 1]
           put == Put(result, m)
<1>0. \A j \in 1 .. n + 1 : entries[j] \in Mapping /\ entries[j].name \in Names
  <2>1. \A j \in 1 .. n + 1 : j \in 1 .. Len(entries)
    OBVIOUS
  <2>2. \A j \in 1 .. Len(entries) : entries[j] \in Mapping
    OBVIOUS
  <2>3. QED  BY <2>1, <2>2, NameOf
<1>1. m \in Mapping /\ m.name \in Names
  BY <1>0
<1>2. result \in Seq(Mapping) /\ Unique(result)
  BY DEF Merged
<1>3. 1 .. n + 1 = (1 .. n) \cup {n + 1}
  OBVIOUS
<1>4. put \in Seq(Mapping) /\ Has(put, result, m)
  <2> HIDE DEF m
  <2>1. QED  BY <1>1, <1>2, PutSeq, PutOne
<1> HIDE DEF put
<1>5. ASSUME NEW i \in DOMAIN put
      PROVE  LastUpto(put[i], entries, n + 1) \/ Spared(put[i], base, entries, n + 1)
  <2>1. CASE put[i] = m
    <3>1. \A j \in 1 .. n + 1 : j <= n + 1
      OBVIOUS
    <3>2. LastUpto(m, entries, n + 1)
      BY <1>3, <3>1 DEF LastUpto
    <3>3. QED  BY <2>1, <3>2
  <2>2. CASE put[i].name # m.name /\ i \in DOMAIN result /\ put[i] = result[i]
    <3>1. LastUpto(put[i], entries, n) \/ Spared(put[i], base, entries, n)
      BY <2>2 DEF Merged
    <3>2. CASE LastUpto(put[i], entries, n)
      BY <1>3, <2>2, <3>2 DEF LastUpto
    <3>3. CASE Spared(put[i], base, entries, n)
      BY <1>3, <2>2, <3>3 DEF Spared
    <3>4. QED  BY <3>1, <3>2, <3>3
  <2>3. QED  BY <1>4, <2>1, <2>2 DEF Has
<1>6. \A name \in Names : Occurs(name, base) => Occurs(name, put)
  BY <1>4 DEF Merged, Has
<1>7. \A j \in 1 .. n + 1 : Occurs(entries[j].name, put)
  BY <1>0, <1>3, <1>4 DEF Merged, Has
<1>8. QED  BY <1>4, <1>5, <1>6, <1>7 DEF Merged, Has, put

\* When the loop is over the last entries are there, one for each name.
LEMMA PutAllMerges ==
  ASSUME NEW base \in Seq(Mapping), Unique(base), NEW entries \in Seq(Mapping)
  PROVE  Merged(PutAll(base, entries), base, entries, Len(entries))
<1> DEFINE N == Len(entries)
<1>0. N \in Nat
  OBVIOUS
<1>1. PICK put : /\ put = [n \in 0 .. N |-> IF n = 0 THEN base ELSE Put(put[n - 1], entries[n])]
                 /\ PutAll(base, entries) = put[N]
  BY PutAllRuns
<1> DEFINE Good == {n \in Nat : n <= N => Merged(put[n], base, entries, n)}
<1>2. 0 \in Good
  <2>1. put[0] = base
    BY <1>0, <1>1
  <2>2. \A i \in DOMAIN base : Spared(base[i], base, entries, 0)
    BY DEF Spared
  <2>3. Merged(base, base, entries, 0)
    BY <2>2 DEF Merged
  <2>4. QED  BY <2>1, <2>3
<1>3. ASSUME NEW n \in Good PROVE n + 1 \in Good
  <2>1. SUFFICES ASSUME n + 1 <= N PROVE Merged(put[n + 1], base, entries, n + 1)
    OBVIOUS
  <2>2. n \in Nat /\ n <= N /\ n + 1 \in 0 .. N /\ n + 1 # 0 /\ (n + 1) - 1 = n
    BY <1>0, <2>1
  <2>3. put[n + 1] = Put(put[n], entries[n + 1])
    <3> HIDE DEF N
    <3>1. QED  BY <1>1, <2>2
  <2>4. Merged(put[n], base, entries, n)
    BY <2>2
  <2>5. QED  BY <2>1, <2>2, <2>3, <2>4, MergeTurn
<1> HIDE DEF Good
<1>4. N \in Good
  BY <1>0, <1>2, <1>3, Induction DEF Good
<1>5. QED  BY <1>0, <1>1, <1>4 DEF Good

Defaults == [i \in 1 .. Len(DefaultNames) |-> DefaultMapping(DefaultNames[i])]

\* The default mappings are mappings, one under each of the names.
LEMMA DefaultsTyped ==
  /\ Defaults \in Seq(Mapping) /\ Len(Defaults) = Len(DefaultNames)
  /\ \A i \in 1 .. Len(DefaultNames) :
        Defaults[i] = DefaultMapping(DefaultNames[i]) /\ Defaults[i].name = DefaultNames[i]
<1>1. \A name \in Names : DefaultMapping(name) \in Mapping
  <2>1. [kind |-> "none"] \in Validity
    BY DEF Validity
  <2>2. QED  BY <2>1 DEF DefaultMapping, Mapping
<1>2. DefaultNames \in Seq(Names)
  BY FilesAssumption
<1>3. \A i \in 1 .. Len(DefaultNames) : DefaultNames[i] \in Names
  BY <1>2
<1>4. Defaults \in [1 .. Len(DefaultNames) -> Mapping]
  BY <1>1, <1>3 DEF Defaults
<1>5. Len(DefaultNames) \in Nat
  BY <1>2
<1>6. Defaults \in Seq(Mapping) /\ Len(Defaults) = Len(DefaultNames)
  BY <1>4, <1>5
<1>7. QED  BY <1>6 DEF Defaults, DefaultMapping

\* What can be read of a file are mappings.
LEMMA ReadableTyped ==
  ASSUME NEW f \in Seq(Mapping \cup {Malformed})
  PROVE  Readable(f) \in Seq(Mapping)
<1>1. DOMAIN f = 1 .. Len(f) /\ Len(f) \in Nat /\ \A i \in 1 .. Len(f) : f[i] \in Mapping \cup {Malformed}
  OBVIOUS
<1>2. CASE ~Broken(f)
  <2>1. \A i \in 1 .. Len(f) : f[i] \in Mapping
    BY <1>1, <1>2 DEF Broken
  <2>2. QED  BY <1>1, <1>2, <2>1 DEF Readable
<1>3. CASE Broken(f)
  <2> DEFINE bad == {i \in DOMAIN f : f[i] = Malformed}
  <2>1. PICK i \in bad : \A j \in bad : i <= j
    <3>1. bad \subseteq Nat /\ bad # {}
      BY <1>1, <1>3 DEF Broken
    <3> HIDE DEF bad
    <3>2. QED  BY <3>1, Least
  <2>2. i \in DOMAIN f /\ f[i] = Malformed /\ \A j \in DOMAIN f : j < i => f[j] # Malformed
    BY <1>1, <2>1
  <2>3. /\ Stop(f) \in DOMAIN f
        /\ \A j \in DOMAIN f : j < Stop(f) => f[j] # Malformed
    BY <2>2 DEF Stop
  <2> DEFINE n == Stop(f) - 1
  <2>4. n \in Nat /\ n < Len(f) /\ \A j \in 1 .. n : j \in DOMAIN f /\ j < Stop(f)
    BY <1>1, <2>3
  <2>5. \A j \in 1 .. n : f[j] \in Mapping
    BY <1>1, <2>3, <2>4
  <2>6. SubSeq(f, 1, n) = [j \in 1 .. n |-> f[j]]
    BY <2>4
  <2>7. SubSeq(f, 1, n) \in Seq(Mapping)
    <3> HIDE DEF n
    <3>1. QED  BY <2>4, <2>5, <2>6
  <2>8. QED  BY <1>3, <2>7 DEF Readable
<1>4. QED  BY <1>2, <1>3

\* A dict that is empty.
LEMMA NothingYet ==
  /\ << >> \in Seq(Mapping) /\ Unique(<< >>)
  /\ \A m, entries, n : ~Spared(m, << >>, entries, n)
  BY DEF Unique, Spared

\* The file is read to the entry that stops it.
LEMMA ReadMerges ==
  ASSUME NEW f \in MappingFiles
  PROVE  /\ Readable(f) \in Seq(Mapping)
         /\ Merged(PutAll(<< >>, Readable(f)), << >>, Readable(f), Len(Readable(f)))
<1>1. f \in Seq(Mapping \cup {Malformed})
  BY FilesAssumption
<1>2. QED  BY <1>1, ReadableTyped, NothingYet, PutAllMerges

\* Defaults are put over what is there.
LEMMA DefaultsMerge ==
  ASSUME NEW base \in Seq(Mapping), Unique(base)
  PROVE  Merged(AddDefaults(base), base, Defaults, Len(DefaultNames))
  BY DefaultsTyped, PutAllMerges DEF AddDefaults, Defaults

\* What is left of the defaults is a default,
LEMMA DefaultPrevails ==
  ASSUME NEW m \in Mapping, LastUpto(m, Defaults, Len(DefaultNames)), DefaultsUsed
  PROVE  IsDefault(m.name) /\ m = DefaultMapping(m.name)
<1>1. DefaultNames \in Seq(Names) /\ DOMAIN DefaultNames = 1 .. Len(DefaultNames)
  BY FilesAssumption
<1>2. PICK i \in 1 .. Len(DefaultNames) : Defaults[i] = m
  BY DEF LastUpto
<1>3. m = DefaultMapping(DefaultNames[i]) /\ m.name = DefaultNames[i]
  BY <1>2, DefaultsTyped
<1>4. QED  BY <1>1, <1>3 DEF IsDefault

\* what they spare has none of their names,
LEMMA DefaultSpares ==
  ASSUME NEW m \in Mapping, NEW base, Spared(m, base, Defaults, Len(DefaultNames))
  PROVE  ~IsDefault(m.name)
<1>1. DefaultNames \in Seq(Names) /\ DOMAIN DefaultNames = 1 .. Len(DefaultNames)
  BY FilesAssumption
<1>2. QED  BY <1>1, DefaultsTyped DEF Spared, IsDefault

\* and all of them are there.
LEMMA DefaultsOccur ==
  ASSUME NEW result, NEW base, Merged(result, base, Defaults, Len(DefaultNames)),
         NEW name, IsDefault(name)
  PROVE  Occurs(name, result)
<1>1. DefaultNames \in Seq(Names) /\ DOMAIN DefaultNames = 1 .. Len(DefaultNames)
  BY FilesAssumption
<1>2. PICK i \in 1 .. Len(DefaultNames) : DefaultNames[i] = name
  BY <1>1 DEF IsDefault
<1>3. Defaults[i].name = name
  BY <1>2, DefaultsTyped
<1>4. QED  BY <1>3 DEF Merged

\* The last of the first Len(entries) entries is the last of them.
LEMMA LastOfAll ==
  ASSUME NEW entries \in Seq(Mapping), NEW m, LastUpto(m, entries, Len(entries))
  PROVE  LastOf(m, entries)
  BY DEF LastUpto, LastOf

\* A loaded file leaves one mapping per name, the right one.
LEMMA LoadedRight ==
  ASSUME file \in Files, mappings = Loaded(file)
  PROVE  mappings \in Seq(Mapping) /\ LastMappingWins
<1> DEFINE Chosen(m) == IF IsDefault(m.name) THEN m = DefaultMapping(m.name)
                        ELSE \E f \in ReadableEntries : LastOf(m, f)
           Kept(name) == IsDefault(name) \/ (\E f \in ReadableEntries : Occurs(name, f))
                            => Occurs(name, mappings)
<1>1. CASE file = {}
  <2>1. DefaultsUsed /\ ReadableEntries = {}
    BY <1>1 DEF DefaultsUsed, ReadableEntries
  <2>2. Merged(mappings, << >>, Defaults, Len(DefaultNames))
    BY <1>1, NothingYet, DefaultsMerge DEF Loaded
  <2>3. ASSUME NEW i \in DOMAIN mappings PROVE Chosen(mappings[i])
    <3>1. mappings[i] \in Mapping /\ LastUpto(mappings[i], Defaults, Len(DefaultNames))
      BY <2>2, NothingYet DEF Merged
    <3>2. QED  BY <2>1, <3>1, DefaultPrevails
  <2>4. ASSUME NEW name \in Names PROVE Kept(name)
    BY <2>1, <2>2, DefaultsOccur
  <2>5. QED  BY <2>2, <2>3, <2>4 DEF Merged, Unique, LastMappingWins
<1>2. ASSUME NEW f \in MappingFiles, file = {f}
      PROVE  mappings \in Seq(Mapping) /\ LastMappingWins
  <2> DEFINE R == Readable(f)
             read == PutAll(<< >>, R)
  <2>1. R \in Seq(Mapping) /\ Merged(read, << >>, R, Len(R)) /\ Unique(read) /\ read \in Seq(Mapping)
    BY ReadMerges DEF Merged
  <2>2. ReadableEntries = {R} /\ (DefaultsUsed <=> Broken(f))
    BY <1>2 DEF DefaultsUsed, ReadableEntries
  <2>3. mappings = IF Broken(f) THEN AddDefaults(read) ELSE read
    <3>1. mappings = LoadMappings(f)
      BY <1>2 DEF Loaded
    <3>2. QED  BY <3>1 DEF LoadMappings
  <2>4. DOMAIN R = 1 .. Len(R) /\ \A j \in DOMAIN R : R[j].name \in Names
    BY <2>1, NameOf
  <2> HIDE DEF R, read
  <2>5. \A i \in DOMAIN read : LastOf(read[i], R)
    BY <2>1, NothingYet, LastOfAll DEF Merged
  <2>6. \A name \in Names : Occurs(name, R) => Occurs(name, read)
    BY <2>1, <2>4 DEF Merged, Occurs
  <2>7. CASE ~Broken(f)
    <3>1. \A name : ~IsDefault(name)
      BY <2>2, <2>7 DEF IsDefault
    <3>2. QED
      BY <2>1, <2>2, <2>3, <2>5, <2>6, <2>7, <3>1 DEF Unique, LastMappingWins
  <2>8. CASE Broken(f)
    <3>1. Merged(mappings, read, Defaults, Len(DefaultNames))
      BY <2>1, <2>3, <2>8, DefaultsMerge
    <3>2. ASSUME NEW i \in DOMAIN mappings PROVE Chosen(mappings[i])
      <4>1. /\ mappings[i] \in Mapping
            /\ \/ LastUpto(mappings[i], Defaults, Len(DefaultNames))
               \/ Spared(mappings[i], read, Defaults, Len(DefaultNames))
        BY <3>1 DEF Merged
      <4>2. CASE LastUpto(mappings[i], Defaults, Len(DefaultNames))
        BY <2>2, <2>8, <4>1, <4>2, DefaultPrevails
      <4>3. CASE Spared(mappings[i], read, Defaults, Len(DefaultNames))
        <5>1. ~IsDefault(mappings[i].name)
          BY <4>1, <4>3, DefaultSpares
        <5>2. LastOf(mappings[i], R)
          BY <2>5, <4>3 DEF Spared
        <5>3. QED  BY <2>2, <5>1, <5>2
      <4>4. QED  BY <4>1, <4>2, <4>3
    <3>3. ASSUME NEW name \in Names PROVE Kept(name)
      BY <2>2, <2>6, <3>1, DefaultsOccur DEF Merged
    <3>4. QED  BY <3>1, <3>2, <3>3 DEF Merged, Unique, LastMappingWins
  <2>9. QED  BY <2>7, <2>8
<1>3. QED  BY <1>1, <1>2 DEF Files

-----------------------------------------------------------------------------
(***************************************************************************)
(* Listing.                                                                *)
(***************************************************************************)
Oid      == [ref : Nat, name : Names \cup {"common"}]
Policy   == [ref : Nat, name : Names, validity : Int, renewal : Int]
Response == [oids : Seq(Oid), policies : Seq(Policy)]

\* The mappings among the first n that are listed to a member of groups.
ListedUpto(seq, groups, n) == {seq[i].name : i \in {k \in 1 .. n : IsListed(seq[k], groups)}}

NamesIn(policies) == {policies[i].name : i \in DOMAIN policies}

\* The invariant of the loop over the mappings, after n turns: the entry of
\* policy i is entry 5 + i, and entry j has reference j - 1.
Built(r, seq, groups, n) ==
    /\ r \in Response
    /\ Len(r.oids) = 5 + Len(r.policies)
    /\ \A j \in DOMAIN r.oids : r.oids[j].ref = j - 1
    /\ \A i \in DOMAIN r.policies :
        r.policies[i].ref = 4 + i /\ r.oids[5 + i].name = r.policies[i].name
    /\ NamesIn(r.policies) = ListedUpto(seq, groups, n)

\* A validity of any kind gives numbers.
LEMMA ValidityTyped ==
  ASSUME NEW m \in Mapping
  PROVE  ValidityOf(m) \in Int /\ RenewalOf(m) \in Int
<1>1. m.validity \in Validity
  BY DEF Mapping
<1>2. ASSUME m.validity.kind = "string" PROVE m.validity.count * SecondsIn[m.validity.unit] \in Int
  <2>1. m.validity \in [kind : {"string"}, count : Int, unit : Units]
    BY <1>1, <1>2 DEF Validity
  <2>2. m.validity.count \in Int /\ m.validity.unit \in Units
    BY <2>1
  <2>3. SecondsIn[m.validity.unit] \in Int
    BY <2>2 DEF SecondsIn, Units
  <2>4. QED  BY <2>2, <2>3
<1>3. ParseValidity(m.validity) \in Int
  BY <1>2 DEF ParseValidity
<1>4. ValidityOf(m) \in Int
  BY <1>3 DEF ValidityOf
<1>5. QED  BY <1>4 DEF RenewalOf

\* A response with one more policy.
LEMMA AddPolicyTyped ==
  ASSUME NEW r \in Response, NEW m \in Mapping
  PROVE  AddPolicy(r, m) \in Response
<1> DEFINE o == [ref |-> Len(r.oids), name |-> m.name]
           p == [ref |-> Len(r.oids), name |-> m.name, validity |-> ValidityOf(m),
                 renewal |-> RenewalOf(m)]
<1>1. r.oids \in Seq(Oid) /\ r.policies \in Seq(Policy) /\ m.name \in Names
  BY NameOf DEF Response
<1>2. o \in Oid /\ p \in Policy
  BY <1>1, ValidityTyped DEF Oid, Policy
<1> HIDE DEF o, p
<1>3. AddPolicy(r, m) = [oids |-> Append(r.oids, o), policies |-> Append(r.policies, p)]
  BY DEF AddPolicy, o, p
<1>4. QED  BY <1>1, <1>2, <1>3 DEF Response

\* The loop starts with the common OIDs,
LEMMA EmptyBuilt ==
  ASSUME NEW seq, NEW groups
  PROVE  Built(Empty, seq, groups, 0)
<1>1. CommonOids \in Seq(Oid) /\ Len(CommonOids) = 5
  BY DEF CommonOids, Oid
<1>2. Empty \in Response
  BY <1>1 DEF Empty, Response
<1>3. NamesIn(<< >>) = {} /\ ListedUpto(seq, groups, 0) = {}
  BY DEF NamesIn, ListedUpto
<1>4. Empty.oids = CommonOids /\ Empty.policies = << >> /\ Len(<< >>) = 0 /\ DOMAIN << >> = {}
  BY DEF Empty
<1>5. DOMAIN CommonOids = 1 .. 5 /\ \A j \in 1 .. 5 : CommonOids[j].ref = j - 1
  BY DEF CommonOids
<1>6. \A j \in DOMAIN Empty.oids : Empty.oids[j].ref = j - 1
  BY <1>4, <1>5
<1>7. NamesIn(Empty.policies) = ListedUpto(seq, groups, 0)
  BY <1>3, <1>4
<1>8. Len(Empty.oids) = 5 + Len(Empty.policies) /\ DOMAIN Empty.policies = {}
  BY <1>1, <1>4
<1>9. QED  BY <1>2, <1>6, <1>7, <1>8 DEF Built

\* and a turn keeps the invariant.
LEMMA BuildTurn ==
  ASSUME NEW seq \in Seq(Mapping), NEW groups, NEW n \in Nat, n + 1 <= Len(seq),
         NEW r, Built(r, seq, groups, n)
  PROVE  Built(IF IsListed(seq[n + 1], groups) THEN AddPolicy(r, seq[n + 1]) ELSE r,
               seq, groups, n + 1)
<1> DEFINE m == seq[n + 1]
<1>0. m \in Mapping /\ 1 .. n + 1 = (1 .. n) \cup {n + 1}
  OBVIOUS
<1>1. ListedUpto(seq, groups, n + 1) =
        ListedUpto(seq, groups, n) \cup (IF IsListed(m, groups) THEN {m.name} ELSE {})
  BY <1>0 DEF ListedUpto
<1>2. CASE ~IsListed(m, groups)
  BY <1>1, <1>2 DEF Built
<1>3. CASE IsListed(m, groups)
  <2> DEFINE add == AddPolicy(r, m)
             o == [ref |-> Len(r.oids), name |-> m.name]
             p == [ref |-> Len(r.oids), name |-> m.name, validity |-> ValidityOf(m),
                   renewal |-> RenewalOf(m)]
  <2>1. add \in Response /\ r \in Response
    BY <1>0, AddPolicyTyped DEF Built
  <2>2. add.oids = Append(r.oids, o) /\ add.policies = Append(r.policies, p)
    BY DEF AddPolicy
  <2>3. o.ref = Len(r.oids) /\ p.ref = Len(r.oids) /\ o.name = m.name /\ p.name = m.name
    OBVIOUS
  <2> HIDE DEF add, o, p, m
  <2>4. r.oids \in Seq(Oid) /\ r.policies \in Seq(Policy)
    BY <2>1 DEF Response
  <2>5. PICK P \in Nat : P = Len(r.policies) /\ Len(r.oids) = 5 + P
    BY <2>4 DEF Built
  <2>6. /\ DOMAIN r.policies = 1 .. P /\ DOMAIN add.policies = 1 .. P + 1
        /\ Len(add.policies) = P + 1
        /\ \A i \in 1 .. P : add.policies[i] = r.policies[i]
        /\ add.policies[P + 1] = p
    BY <2>2, <2>4, <2>5
  <2>7. /\ DOMAIN r.oids = 1 .. 5 + P /\ DOMAIN add.oids = 1 .. 6 + P
        /\ Len(add.oids) = 6 + P
        /\ \A j \in 1 .. 5 + P : add.oids[j] = r.oids[j]
        /\ add.oids[6 + P] = o
    BY <2>2, <2>4, <2>5
  <2>8. /\ \A j \in 1 .. 5 + P : r.oids[j].ref = j - 1
        /\ \A i \in 1 .. P : r.policies[i].ref = 4 + i /\ r.oids[5 + i].name = r.policies[i].name
    BY <2>6, <2>7 DEF Built
  <2>9. 1 .. P + 1 = (1 .. P) \cup {P + 1} /\ 1 .. 6 + P = (1 .. 5 + P) \cup {6 + P}
    OBVIOUS
  <2>10. ASSUME NEW j \in 1 .. 6 + P PROVE add.oids[j].ref = j - 1
    <3>1. CASE j \in 1 .. 5 + P
      BY <2>7, <2>8, <3>1
    <3>2. CASE j = 6 + P
      <4>1. add.oids[j] = o /\ j - 1 = 5 + P
        BY <2>7, <3>2
      <4>2. QED  BY <2>3, <2>5, <4>1
    <3>3. QED  BY <2>9, <3>1, <3>2
  <2>11. ASSUME NEW i \in 1 .. P + 1
         PROVE  add.policies[i].ref = 4 + i /\ add.oids[5 + i].name = add.policies[i].name
    <3>1. CASE i \in 1 .. P
      <4>1. 5 + i \in 1 .. 5 + P
        BY <3>1
      <4>2. QED  BY <2>6, <2>7, <2>8, <3>1, <4>1
    <3>2. CASE i = P + 1
      <4>1. add.oids[5 + i] = o /\ add.policies[i] = p /\ 4 + i = 5 + P
        <5>1. 5 + i = 6 + P
          BY <3>2
        <5>2. QED  BY <2>6, <2>7, <3>2, <5>1
      <4>2. QED  BY <2>3, <2>5, <4>1
    <3>3. QED  BY <2>9, <3>1, <3>2
  <2>12. NamesIn(add.policies) = NamesIn(r.policies) \cup {m.name}
    <3>1. NamesIn(add.policies) = {add.policies[i].name : i \in (1 .. P) \cup {P + 1}}
      BY <2>6, <2>9 DEF NamesIn
    <3>2. NamesIn(r.policies) = {add.policies[i].name : i \in 1 .. P}
      BY <2>6 DEF NamesIn
    <3>3. add.policies[P + 1].name = m.name
      BY <2>3, <2>6
    <3>4. QED  BY <3>1, <3>2, <3>3
  <2>13. NamesIn(add.policies) = ListedUpto(seq, groups, n + 1)
    BY <1>1, <1>3, <2>12 DEF Built
  <2>14. Len(add.oids) = 5 + Len(add.policies)
    BY <2>6, <2>7
  <2>15. Built(add, seq, groups, n + 1)
    BY <2>1, <2>6, <2>7, <2>10, <2>11, <2>13, <2>14 DEF Built
  <2>16. QED  BY <1>3, <2>15 DEF add, m
<1>4. QED  BY <1>2, <1>3

\* What a turn makes of a response.
Listing(r, m, groups) == IF IsListed(m, groups) THEN AddPolicy(r, m) ELSE r

\* The loop is what PoliciesForClient says it is.
LEMMA PoliciesRun ==
  ASSUME NEW seq \in Seq(Mapping), NEW groups
  PROVE  \E build :
            /\ build = [n \in 0 .. Len(seq) |->
                            IF n = 0 THEN Empty ELSE Listing(build[n - 1], seq[n], groups)]
            /\ PoliciesForClient(seq, groups) = build[Len(seq)]
<1> DEFINE N == Len(seq)
           turn == [n \in 1 .. N |-> [r \in Response |-> Listing(r, seq[n], groups)]]
<1>0. N \in Nat /\ DOMAIN seq = 1 .. N
  OBVIOUS
<1>1. Turns(turn, N, Response)
  BY <1>0, AddPolicyTyped DEF Turns, Listing
<1>2. PICK h : IsRun(h, Empty, turn, N, Response)
  <2>1. Empty \in Response
    BY EmptyBuilt DEF Built
  <2> HIDE DEF turn, N
  <2>2. QED  BY <1>0, <1>1, <2>1, Loop
<1>3. ASSUME NEW n \in 0 .. N
      PROVE  h[n] = IF n = 0 THEN Empty ELSE Listing(h[n - 1], seq[n], groups)
  <2>1. CASE n = 0
    BY <1>2, <2>1 DEF IsRun
  <2>2. CASE n # 0
    <3>1. n \in 1 .. N /\ n - 1 \in 0 .. N
      <4> HIDE DEF N
      <4>1. QED  BY <1>0, <2>2
    <3> HIDE DEF N
    <3>2. h[n] = turn[n][h[n - 1]] /\ h[n - 1] \in Response
      <4> HIDE DEF turn
      <4>1. QED  BY <1>2, <3>1 DEF IsRun
    <3>3. QED  BY <2>2, <3>1, <3>2
  <2>3. QED  BY <2>1, <2>2
<1>4. h = [n \in 0 .. N |-> IF n = 0 THEN Empty ELSE Listing(h[n - 1], seq[n], groups)]
  <2> HIDE DEF N
  <2>1. h = [n \in 0 .. N |-> h[n]]
    BY <1>2 DEF IsRun
  <2>2. QED  BY <1>3, <2>1
<1> DEFINE build == CHOOSE f : f = [n \in 0 .. N |->
                        IF n = 0 THEN Empty ELSE Listing(f[n - 1], seq[n], groups)]
<1>5. build = [n \in 0 .. N |-> IF n = 0 THEN Empty ELSE Listing(build[n - 1], seq[n], groups)]
  BY <1>4
<1>6. PoliciesForClient(seq, groups) = build[N]
  BY DEF PoliciesForClient, Listing
<1>7. QED  BY <1>5, <1>6

\* When it is over the policies are those of all mappings that are listed.
LEMMA PoliciesBuilt ==
  ASSUME NEW seq \in Seq(Mapping), NEW groups
  PROVE  Built(PoliciesForClient(seq, groups), seq, groups, Len(seq))
<1> DEFINE N == Len(seq)
<1>0. N \in Nat
  OBVIOUS
<1>1. PICK build :
        /\ build = [n \in 0 .. N |-> IF n = 0 THEN Empty ELSE Listing(build[n - 1], seq[n], groups)]
        /\ PoliciesForClient(seq, groups) = build[N]
  BY PoliciesRun
<1> DEFINE Good == {n \in Nat : n <= N => Built(build[n], seq, groups, n)}
<1>2. 0 \in Good
  <2>1. build[0] = Empty
    BY <1>0, <1>1
  <2>2. QED  BY <2>1, EmptyBuilt
<1>3. ASSUME NEW n \in Good PROVE n + 1 \in Good
  <2>1. SUFFICES ASSUME n + 1 <= N PROVE Built(build[n + 1], seq, groups, n + 1)
    OBVIOUS
  <2>2. n \in Nat /\ n <= N /\ n + 1 \in 0 .. N /\ n + 1 # 0 /\ (n + 1) - 1 = n
    BY <1>0, <2>1
  <2>3. build[n + 1] = Listing(build[n], seq[n + 1], groups)
    <3> HIDE DEF N
    <3>1. QED  BY <1>1, <2>2
  <2>4. Built(build[n], seq, groups, n)
    BY <2>2
  <2>5. QED  BY <2>1, <2>2, <2>3, <2>4, BuildTurn DEF Listing
<1> HIDE DEF Good
<1>4. N \in Good
  BY <1>0, <1>2, <1>3, Induction DEF Good
<1>5. QED  BY <1>0, <1>1, <1>4 DEF Good

-----------------------------------------------------------------------------
(***************************************************************************)
(* The worker.                                                             *)
(***************************************************************************)
\* What is in memory was made from the file, and what was answered from what
\* is in memory.
IInv ==
    /\ file \in Files
    /\ mappings = Loaded(file)
    /\ asker \in UserGroups /\ again \in UserGroups
    /\ \A r \in response : r = PoliciesForClient(mappings, ProviderGroups(asker, again))

\* It is so always.
LEMMA SpecIInv == Spec => []IInv
<1>1. Init => IInv
  BY DEF Init, IInv, UserGroups
<1>2. IInv /\ [Next]_vars => IInv'
  <2> SUFFICES ASSUME IInv, [Next]_vars PROVE IInv'
    OBVIOUS
  <2>1. ASSUME NEW f \in Files, Start(f) PROVE IInv'
    BY <2>1 DEF Start, IInv, UserGroups
  <2>2. ASSUME NEW userGroups \in UserGroups, NEW own \in UserGroups,
               GetPolicies(userGroups, own)
        PROVE  IInv'
    BY <2>2 DEF GetPolicies, IInv
  <2>3. CASE UNCHANGED vars
    BY <2>3 DEF vars, IInv
  <2>4. QED  BY <2>1, <2>2, <2>3 DEF Next
<1>3. QED  BY <1>1, <1>2, PTL DEF Spec

\* What every answer has.
LEMMA Answer ==
  ASSUME IInv, NEW r \in response
  PROVE  Built(r, mappings, ProviderGroups(asker, again), Len(mappings))
  BY LoadedRight, PoliciesBuilt DEF IInv

\* Groups that are not known count the same in the listing and in the check.
LEMMA ListedIsEnrollable ==
  ASSUME NEW m, NEW known \in UserGroups
  PROVE  IsListed(m, UNION known) <=> m.oid /\ MayEnroll(m, known)
<1>1. CASE known = {}
  <2>1. NamesOf(UNION known) = {}
    BY <1>1 DEF NamesOf
  <2>2. QED  BY <1>1, <2>1 DEF IsListed, IsUserAllowed, MayEnroll
<1>2. ASSUME NEW groups, known = {groups}
      PROVE  IsListed(m, UNION known) <=> m.oid /\ MayEnroll(m, known)
  <2>1. UNION known = groups
    BY <1>2
  <2>2. QED  BY <1>2, <2>1 DEF IsListed, IsUserAllowed, MayEnroll
<1>3. QED  BY <1>1, <1>2 DEF UserGroups

\* To know of groups only ever grants more than not to know.
LEMMA UnknownGrantsLeast ==
  ASSUME NEW userGroups
  PROVE  Grants({}) \subseteq Grants(userGroups)
  BY DEF Grants, MayEnroll

\* Types: no entry that could not be read gets into the dict.
THEOREM Typing == Spec => []TypeOK
<1>1. ASSUME IInv PROVE TypeOK
  <2>1. \A i \in DOMAIN mappings : mappings[i] \in Mapping
    BY <1>1, LoadedRight DEF IInv
  <2>2. ASSUME NEW r \in response, NEW i \in DOMAIN r.oids PROVE r.oids[i].ref \in Nat
    <3>1. r.oids \in Seq(Oid)
      BY <1>1, Answer DEF Built, Response
    <3>2. r.oids[i] \in Oid
      BY <3>1
    <3>3. QED  BY <3>2 DEF Oid
  <2>3. QED  BY <1>1, <2>1, <2>2 DEF IInv, TypeOK
<1>2. QED  BY <1>1, SpecIInv, PTL

\* One mapping for each template, whatever the file: repeated names, an end
\* that cannot be read, no file at all.
THEOREM Loading == Spec => []LastMappingWins
<1>1. IInv => LastMappingWins
  BY LoadedRight DEF IInv
<1>2. QED  BY <1>1, SpecIInv, PTL

\* Every policy is resolved to the OID of its template, whichever mappings are
\* passed over before it.
THEOREM References == Spec => []ReferencesResolve
<1>1. ASSUME IInv PROVE ReferencesResolve
  <2>1. SUFFICES ASSUME NEW r \in response, NEW i \in DOMAIN r.policies
                 PROVE  \E j \in DOMAIN r.oids :
                            /\ r.oids[j].name = r.policies[i].name
                            /\ \A k \in DOMAIN r.oids : r.oids[k].ref = r.policies[i].ref <=> k = j
    BY DEF ReferencesResolve
  <2>2. /\ r.oids \in Seq(Oid) /\ r.policies \in Seq(Policy)
        /\ Len(r.oids) = 5 + Len(r.policies)
        /\ \A j \in DOMAIN r.oids : r.oids[j].ref = j - 1
        /\ r.policies[i].ref = 4 + i /\ r.oids[5 + i].name = r.policies[i].name
    BY <1>1, <2>1, Answer DEF Built, Response
  <2>3. i \in 1 .. Len(r.policies) /\ DOMAIN r.oids = 1 .. 5 + Len(r.policies) /\ Len(r.policies) \in Nat
    BY <2>2
  <2>4. 5 + i \in DOMAIN r.oids
    BY <2>3
  <2>5. \A k \in DOMAIN r.oids : r.oids[k].ref = r.policies[i].ref <=> k = 5 + i
    BY <2>2, <2>3
  <2>6. QED  BY <2>2, <2>4, <2>5
<1>2. QED  BY <1>1, SpecIInv, PTL

\* The listing and the check of an enrollment agree, for every file and group
\* membership, and whichever of the two lookups of a request fail: the list
\* falls short of nothing the check allows, and goes beyond it only for a
\* request whose groups the provider found and the hook did not.
THEOREM Listed == Spec => []ListedIffEnrollable
<1>1. ASSUME IInv PROVE ListedIffEnrollable
  <2> DEFINE known == IF asker # {} THEN asker ELSE again
  <2>1. SUFFICES ASSUME NEW r \in response
                 PROVE  /\ {r.policies[i].name : i \in DOMAIN r.policies} = Grants(known)
                        /\ Grants(asker) \subseteq Grants(known)
    BY DEF ListedIffEnrollable
  <2>2. known \in UserGroups /\ ProviderGroups(asker, again) = UNION known
    BY <1>1 DEF IInv, ProviderGroups
  <2>3. NamesIn(r.policies) = ListedUpto(mappings, UNION known, Len(mappings))
    BY <1>1, <2>1, <2>2, Answer DEF Built
  <2>4. DOMAIN mappings = 1 .. Len(mappings)
    BY <1>1, LoadedRight DEF IInv
  <2> HIDE DEF known
  <2>5. \A k \in DOMAIN mappings :
          IsListed(mappings[k], UNION known)
            <=> mappings[k].oid /\ MayEnroll(mappings[k], known)
    BY <2>2, ListedIsEnrollable
  <2>6. {r.policies[i].name : i \in DOMAIN r.policies} = Grants(known)
    BY <2>3, <2>4, <2>5 DEF NamesIn, ListedUpto, Grants
  <2>7. Grants(asker) \subseteq Grants(known)
    BY UnknownGrantsLeast DEF known
  <2>8. QED  BY <2>6, <2>7
<1>2. QED  BY <1>1, SpecIInv, PTL
=============================================================================
