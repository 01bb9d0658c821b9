------------------------- MODULE ApexRenaming_proof -------------------------
(***************************************************************************)
(* Register renaming, for every program and every size of the register     *)
(* files: registers are conserved, nobody shares one, and every source     *)
(* names the register of the instruction that produces it.                 *)
(***************************************************************************)
EXTENDS ApexOrder_proof, FunctionTheorems, SequenceTheorems

(***************************************************************************)
(* Free lists without duplicates.                                          *)
(***************************************************************************)
Distinct(list) == \A j, k \in DOMAIN list : list[j] = list[k] => j = k
Elements(list) == {list[k] : k \in DOMAIN list}

\* A list without duplicates has as many elements as its length says.
LEMMA DistinctCount ==
  ASSUME NEW S, NEW list \in Seq(S), Distinct(list)
  PROVE  /\ IsFiniteSet(Elements(list))
         /\ Cardinality(Elements(list)) = Len(list)
<1>1. /\ Len(list) \in Nat /\ DOMAIN list = 1 .. Len(list)
      /\ list \in [1 .. Len(list) -> Elements(list)]
  BY LenProperties DEF Elements
<1>2. list \in Bijection(1 .. Len(list), Elements(list))
  <2>1. list \in Injection(1 .. Len(list), Elements(list))
    BY <1>1, Fun_IsInj DEF Distinct
  <2>2. list \in Surjection(1 .. Len(list), Elements(list))
    BY <1>1, Fun_IsSurj DEF Elements
  <2> QED
    BY <2>1, <2>2 DEF Bijection
<1>3. ExistsBijection(1 .. Len(list), Elements(list))
  BY <1>2 DEF ExistsBijection
<1>4. IsFiniteSet(1 .. Len(list)) /\ Cardinality(1 .. Len(list)) = Len(list)
  BY <1>1, FS_Interval
<1> QED
  BY <1>3, <1>4, FS_Bijection

\* A register that is not on such a list finds room on it, and only joins the others.
LEMMA AddedBack ==
  ASSUME NEW size \in Nat, NEW list \in Seq(0 .. size - 1), Distinct(list),
         NEW r \in 0 .. size - 1, r \notin Elements(list)
  PROVE  /\ AddBack(list, r, size) \in Seq(0 .. size - 1)
         /\ Distinct(AddBack(list, r, size))
         /\ Elements(AddBack(list, r, size)) = Elements(list) \cup {r}
<1>1. Len(list) \in Nat /\ DOMAIN list = 1 .. Len(list) /\ Elements(list) \subseteq 0 .. size - 1
  BY LenProperties, ElementOfSeq DEF Elements
<1>2. Len(list) < size
  <2>1. IsFiniteSet(0 .. size - 1) /\ Cardinality(0 .. size - 1) = size
    BY FS_Interval
  <2>2. /\ Cardinality(Elements(list)) <= size
        /\ Cardinality(Elements(list)) = size => Elements(list) = 0 .. size - 1
    BY <1>1, <2>1, FS_Subset
  <2>3. Cardinality(Elements(list)) = Len(list)
    BY DistinctCount
  <2>4. Elements(list) # 0 .. size - 1
    OBVIOUS
  <2>5. Len(list) <= size /\ Len(list) # size
    BY <2>2, <2>3, <2>4
  <2>6. \A m \in Nat : m <= size /\ m # size => m < size
    OBVIOUS
  <2> QED
    BY <1>1, <2>5, <2>6, Zenon
<1>3. AddBack(list, r, size) = Append(list, r)
  <2>1. r # -1 /\ ~(Len(list) >= size)
    BY <1>1, <1>2
  <2> QED
    BY <2>1 DEF AddBack
<1> DEFINE new == Append(list, r)
           n == Len(list)
<1>4. /\ new \in Seq(0 .. size - 1) /\ n \in Nat
      /\ DOMAIN list = 1 .. n /\ DOMAIN new = 1 .. n + 1
      /\ \A k \in 1 .. n : new[k] = list[k]
      /\ new[n + 1] = r
  BY <1>1, AppendProperties, LenProperties
<1> HIDE DEF new, n
<1>5. \A k \in DOMAIN list : list[k] # r
  BY DEF Elements
<1>6. Distinct(new)
  <2> SUFFICES ASSUME NEW j \in 1 .. n + 1, NEW k \in 1 .. n + 1,
                      new[j] = new[k]
               PROVE  j = k
    BY <1>4 DEF Distinct
  <2>1. CASE j \in 1 .. n /\ k \in 1 .. n
    BY <1>4, <2>1 DEF Distinct
  <2>2. \A l \in 1 .. n : new[l] # new[n + 1]
    BY <1>4, <1>5, Zenon
  <2>3. (j \in 1 .. n \/ j = n + 1) /\ (k \in 1 .. n \/ k = n + 1)
    BY <1>4
  <2> QED
    BY <2>1, <2>2, <2>3, Zenon
<1>7. Elements(new) = Elements(list) \cup {r}
  <2>1. ASSUME NEW x \in Elements(new) PROVE x \in Elements(list) \cup {r}
    <3>1. PICK k \in 1 .. n + 1 : x = new[k]
      BY <1>4 DEF Elements
    <3>2. k \in 1 .. n \/ k = n + 1
      BY <1>4
    <3>3. CASE k \in 1 .. n
      BY <1>4, <3>1, <3>3 DEF Elements
    <3>4. CASE k = n + 1
      BY <1>4, <3>1, <3>4
    <3> QED
      BY <3>2, <3>3, <3>4
  <2>2. Elements(list) \subseteq Elements(new)
    <3>1. ASSUME NEW k \in 1 .. n PROVE list[k] \in Elements(new)
      <4>1. k \in 1 .. n + 1 /\ new[k] = list[k]
        BY <1>4
      <4> QED
        BY <1>4, <4>1 DEF Elements
    <3> QED
      BY <1>4, <3>1 DEF Elements
  <2>3. r \in Elements(new)
    <3>1. n + 1 \in DOMAIN new
      BY <1>4
    <3> QED
      BY <1>4, <3>1 DEF Elements
  <2> QED
    BY <2>1, <2>2, <2>3
<1> QED
  BY <1>3, <1>4, <1>6, <1>7 DEF new

\* Taking the head off such a list takes that register away and no other.
LEMMA HeadTaken ==
  ASSUME NEW S, NEW list \in Seq(S), Distinct(list), list # << >>
  PROVE  /\ Tail(list) \in Seq(S) /\ Distinct(Tail(list))
         /\ Head(list) \in Elements(list) /\ Head(list) \in S
         /\ Elements(Tail(list)) = Elements(list) \ {Head(list)}
         /\ Len(Tail(list)) = Len(list) - 1
<1> DEFINE t == Tail(list)
<1>1. /\ Len(list) \in Nat \ {0} /\ DOMAIN list = 1 .. Len(list)
      /\ t \in Seq(S) /\ Len(t) = Len(list) - 1 /\ DOMAIN t = 1 .. Len(list) - 1
      /\ \A k \in 1 .. Len(list) - 1 : t[k] = list[k + 1]
      /\ Head(list) = list[1] /\ Head(list) \in S
  BY EmptySeq, LenProperties, HeadTailProperties
<1> HIDE DEF t
<1>2. Distinct(t)
  <2> SUFFICES ASSUME NEW j \in 1 .. Len(list) - 1, NEW k \in 1 .. Len(list) - 1, t[j] = t[k]
               PROVE  j = k
    BY <1>1 DEF Distinct
  <2>1. j + 1 \in DOMAIN list /\ k + 1 \in DOMAIN list /\ list[j + 1] = list[k + 1]
    BY <1>1
  <2> QED
    BY <2>1 DEF Distinct
<1>3. 1 \in DOMAIN list
  BY <1>1
<1>4. Head(list) \in Elements(list)
  BY <1>1, <1>3 DEF Elements
<1>5. ASSUME NEW x \in Elements(t) PROVE x \in Elements(list) /\ x # Head(list)
  <2>1. PICK k \in 1 .. Len(list) - 1 : x = list[k + 1]
    BY <1>1 DEF Elements
  <2>2. k + 1 \in DOMAIN list /\ k + 1 # 1
    BY <1>1, <2>1
  <2> QED
    BY <1>1, <1>3, <2>1, <2>2 DEF Distinct, Elements
<1>6. ASSUME NEW x \in Elements(list), x # Head(list) PROVE x \in Elements(t)
  <2>1. PICK k \in 1 .. Len(list) : x = list[k]
    BY <1>1 DEF Elements
  <2>2. k - 1 \in 1 .. Len(list) - 1 /\ t[k - 1] = list[k]
    BY <1>1, <1>6, <2>1
  <2> QED
    BY <1>1, <2>1, <2>2 DEF Elements
<1> QED
  BY <1>1, <1>2, <1>4, <1>5, <1>6 DEF t
(***************************************************************************)
(* Windows: sequences of renamed instructions.                             *)
(***************************************************************************)
NameRecords ==
  [opcode : Opcodes, rd : ProgramRegisters, rs1 : ProgramRegisters, rs2 : ProgramRegisters,
   phyrd : PhysicalRegs, phyrs1 : Tags, phyrs2 : Tags, phyrs3 : Tags, flag : CCRegs]

\* The registers of a window are physical registers that are not free, and each is one
\* instruction's, which has it for one purpose.
Owned(w, free) ==
  /\ \A k \in DOMAIN w : Given(w[k]) \subseteq PhysicalRegs \ free
  /\ \A j, k \in DOMAIN w : j # k => Given(w[j]) \cap Given(w[k]) = {}
  /\ \A k \in DOMAIN w : w[k].opcode = "LOADP" => w[k].phyrd # w[k].phyrs3

\* Window v is a stretch of w, from its element d + 1 on.
Stretch(v, w, d) == \A k \in DOMAIN v : k \in Int /\ k + d \in DOMAIN w /\ v[k] = w[k + d]

\* A stretch of a window owns what it did.
LEMMA OwnedStretch ==
  ASSUME NEW v, NEW w, NEW d \in Int, Stretch(v, w, d), NEW free, Owned(w, free)
  PROVE  Owned(v, free)
<1>1. \A j, k \in DOMAIN v : j # k => j + d # k + d
  BY DEF Stretch
<1> QED
  BY <1>1 DEF Owned, Stretch

\* The registers of an instruction that has left can be freed.
LEMMA OwnedWithout ==
  ASSUME NEW v, NEW w, NEW d \in Int, Stretch(v, w, d), NEW free, Owned(w, free),
         NEW gone \in DOMAIN w, \A k \in DOMAIN v : k + d # gone
  PROVE  Owned(v, free \cup Given(w[gone]))
<1>1. Owned(v, free)
  BY OwnedStretch
<1>2. \A k \in DOMAIN v : Given(v[k]) \cap Given(w[gone]) = {}
  BY DEF Owned, Stretch
<1> QED
  BY <1>1, <1>2 DEF Owned

\* Registers that are handed out are their new owner's.
LEMMA OwnedAppend ==
  ASSUME NEW w \in Seq(NameRecords), NEW i \in NameRecords, NEW free, Owned(w, free),
         Given(i) \subseteq PhysicalRegs, Given(i) \subseteq free,
         i.opcode = "LOADP" => i.phyrd # i.phyrs3
  PROVE  Owned(Append(w, i), free \ Given(i))
<1> DEFINE v == Append(w, i)
           n == Len(w)
<1>1. /\ n \in Nat /\ DOMAIN w = 1 .. n /\ DOMAIN v = 1 .. n + 1
      /\ \A k \in 1 .. n : v[k] = w[k]
      /\ v[n + 1] = i
  BY AppendProperties, LenProperties
<1> HIDE DEF v, n
<1>2. \A k \in 1 .. n + 1 : k \in 1 .. n \/ k = n + 1
  BY <1>1
<1>3. \A k \in DOMAIN v : Given(v[k]) \subseteq PhysicalRegs \ (free \ Given(i))
  BY <1>1, <1>2 DEF Owned
<1>4. \A k \in 1 .. n : Given(v[k]) \cap Given(i) = {}
  BY <1>1 DEF Owned
<1>5. ASSUME NEW j \in DOMAIN v, NEW k \in DOMAIN v, j # k
      PROVE  Given(v[j]) \cap Given(v[k]) = {}
  <2>1. CASE j \in 1 .. n /\ k \in 1 .. n
    BY <1>1, <1>5, <2>1 DEF Owned
  <2>2. CASE j = n + 1 /\ k \in 1 .. n
    BY <1>1, <1>4, <2>2
  <2>3. CASE k = n + 1 /\ j \in 1 .. n
    BY <1>1, <1>4, <2>3
  <2> QED
    BY <1>1, <1>2, <1>5, <2>1, <2>2, <2>3
<1>6. \A k \in DOMAIN v : v[k].opcode = "LOADP" => v[k].phyrd # v[k].phyrs3
  BY <1>1, <1>2 DEF Owned
<1> QED
  BY <1>3, <1>5, <1>6 DEF Owned, v

\* What a window holds, element by element.
LEMMA Holding ==
  /\ \A w, p : p \in HeldBy(w) <=> \E k \in DOMAIN w : p \in Given(w[k])
  /\ \A i : Given(NamesOf(i)) = Given(i)
BY DEF HeldBy, Given, NamesOf

\* A window without one element holds all the rest.
LEMMA HeldWithout ==
  ASSUME NEW v, NEW w, NEW d \in Int, Stretch(v, w, d), NEW gone,
         \A k \in DOMAIN w : k \in Int /\ (k # gone => k - d \in DOMAIN v)
  PROVE  HeldBy(w) \subseteq HeldBy(v) \cup Given(w[gone])
<1> SUFFICES ASSUME NEW p \in HeldBy(w) PROVE p \in HeldBy(v) \cup Given(w[gone])
  OBVIOUS
<1>1. PICK k \in DOMAIN w : p \in Given(w[k])
  BY Holding
<1>2. CASE k # gone
  <2>1. k - d \in DOMAIN v /\ (k - d) + d = k
    BY <1>2
  <2>2. p \in Given(v[k - d])
    BY <1>1, <2>1 DEF Stretch
  <2> QED
    BY <2>1, <2>2, Holding
<1> QED
  BY <1>1, <1>2

(***************************************************************************)
(* Producers.                                                              *)
(***************************************************************************)
\* Element k of a window is the last of its first n to write r.
LastToWrite(w, n, k, r) ==
  /\ k \in 1 .. n /\ Writes(w[k], r)
  /\ \A j \in k + 1 .. n : ~Writes(w[j], r)

\* A non-empty set of indices has a greatest one.
LEMMA GreatestElement ==
  ASSUME NEW n \in Nat, NEW S \in SUBSET (1 .. n), S # {}
  PROVE  \E k \in S : \A j \in S : j <= k
<1> DEFINE T == {n - k : k \in S}
<1>1. T \in SUBSET Nat /\ T # {}
  OBVIOUS
<1>2. PICK t \in T : \A u \in T : t <= u
  BY <1>1, LeastElement
<1>3. PICK k \in S : t = n - k
  OBVIOUS
<1>4. \A j \in S : n - k <= n - j
  BY <1>2, <1>3
<1> QED
  BY <1>4

\* The operator LastWriter finds the last one to write.
LEMMA LastWriterFound ==
  ASSUME NEW w \in Seq(NameRecords), NEW r
  PROVE  \A k \in Int : k # 0 => (LastWriter(w, r) = k <=> LastToWrite(w, Len(w), k, r))
<1> DEFINE n == Len(w)
           writers == {k \in DOMAIN w : Writes(w[k], r)}
<1>1. n \in Nat /\ DOMAIN w = 1 .. n
  BY LenProperties
<1>2. LastWriter(w, r) = IF writers = {} THEN 0
                         ELSE CHOOSE k \in writers : \A j \in writers : j <= k
  BY DEF LastWriter
<1>3. \A k \in Int : LastToWrite(w, n, k, r) <=> k \in writers /\ \A j \in writers : j <= k
  <2> SUFFICES ASSUME NEW k \in Int
               PROVE  LastToWrite(w, n, k, r) <=> k \in writers /\ \A j \in writers : j <= k
    OBVIOUS
  <2>1. LastToWrite(w, n, k, r) => k \in writers /\ \A j \in writers : j <= k
    BY <1>1 DEF LastToWrite
  <2>2. k \in writers /\ (\A j \in writers : j <= k) => LastToWrite(w, n, k, r)
    BY <1>1 DEF LastToWrite
  <2> QED
    BY <2>1, <2>2
<1>4. writers \in SUBSET (1 .. n)
  BY <1>1
<1> HIDE DEF writers, n
<1>5. \A j, k \in writers : (\A l \in writers : l <= k) /\ (\A l \in writers : l <= j) => j = k
  BY <1>1, <1>4
<1> SUFFICES ASSUME NEW k \in Int, k # 0
             PROVE  LastWriter(w, r) = k <=> k \in writers /\ \A j \in writers : j <= k
  BY <1>3 DEF n
<1>6. CASE writers = {}
  BY <1>2, <1>6
<1>7. CASE writers # {}
  <2>1. \E m \in writers : \A j \in writers : j <= m
    BY <1>1, <1>4, <1>7, GreatestElement
  <2> DEFINE m == CHOOSE m \in writers : \A j \in writers : j <= m
  <2>2. m \in writers /\ \A j \in writers : j <= m
    BY <2>1
  <2>3. LastWriter(w, r) = m
    BY <1>2, <1>7
  <2> HIDE DEF m
  <2> QED
    BY <1>5, <2>2, <2>3
<1> QED
  BY <1>6, <1>7

\* Naming the last writer, without the operator.
Names(w, n, r, p) == \A k \in 1 .. n : LastToWrite(w, n, k, r) => p = RegisterFor(w[k], r)

\* It says the same as the operator.
LEMMA NamesMeans ==
  ASSUME NEW w \in Seq(NameRecords), NEW r, NEW p
  PROVE  NamesLastWriter(w, r, p) <=> Names(w, Len(w), r, p)
<1>1. LastWriter(w, r) = 0 \/ LastWriter(w, r) \in 1 .. Len(w)
  <2>1. Len(w) \in Nat /\ DOMAIN w = 1 .. Len(w)
    BY LenProperties
  <2> DEFINE writers == {k \in DOMAIN w : Writes(w[k], r)}
  <2>2. CASE writers = {}
    BY <2>2 DEF LastWriter
  <2>3. CASE writers # {}
    <3>1. \E k \in writers : \A j \in writers : j <= k
      <4>1. writers \in SUBSET (1 .. Len(w))
        BY <2>1
      <4> QED
        BY <2>1, <2>3, <4>1, GreatestElement
    <3>2. LastWriter(w, r) \in writers
      BY <2>3, <3>1 DEF LastWriter
    <3> QED
      BY <2>1, <3>2
  <2> QED
    BY <2>2, <2>3
<1>2. \A k \in 1 .. Len(w) : k \in Int /\ k # 0
  BY LenProperties
<1>3. \A k \in 1 .. Len(w) : LastWriter(w, r) = k <=> LastToWrite(w, Len(w), k, r)
  BY <1>2, LastWriterFound
<1>4. 0 \notin 1 .. Len(w)
  BY LenProperties
<1> QED
  BY <1>1, <1>3, <1>4 DEF NamesLastWriter, Names

\* Every source names the last older writer of its register.
Sourced(w) ==
  \A n \in 1 .. Len(w) :
    /\ w[n].opcode \in Source1Ops => Names(w, n - 1, w[n].rs1, w[n].phyrs1)
    /\ w[n].opcode \in Source2Ops => Names(w, n - 1, w[n].rs2, w[n].phyrs2)

\* The table names the last writer of every register.
Tabled(w, table) == \A r \in ProgramRegisters : Names(w, Len(w), r, table[r])

\* A stretch of a window has no writers the window has not.
LEMMA NamesStretch ==
  ASSUME NEW v \in Seq(NameRecords), NEW w \in Seq(NameRecords), NEW d \in Nat,
         Stretch(v, w, d), NEW n \in 0 .. Len(v), NEW r, NEW p, Names(w, n + d, r, p)
  PROVE  Names(v, n, r, p)
<1>1. Len(v) \in Nat /\ DOMAIN v = 1 .. Len(v)
  BY LenProperties
<1>2. \A j \in 1 .. n : v[j] = w[j + d]
  <2>1. \A j \in 1 .. n : j \in DOMAIN v
    BY <1>1
  <2> QED
    BY <2>1, Zenon DEF Stretch
<1>3. ASSUME NEW k \in 1 .. n, LastToWrite(v, n, k, r)
      PROVE  k + d \in 1 .. n + d /\ LastToWrite(w, n + d, k + d, r)
  <2>1. k + d \in 1 .. n + d /\ Writes(w[k + d], r)
    BY <1>1, <1>2, <1>3 DEF LastToWrite
  <2>2. ASSUME NEW j \in (k + d) + 1 .. n + d PROVE ~Writes(w[j], r)
    <3>1. j - d \in k + 1 .. n /\ j - d \in 1 .. n /\ (j - d) + d = j
      BY <1>1
    <3> QED
      BY <1>2, <1>3, <3>1 DEF LastToWrite
  <2> QED
    BY <2>1, <2>2 DEF LastToWrite
<1> QED
  BY <1>2, <1>3 DEF Names

\* So its sources are named when the window's are.
LEMMA SourcedStretch ==
  ASSUME NEW v \in Seq(NameRecords), NEW w \in Seq(NameRecords), NEW d \in Nat,
         Stretch(v, w, d), Sourced(w)
  PROVE  Sourced(v)
<1>1. Len(v) \in Nat /\ DOMAIN v = 1 .. Len(v) /\ Len(w) \in Nat /\ DOMAIN w = 1 .. Len(w)
  BY LenProperties
<1> SUFFICES ASSUME NEW n \in 1 .. Len(v)
             PROVE  /\ v[n].opcode \in Source1Ops => Names(v, n - 1, v[n].rs1, v[n].phyrs1)
                    /\ v[n].opcode \in Source2Ops => Names(v, n - 1, v[n].rs2, v[n].phyrs2)
  BY DEF Sourced
<1>2. /\ n + d \in 1 .. Len(w) /\ v[n] = w[n + d] /\ (n + d) - 1 = (n - 1) + d
      /\ n - 1 \in 0 .. Len(v)
  BY <1>1 DEF Stretch
<1>3. /\ v[n].opcode \in Source1Ops => Names(w, (n - 1) + d, v[n].rs1, v[n].phyrs1)
      /\ v[n].opcode \in Source2Ops => Names(w, (n - 1) + d, v[n].rs2, v[n].phyrs2)
  BY <1>2 DEF Sourced
<1> QED
  BY <1>2, <1>3, NamesStretch

\* What names the last writer once an instruction is added behind.
LEMMA NamesAppend ==
  ASSUME NEW w \in Seq(NameRecords), NEW i \in NameRecords, NEW r, NEW p, NEW q,
         Names(w, Len(w), r, p), q = IF Writes(i, r) THEN RegisterFor(i, r) ELSE p
  PROVE  Names(Append(w, i), Len(w) + 1, r, q)
<1> DEFINE v == Append(w, i)
           n == Len(w)
<1>1. /\ n \in Nat /\ v[n + 1] = i
      /\ \A k \in 1 .. n : v[k] = w[k]
  BY AppendProperties, LenProperties
<1>2. Names(w, n, r, p)
  OBVIOUS
<1> HIDE DEF v, n
<1> SUFFICES ASSUME NEW k \in 1 .. n + 1, LastToWrite(v, n + 1, k, r)
             PROVE  q = RegisterFor(v[k], r)
  BY DEF Names, v, n
<1>3. CASE k = n + 1
  BY <1>1, <1>3 DEF LastToWrite
<1>4. CASE k \in 1 .. n
  <2>1. ~Writes(i, r)
    <3>1. n + 1 \in k + 1 .. n + 1
      BY <1>1, <1>4
    <3> QED
      BY <1>1, <3>1 DEF LastToWrite
  <2>2. LastToWrite(w, n, k, r)
    <3>1. \A j \in k + 1 .. n : j \in k + 1 .. n + 1 /\ j \in 1 .. n
      BY <1>1, <1>4
    <3> QED
      BY <1>1, <1>4, <3>1 DEF LastToWrite
  <2> QED
    BY <1>1, <1>2, <1>4, <2>1, <2>2 DEF Names
<1> QED
  BY <1>1, <1>3, <1>4

\* An instruction whose sources were looked up in such a table joins the window.
LEMMA SourcedAppend ==
  ASSUME NEW w \in Seq(NameRecords), NEW i \in NameRecords, NEW table, Sourced(w),
         Tabled(w, table),
         i.opcode \in Source1Ops => i.phyrs1 = table[i.rs1],
         i.opcode \in Source2Ops => i.phyrs2 = table[i.rs2]
  PROVE  Sourced(Append(w, i))
<1> DEFINE v == Append(w, i)
           m == Len(w)
<1>1. /\ v \in Seq(NameRecords) /\ m \in Nat /\ Len(v) = m + 1 /\ v[m + 1] = i
      /\ DOMAIN v = 1 .. m + 1 /\ DOMAIN w = 1 .. m /\ \A k \in 1 .. m : v[k] = w[k]
  BY AppendProperties, LenProperties
<1>2. i.rs1 \in ProgramRegisters /\ i.rs2 \in ProgramRegisters
  BY DEF NameRecords
<1>3. /\ i.opcode \in Source1Ops => Names(w, m, i.rs1, i.phyrs1)
      /\ i.opcode \in Source2Ops => Names(w, m, i.rs2, i.phyrs2)
  BY <1>2 DEF Tabled
<1> HIDE DEF v, m
<1>4. ASSUME NEW n \in 0 .. m, NEW r, NEW p, Names(w, n, r, p) PROVE Names(v, n, r, p)
  <2>1. ASSUME NEW k \in 1 .. n PROVE LastToWrite(v, n, k, r) => LastToWrite(w, n, k, r)
    BY <1>1 DEF LastToWrite
  <2>2. \A k \in 1 .. n : v[k] = w[k]
    BY <1>1
  <2> QED
    BY <1>4, <2>1, <2>2 DEF Names
<1> SUFFICES ASSUME NEW n \in 1 .. m + 1
             PROVE  /\ v[n].opcode \in Source1Ops => Names(v, n - 1, v[n].rs1, v[n].phyrs1)
                    /\ v[n].opcode \in Source2Ops => Names(v, n - 1, v[n].rs2, v[n].phyrs2)
  BY <1>1 DEF Sourced, v
<1>5. n - 1 \in 0 .. m
  BY <1>1
<1>6. CASE n = m + 1
  <2>1. n - 1 = m
    BY <1>1, <1>6
  <2> QED
    BY <1>1, <1>3, <1>4, <1>5, <1>6, <2>1
<1>7. CASE n \in 1 .. m
  BY <1>1, <1>4, <1>5, <1>7 DEF Sourced, m
<1> QED
  BY <1>1, <1>6, <1>7
(***************************************************************************)
(* The window of the pipeline: the reorder buffer behind a head that has   *)
(* committed, then the two latches before it.                              *)
(***************************************************************************)
Committed == IF delete_ROB_head THEN 1 ELSE 0
InBuffer == IF ROB_size > Committed THEN ROB_size - Committed ELSE 0
Waiting(latch) == IF latch.has_insn THEN 1 ELSE 0
WindowLength == InBuffer + Waiting(issue_queue) + Waiting(rename2_dispatch)
InstrAt(k) ==
  IF k <= InBuffer THEN RoB[k - 1 + Committed].instr
  ELSE IF k = InBuffer + 1 /\ issue_queue.has_insn THEN issue_queue.instr
  ELSE rename2_dispatch.instr

WindowShape ==
  /\ Committed \in 0 .. 1 /\ InBuffer \in Nat /\ WindowLength \in Nat
  /\ InBuffer <= WindowLength /\ ROB_size \in 0 .. ROB_SIZE
  /\ \A k \in 1 .. InBuffer : k - 1 + Committed \in RoBSlots
  /\ \A k \in 1 .. WindowLength : InstrAt(k) \in Instrs

WindowContents ==
  /\ Window \in Seq(NameRecords) /\ Len(Window) = WindowLength
  /\ DOMAIN Window = 1 .. WindowLength
  /\ \A k \in 1 .. WindowLength : Window[k] = NamesOf(InstrAt(k))

\* The window's instructions are instruction records.
LEMMA WindowTypes == TypeInv /\ RoBInv => WindowShape
<1> SUFFICES ASSUME TypeInv, RoBInv PROVE WindowShape
  OBVIOUS
<1>1. /\ Committed \in 0 .. 1 /\ ROB_size \in 0 .. ROB_SIZE /\ ROB_SIZE \in Nat
      /\ Waiting(issue_queue) \in 0 .. 1 /\ Waiting(rename2_dispatch) \in 0 .. 1
  BY ROBNotEmpty DEF RoBInv, RoBContiguous, Committed, Waiting
<1>2. /\ InBuffer \in Nat
      /\ InBuffer > 0 => InBuffer + Committed = ROB_size
  BY <1>1 DEF InBuffer
<1>3. ASSUME NEW k \in 1 .. InBuffer PROVE k - 1 + Committed \in RoBSlots
  <2>1. k - 1 + Committed >= 0 /\ k - 1 + Committed <= ROB_size - 1
    BY <1>1, <1>2
  <2>2. k - 1 + Committed \in Int /\ k - 1 + Committed <= ROB_SIZE - 1
    BY <1>1, <2>1
  <2> QED
    BY <1>1, <2>1, <2>2 DEF RoBSlots
<1>4. /\ \A k \in RoBSlots : RoB[k].instr \in Instrs
      /\ issue_queue.instr \in Instrs /\ rename2_dispatch.instr \in Instrs
  BY DEF TypeInv, RoBTypes, RoBType, RoBEntries, FrontTypes, Latches, StallLatches
<1>5. ASSUME NEW k \in 1 .. WindowLength PROVE InstrAt(k) \in Instrs
  <2>1. k \in Int /\ k >= 1
    BY <1>1, <1>2 DEF WindowLength
  <2>2. CASE k <= InBuffer
    BY <1>2, <1>3, <1>4, <2>1, <2>2 DEF InstrAt
  <2>3. CASE ~(k <= InBuffer)
    BY <1>4, <2>3 DEF InstrAt
  <2> QED
    BY <2>2, <2>3
<1>6. WindowLength \in Nat /\ InBuffer <= WindowLength
  BY <1>1, <1>2 DEF WindowLength
<1> QED
  BY <1>1, <1>2, <1>3, <1>5, <1>6 DEF WindowShape

\* An instruction's names are a record of names.
LEMMA NamesOfType == ASSUME NEW i \in Instrs PROVE NamesOf(i) \in NameRecords
BY InstrFields DEF NamesOf, NameRecords

\* At most one instruction, as a sequence.
LEMMA LatchedSeq ==
  ASSUME NEW latch, latch.instr \in Instrs
  PROVE  /\ (IF latch.has_insn THEN <<latch.instr>> ELSE << >>) \in Seq(Instrs)
         /\ Len(IF latch.has_insn THEN <<latch.instr>> ELSE << >>) = Waiting(latch)
         /\ latch.has_insn => (IF latch.has_insn THEN <<latch.instr>> ELSE << >>)[1] = latch.instr
BY DEF Waiting

\* Renamed is that window.
LEMMA RenamedIs ==
  TypeInv /\ RoBInv =>
    /\ Renamed \in Seq(Instrs) /\ Len(Renamed) = WindowLength
    /\ DOMAIN Renamed = 1 .. WindowLength
    /\ \A k \in 1 .. WindowLength : Renamed[k] = InstrAt(k)
<1> SUFFICES ASSUME TypeInv, RoBInv
             PROVE  /\ Renamed \in Seq(Instrs) /\ Len(Renamed) = WindowLength
                    /\ DOMAIN Renamed = 1 .. WindowLength
                    /\ \A k \in 1 .. WindowLength : Renamed[k] = InstrAt(k)
  OBVIOUS
<1> DEFINE a == SubSeq(InFlight, 1 + Committed, ROB_size)
           b == IF issue_queue.has_insn THEN <<issue_queue.instr>> ELSE << >>
           c == IF rename2_dispatch.has_insn THEN <<rename2_dispatch.instr>> ELSE << >>
<1>1. Renamed = (a \o b) \o c
  <2>1. (IF delete_ROB_head THEN 2 ELSE 1) = 1 + Committed
    BY DEF Committed
  <2> QED
    BY <2>1, Zenon DEF Renamed
<1>2. /\ Committed \in 0 .. 1 /\ InBuffer \in Nat /\ ROB_size \in 0 .. ROB_SIZE
      /\ WindowLength \in Nat /\ \A k \in 1 .. InBuffer : k - 1 + Committed \in RoBSlots
      /\ \A k \in 1 .. InBuffer : InstrAt(k) = RoB[k - 1 + Committed].instr
      /\ \A k \in 1 .. InBuffer : InstrAt(k) \in Instrs
  BY WindowTypes DEF WindowShape, InstrAt
<1>3. /\ a \in Seq(Instrs) /\ Len(a) = InBuffer
      /\ \A k \in 1 .. InBuffer : a[k] = InstrAt(k)
  <2>1. \A k \in 1 + Committed .. ROB_size : InFlight[k] = RoB[k - 1].instr
    BY <1>2, ROBNotEmpty DEF InFlight
  <2>2. \A k \in 1 + Committed .. ROB_size : InFlight[k] \in Instrs
    <3>1. \A k \in 1 + Committed .. ROB_size : k - 1 \in RoBSlots
      BY <1>2, ROBNotEmpty DEF RoBSlots
    <3>2. \A k \in RoBSlots : RoB[k].instr \in Instrs
      BY DEF TypeInv, RoBTypes, RoBType, RoBEntries
    <3> QED
      BY <2>1, <3>1, <3>2
  <2>3. 1 + Committed \in Int /\ ROB_size \in Int
    BY <1>2
  <2>4. /\ a \in Seq(Instrs)
        /\ Len(a) = IF 1 + Committed <= ROB_size THEN ROB_size - (1 + Committed) + 1 ELSE 0
        /\ \A i \in 1 .. ROB_size - (1 + Committed) + 1 : a[i] = InFlight[1 + Committed + i - 1]
    BY <2>2, <2>3, SubSeqProperties
  <2>5. Len(a) = InBuffer
    BY <1>2, <2>4 DEF InBuffer
  <2> HIDE DEF a
  <2>6. ASSUME NEW k \in 1 .. InBuffer PROVE a[k] = InstrAt(k)
    <3> DEFINE j == 1 + Committed + k - 1
    <3>1. /\ k \in 1 .. ROB_size - (1 + Committed) + 1
          /\ j \in 1 + Committed .. ROB_size
          /\ j - 1 = k - 1 + Committed
      BY <1>2 DEF InBuffer
    <3>2. a[k] = InFlight[j]
      BY <2>4, <3>1
    <3> HIDE DEF j
    <3>3. InFlight[j] = RoB[j - 1].instr
      BY <2>1, <3>1
    <3> QED
      BY <1>2, <3>1, <3>2, <3>3
  <2> QED
    BY <2>4, <2>5, <2>6
<1>4. /\ b \in Seq(Instrs) /\ Len(b) = Waiting(issue_queue)
      /\ issue_queue.has_insn => b[1] = issue_queue.instr
  BY LatchedSeq DEF TypeInv, FrontTypes, Latches
<1>5. /\ c \in Seq(Instrs) /\ Len(c) = Waiting(rename2_dispatch)
      /\ rename2_dispatch.has_insn => c[1] = rename2_dispatch.instr
  BY LatchedSeq DEF TypeInv, FrontTypes, StallLatches
<1> HIDE DEF a, b, c
<1>6. /\ a \o b \in Seq(Instrs) /\ Len(a \o b) = Len(a) + Len(b)
      /\ \A i \in 1 .. Len(a) + Len(b) : (a \o b)[i] = IF i <= Len(a) THEN a[i] ELSE b[i - Len(a)]
  BY <1>3, <1>4, ConcatProperties
<1> DEFINE ab == a \o b
<1> HIDE DEF ab
<1>7. /\ ab \o c \in Seq(Instrs) /\ Len(ab \o c) = Len(ab) + Len(c)
      /\ \A i \in 1 .. Len(ab) + Len(c) : (ab \o c)[i] = IF i <= Len(ab) THEN ab[i] ELSE c[i - Len(ab)]
  BY <1>5, <1>6, ConcatProperties DEF ab
<1>8. /\ Waiting(issue_queue) = IF issue_queue.has_insn THEN 1 ELSE 0
      /\ Waiting(rename2_dispatch) = IF rename2_dispatch.has_insn THEN 1 ELSE 0
  BY DEF Waiting
<1>9. Len(ab) = InBuffer + Waiting(issue_queue)
  BY <1>3, <1>4, <1>6 DEF ab
<1>10. Len(ab \o c) = WindowLength
  BY <1>5, <1>7, <1>9 DEF WindowLength
<1>11. ASSUME NEW k \in 1 .. WindowLength PROVE (ab \o c)[k] = InstrAt(k)
  <2>1. (ab \o c)[k] = IF k <= Len(ab) THEN ab[k] ELSE c[k - Len(ab)]
    BY <1>7, <1>10
  <2>2. CASE k <= InBuffer
    <3>1. k \in 1 .. InBuffer /\ k <= Len(ab) /\ k \in 1 .. Len(a) + Len(b) /\ k <= Len(a)
      BY <1>2, <1>3, <1>4, <1>8, <1>9, <2>2
    <3> QED
      BY <1>3, <1>6, <2>1, <3>1 DEF ab
  <2>3. CASE k = InBuffer + 1 /\ issue_queue.has_insn
    <3>1. k <= Len(ab) /\ k \in 1 .. Len(a) + Len(b) /\ ~(k <= Len(a)) /\ k - Len(a) = 1
      BY <1>2, <1>3, <1>4, <1>8, <1>9, <2>3
    <3>2. (ab \o c)[k] = issue_queue.instr
      BY <1>4, <1>6, <2>1, <2>3, <3>1 DEF ab
    <3>3. ~(k <= InBuffer)
      BY <1>2, <2>3
    <3> QED
      BY <2>3, <3>2, <3>3 DEF InstrAt
  <2>4. CASE ~(k <= InBuffer) /\ ~(k = InBuffer + 1 /\ issue_queue.has_insn)
    <3>1. ~(k <= Len(ab)) /\ k - Len(ab) = 1 /\ rename2_dispatch.has_insn
      BY <1>2, <1>8, <1>9, <2>4 DEF WindowLength
    <3>2. (ab \o c)[k] = rename2_dispatch.instr
      BY <1>5, <2>1, <3>1
    <3> QED
      BY <2>4, <3>2 DEF InstrAt
  <2> QED
    BY <2>2, <2>3, <2>4
<1> QED
  BY <1>1, <1>7, <1>10, <1>11, LenProperties DEF ab

\* And Window the names in it.
LEMMA WindowIs == TypeInv /\ RoBInv => WindowContents
<1> SUFFICES ASSUME TypeInv, RoBInv PROVE WindowContents
  OBVIOUS
<1>1. /\ DOMAIN Renamed = 1 .. WindowLength /\ WindowLength \in Nat
      /\ \A k \in 1 .. WindowLength : Renamed[k] = InstrAt(k)
      /\ \A k \in 1 .. WindowLength : NamesOf(InstrAt(k)) \in NameRecords
  BY RenamedIs, WindowTypes, NamesOfType DEF WindowShape
<1>2. Window = [k \in 1 .. WindowLength |-> NamesOf(Renamed[k])]
  BY <1>1 DEF Window
<1> QED
  BY <1>1, <1>2 DEF WindowContents

\* The same of the next state.
LEMMA WindowNext == (TypeInv /\ RoBInv => WindowShape /\ WindowContents)'
<1>1. TypeInv /\ RoBInv => WindowShape /\ WindowContents
  BY WindowTypes, WindowIs
<1> QED
  BY <1>1, PTL

(***************************************************************************)
(* How the window moves.                                                   *)
(***************************************************************************)
\* A step that takes d instructions off its front, and some off its end.
LEMMA WindowMoves ==
  ASSUME TypeInv, RoBInv, TypeInv', RoBInv', NEW d \in Nat,
         WindowLength' + d <= WindowLength,
         \A k \in 1 .. WindowLength' : NamesOf(InstrAt(k)') = NamesOf(InstrAt(k + d))
  PROVE  /\ Stretch(Window', Window, d)
         /\ d = 0 /\ WindowLength' = WindowLength => Window' = Window
<1>1. WindowShape /\ WindowContents /\ WindowShape' /\ WindowContents'
  BY WindowTypes, WindowIs, WindowNext
<1>2. WindowLength \in Nat /\ WindowLength' \in Nat
  BY <1>1 DEF WindowShape
<1>3. /\ DOMAIN Window = 1 .. WindowLength /\ DOMAIN Window' = 1 .. WindowLength'
      /\ \A k \in 1 .. WindowLength : Window[k] = NamesOf(InstrAt(k))
      /\ \A k \in 1 .. WindowLength' : Window'[k] = NamesOf(InstrAt(k)')
      /\ Window \in Seq(NameRecords) /\ Window' \in Seq(NameRecords)
      /\ Len(Window) = WindowLength /\ Len(Window') = WindowLength'
  BY <1>1 DEF WindowContents, NamesOf
<1> HIDE DEF NamesOf
<1>4. \A k \in 1 .. WindowLength' : k + d \in 1 .. WindowLength
  <2>1. \A m, n \in Nat : m + d <= n => \A k \in 1 .. m : k + d \in 1 .. n
    OBVIOUS
  <2> QED
    BY <1>2, <2>1, Zenon
<1>5. Stretch(Window', Window, d)
  BY <1>3, <1>4 DEF Stretch
<1>6. ASSUME d = 0, WindowLength' = WindowLength PROVE Window' = Window
  <2>1. \A k \in 1 .. WindowLength : k + d = k
    BY <1>2, <1>6
  <2>2. \A k \in 1 .. WindowLength : Window'[k] = Window[k]
    BY <1>3, <1>6, <2>1
  <2> QED
    BY <1>2, <1>3, <1>6, <2>2, SeqEqual
<1> QED
  BY <1>5, <1>6

\* The latches of the front end, seen from the stage that is about to run: dispatch and
\* decode find the latch they fill empty, and the head is deleted only while it is there.
LatchInv ==
  /\ stage = "dispatch" => ~issue_queue.has_insn
  /\ stage = "decode" => ~rename2_dispatch.has_insn
  /\ stage = "squash" => ~issue_queue.has_insn /\ ~rename2_dispatch.has_insn
  /\ delete_ROB_head => ROB_size > 0

windowVars == <<robVars, issue_queue, rename2_dispatch>>

\* Every step keeps the latches' invariant when no squash reaches a head that has committed.
LEMMA LatchInvStep ==
  ASSUME TypeInv, RoBInv, TypeInv', RoBInv', LatchInv, SquashesItsOwn, [Next]_vars
  PROVE  LatchInv'
<1>1. CASE CommitStage
  <2>1. /\ stage' \in {"done", "stopped", "MAU"} /\ UNCHANGED <<issue_queue, rename2_dispatch>>
        /\ delete_ROB_head' => RoB'[0].established_bit
    BY <1>1 DEF CommitStage, CommitHead, AfterCommit, frontVars
  <2>2. RoB'[0].established_bit => ROB_size' > 0
    BY ROBNotEmpty DEF RoBInv, RoBContiguous, RoBSlots
  <2>3. delete_ROB_head' => ROB_size' > 0
    BY <2>1, <2>2, Zenon
  <2>4. stage' # "dispatch" /\ stage' # "decode" /\ stage' # "squash"
    BY <2>1
  <2> QED
    BY <2>3, <2>4, Zenon DEF LatchInv
<1>2. CASE IssueStage
  <2>1. /\ stage' = "dispatch" /\ issue_queue' = [issue_queue EXCEPT !.has_insn = FALSE]
        /\ delete_ROB_head' = delete_ROB_head
        /\ ROB_size' = IF issue_queue.has_insn THEN ROB_size + 1 ELSE ROB_size
    BY <1>2 DEF IssueStage
  <2>2. ROB_size \in Nat /\ issue_queue \in Latches
    BY ROBNotEmpty DEF RoBInv, RoBContiguous, TypeInv, FrontTypes
  <2> QED
    BY <2>1, <2>2 DEF LatchInv, Latches
<1>3. CASE DispatchStage
  <2>1. stage' = "decode" /\ UNCHANGED robVars
    BY <1>3 DEF DispatchStage
  <2>2. ~rename2_dispatch'.has_insn
    BY <1>3 DEF DispatchStage, TypeInv, FrontTypes, StallLatches
  <2> QED
    BY <2>1, <2>2 DEF LatchInv, robVars
<1>4. CASE FetchStage
  <2>1. UNCHANGED robVars
    BY <1>4 DEF FetchStage
  <2>2. \/ stage' = "commit"
        \/ /\ stage' = "squash"
           /\ rename2_dispatch' = [rename2_dispatch EXCEPT !.has_insn = FALSE, !.stall = FALSE]
           /\ issue_queue' = [issue_queue EXCEPT !.has_insn = FALSE]
    BY <1>4 DEF FetchStage, EmptyLatches
  <2> QED
    BY <2>1, <2>2 DEF LatchInv, robVars, TypeInv, FrontTypes, StallLatches, Latches
<1>5. CASE SquashTail
  <2>1. /\ ROB_size' = ROB_size - 1
        /\ delete_ROB_head => ROB_size > 1
        /\ UNCHANGED <<stage, issue_queue, rename2_dispatch, delete_ROB_head>>
    BY <1>5 DEF SquashTail, SquashesItsOwn, frontVars
  <2>2. ROB_size \in Nat
    BY ROBNotEmpty DEF RoBInv, RoBContiguous
  <2> QED
    BY <2>1, <2>2 DEF LatchInv
<1>6. CASE CommitBelowZero \/ MAUOutOfBounds \/ DecodeOutOfBounds \/ FetchOutOfBounds
  BY <1>6 DEF CommitBelowZero, MAUOutOfBounds, DecodeOutOfBounds, FetchOutOfBounds,
              BecomesUndefined, LatchInv, robVars
<1>7. CASE MAUStage \/ MulFUStage \/ AFUStage \/ IntFUStage
  BY <1>7 DEF MAUStage, MulFUStage, AFUStage, IntFUStage, LatchInv, robVars
<1>8. CASE BFUStage
  BY <1>8 DEF BFUStage, LatchInv, robVars
<1>9. CASE DecodeStage
  BY <1>9 DEF DecodeStage, LatchInv, robVars
<1>10. CASE SquashEnds
  BY <1>10 DEF SquashEnds, LatchInv, robVars
<1>11. CASE UNCHANGED vars
  BY <1>11 DEF vars, frontVars, LatchInv, robVars
<1> QED
  BY <1>1, <1>2, <1>3, <1>4, <1>5, <1>6, <1>7, <1>8, <1>9, <1>10, <1>11 DEF Next

\* Where the window's variables stay, so does the window.
LEMMA WindowStays == ASSUME UNCHANGED windowVars PROVE Window' = Window
BY DEF windowVars, robVars, Window, Renamed, InFlight

\* Establishing an entry moves the window's border.
LEMMA WindowAtIssue ==
  ASSUME TypeInv, RoBInv, TypeInv', RoBInv', LatchInv, IssueStage PROVE Window' = Window
<1>1. CASE ~issue_queue.has_insn
  <2>1. /\ UNCHANGED <<RoB, ROB_size, delete_ROB_head, rename2_dispatch>>
        /\ ~issue_queue'.has_insn
    BY <1>1 DEF IssueStage, TypeInv, FrontTypes, Latches
  <2> QED
    BY <1>1, <2>1 DEF Window, Renamed, InFlight
<1>2. CASE issue_queue.has_insn
  <2> DEFINE i == issue_queue.instr
             t == Advance(ROB_tail, ROB_SIZE)
  <2>1. /\ ROB_size' = ROB_size + 1 /\ ~issue_queue'.has_insn
        /\ UNCHANGED <<delete_ROB_head, rename2_dispatch>>
        /\ \E l : RoB' = EstablishRoB(RoB, t, i, l)
    BY <1>2 DEF IssueStage, TypeInv, FrontTypes, Latches
  <2>2. t = ROB_size /\ ROB_size \in RoBSlots /\ ROB_size \in Nat
    <3>1. ROB_size \in 0 .. ROB_SIZE - 1 /\ ROB_tail \in -1 .. ROB_SIZE - 1
      BY <1>2, ROBNotEmpty DEF RoBInv, RoBContiguous
    <3>2. t = IF ROB_tail = ROB_SIZE - 1 THEN 0 ELSE ROB_tail + 1
      BY <3>1, Wrapping, ROBNotEmpty
    <3> QED
      BY <3>1, <3>2, ROBNotEmpty DEF RoBInv, RoBContiguous, RoBSlots
  <2> HIDE DEF t
  <2>3. /\ RoB'[ROB_size].instr = i
        /\ \A k \in RoBSlots : k # ROB_size => RoB'[k] = RoB[k]
    BY <2>1, <2>2 DEF EstablishRoB, TypeInv, RoBTypes, RoBType, RoBEntries
  <2>4. /\ Committed \in 0 .. 1 /\ Committed' = Committed
        /\ InBuffer \in Nat /\ InBuffer = ROB_size - Committed /\ InBuffer' = InBuffer + 1
        /\ \A k \in 1 .. InBuffer : k - 1 + Committed \in RoBSlots
    <3>1. /\ Committed \in 0 .. 1 /\ Committed' = Committed
          /\ \A k \in 1 .. InBuffer : k - 1 + Committed \in RoBSlots
      BY <2>1, WindowTypes DEF WindowShape, Committed
    <3>2. ROB_size >= Committed
      BY <2>2 DEF LatchInv, Committed
    <3> QED
      BY <2>1, <2>2, <3>1, <3>2 DEF InBuffer
  <2>5. /\ WindowLength = InBuffer + 1 + Waiting(rename2_dispatch)
        /\ WindowLength' = WindowLength
        /\ Waiting(rename2_dispatch) \in 0 .. 1
    BY <1>2, <2>1, <2>4 DEF WindowLength, Waiting
  <2>6. ASSUME NEW k \in 1 .. WindowLength PROVE InstrAt(k)' = InstrAt(k)
    <3>1. CASE k <= InBuffer
      <4>1. /\ k \in 1 .. InBuffer /\ k <= InBuffer' /\ k - 1 + Committed \in RoBSlots
            /\ k - 1 + Committed # ROB_size
        BY <2>2, <2>4, <2>5, <3>1
      <4> QED
        BY <2>3, <2>4, <3>1, <4>1 DEF InstrAt
    <3>2. CASE k = InBuffer + 1
      <4>1. k <= InBuffer' /\ ~(k <= InBuffer) /\ k - 1 + Committed = ROB_size
        BY <2>2, <2>4, <3>2
      <4> QED
        BY <1>2, <2>3, <2>4, <3>2, <4>1 DEF InstrAt
    <3>3. CASE k > InBuffer + 1
      <4>1. ~(k <= InBuffer') /\ ~(k <= InBuffer) /\ k # InBuffer + 1
        BY <2>4, <2>5, <3>3
      <4> QED
        BY <2>1, <4>1 DEF InstrAt
    <3> QED
      BY <2>4, <2>5, <3>1, <3>2, <3>3
  <2>7. WindowLength \in Nat /\ WindowLength' + 0 <= WindowLength
    BY <2>4, <2>5
  <2>8. \A k \in 1 .. WindowLength' : NamesOf(InstrAt(k)') = NamesOf(InstrAt(k + 0))
    BY <2>5, <2>6, <2>7
  <2> QED
    BY <2>5, <2>7, <2>8, WindowMoves
<1> QED
  BY <1>1, <1>2

\* The window is one shorter at its end.
LosesLast ==
  /\ WindowLength \in Nat \ {0} /\ WindowLength' = WindowLength - 1
  /\ Stretch(Window', Window, 0)

\* Operands that arrive do not change an instruction's names.
LEMMA NamesKept ==
  ASSUME NEW i \in Instrs, bus \in BusType, physicalRegFile \in PRFType
  PROVE  /\ NamesOf(PickUp(i, bus)) = NamesOf(i)
         /\ NamesOf(ReadPRF(PickUp(i, bus), physicalRegFile)) = NamesOf(i)
<1> DEFINE Filled1(j, v) == [j EXCEPT !.phyrs1_valid = TRUE, !.phyrs1_value = v]
           Filled2(j, v) == [j EXCEPT !.phyrs2_valid = TRUE, !.phyrs2_value = v]
<1>1. \A j \in Instrs : \A v : NamesOf(Filled1(j, v)) = NamesOf(j)
  BY DEF NamesOf, Instrs
<1>2. \A j \in Instrs : \A v : NamesOf(Filled2(j, v)) = NamesOf(j)
  BY DEF NamesOf, Instrs
<1>3. \A j \in Instrs : \/ PickUp1(j, bus) = j
                        \/ \E v \in Int : PickUp1(j, bus) = Filled1(j, v)
  BY MatchingBusType DEF PickUp1
<1>4. \A j \in Instrs : \/ PickUp2(j, bus) = j
                        \/ \E v \in Int : PickUp2(j, bus) = Filled2(j, v)
  BY MatchingBusType DEF PickUp2
<1>5. /\ \A j \in Instrs, v \in Int : Filled1(j, v) \in Instrs
      /\ \A j \in Instrs, v \in Int : Filled2(j, v) \in Instrs
  BY Source1Type, Source2Type
<1>6. ASSUME NEW tag \in Tags, PRFValid(physicalRegFile, tag)
      PROVE  physicalRegFile[tag].data \in Int
  BY <1>6 DEF PRFType, PRFValid, Tags
<1>7. \A j \in Instrs : j.phyrs1 \in Tags /\ j.phyrs2 \in Tags
  BY InstrFields
<1>8. \A j \in Instrs : \/ ReadPRF1(j, physicalRegFile) = j
                        \/ \E v \in Int : ReadPRF1(j, physicalRegFile) = Filled1(j, v)
  BY <1>6, <1>7 DEF ReadPRF1
<1>9. \A j \in Instrs : \/ ReadPRF2(j, physicalRegFile) = j
                        \/ \E v \in Int : ReadPRF2(j, physicalRegFile) = Filled2(j, v)
  BY <1>6, <1>7 DEF ReadPRF2
<1> HIDE DEF Filled1, Filled2
<1>10. PickUp(i, bus) \in Instrs /\ NamesOf(PickUp(i, bus)) = NamesOf(i)
  <2>1. ASSUME NEW j \in Instrs
        PROVE  PickUp1(j, bus) \in Instrs /\ NamesOf(PickUp1(j, bus)) = NamesOf(j)
    BY <1>1, <1>3, <1>5
  <2>2. ASSUME NEW j \in Instrs
        PROVE  PickUp2(j, bus) \in Instrs /\ NamesOf(PickUp2(j, bus)) = NamesOf(j)
    BY <1>2, <1>4, <1>5
  <2> QED
    BY <2>1, <2>2 DEF PickUp
<1>11. \A j \in Instrs : NamesOf(ReadPRF(j, physicalRegFile)) = NamesOf(j)
  BY <1>1, <1>2, <1>5, <1>8, <1>9 DEF ReadPRF
<1> QED
  BY <1>10, <1>11

\* Dispatch moves the last instruction on, or drops it.
LEMMA WindowAtDispatch ==
  ASSUME TypeInv, RoBInv, TypeInv', RoBInv', LatchInv, DispatchStage
  PROVE  \/ Window' = Window
         \/ /\ LosesLast /\ rename2_dispatch.has_insn
            /\ Window[WindowLength] = NamesOf(rename2_dispatch.instr)
            /\ \/ rename2_dispatch.instr.opcode = "DIV"
               \/ ~RoomFor(rename2_dispatch.instr.opcode, issueQueue, ROB_size, LSQ_size)
<1> DEFINE i == ReadPRF(PickUp(rename2_dispatch.instr, bus), physicalRegFile)
<1>1. /\ rename2_dispatch \in StallLatches /\ rename2_dispatch.instr \in Instrs
      /\ NamesOf(i) = NamesOf(rename2_dispatch.instr)
  BY NamesKept DEF TypeInv, FrontTypes, StallLatches, ForwardingTypes, FileTypes
<1>2. i.opcode = rename2_dispatch.instr.opcode
  BY <1>1 DEF NamesOf
<1>3. /\ ~issue_queue.has_insn /\ UNCHANGED robVars
      /\ Committed' = Committed /\ InBuffer' = InBuffer
  BY DEF DispatchStage, LatchInv, robVars, Committed, InBuffer
<1>4. InBuffer \in Nat /\ WindowLength \in Nat
  BY WindowTypes DEF WindowShape
<1>5. WindowContents
  BY WindowIs
<1>6. CASE ~rename2_dispatch.has_insn
  BY <1>3, <1>6, WindowStays DEF DispatchStage, windowVars
<1> DEFINE room == RoomFor(i.opcode, issueQueue, ROB_size, LSQ_size)
<1>7. CASE rename2_dispatch.has_insn
  <2>1. /\ ~rename2_dispatch'.has_insn
        /\ IF i.opcode # "DIV" /\ room
           THEN issue_queue'.has_insn /\ issue_queue'.instr = i
           ELSE issue_queue' = issue_queue
    BY <1>1, <1>7 DEF DispatchStage, StallLatches
  <2>2. PICK n \in Nat : n = InBuffer
    BY <1>4, Zenon
  <2>3. WindowLength = n + 1 /\ InBuffer' = n
    BY <1>3, <1>7, <2>2 DEF WindowLength, Waiting
  <2>4. ASSUME NEW k \in 1 .. n PROVE InstrAt(k)' = InstrAt(k)
    <3>1. k <= InBuffer /\ k <= InBuffer'
      BY <2>2, <2>3
    <3> QED
      BY <1>3, <3>1 DEF InstrAt, robVars
  <2>5. InstrAt(n + 1) = rename2_dispatch.instr
    <3>1. ~(n + 1 <= InBuffer)
      BY <2>2
    <3> QED
      BY <1>3, <3>1 DEF InstrAt
  <2> HIDE DEF room, i
  <2>6. CASE i.opcode # "DIV" /\ room
    <3>1. WindowLength' = n + 1
      <4>1. /\ Waiting(issue_queue)' = 1 /\ Waiting(rename2_dispatch)' = 0
            /\ WindowLength' = InBuffer' + Waiting(issue_queue)' + Waiting(rename2_dispatch)'
        BY <2>1, <2>6 DEF WindowLength, Waiting
      <4>2. n + 1 + 0 = n + 1
        BY <2>2
      <4> QED
        BY <2>3, <4>1, <4>2, Zenon
    <3>2. InstrAt(n + 1)' = i
      <4>1. ~(n + 1 <= n)
        BY <2>2
      <4>2. ~(n + 1 <= InBuffer') /\ n + 1 = InBuffer' + 1
        BY <2>3, <4>1, Zenon
      <4> QED
        BY <2>1, <2>6, <4>2, Zenon DEF InstrAt
    <3>3. ASSUME NEW k \in 1 .. n + 1 PROVE NamesOf(InstrAt(k)') = NamesOf(InstrAt(k))
      <4>1. k \in 1 .. n \/ k = n + 1
        BY <2>2
      <4>2. CASE k = n + 1
        BY <1>1, <2>5, <3>2, <4>2, Zenon
      <4> QED
        BY <2>4, <4>1, <4>2, Zenon
    <3>4. \A k \in 1 .. WindowLength' : NamesOf(InstrAt(k)') = NamesOf(InstrAt(k + 0))
      <4>1. \A k \in 1 .. n + 1 : k + 0 = k
        BY <2>2
      <4> QED
        BY <3>1, <3>3, <4>1, Zenon
    <3>5. WindowLength' = WindowLength /\ WindowLength' + 0 <= WindowLength
      <4>1. n + 1 + 0 <= n + 1
        BY <2>2
      <4> QED
        BY <2>3, <3>1, <4>1, Zenon
    <3> QED
      BY <3>4, <3>5, WindowMoves
  <2>7. CASE ~(i.opcode # "DIV" /\ room)
    <3>1. WindowLength' = n
      <4>1. /\ Waiting(issue_queue)' = 0 /\ Waiting(rename2_dispatch)' = 0
            /\ WindowLength' = InBuffer' + Waiting(issue_queue)' + Waiting(rename2_dispatch)'
        BY <1>3, <2>1, <2>7 DEF WindowLength, Waiting
      <4>2. n + 0 + 0 = n
        BY <2>2
      <4> QED
        BY <2>3, <4>1, <4>2, Zenon
    <3>2. \A k \in 1 .. WindowLength' : NamesOf(InstrAt(k)') = NamesOf(InstrAt(k + 0))
      <4>1. \A k \in 1 .. n : k + 0 = k
        BY <2>2
      <4> QED
        BY <2>4, <3>1, <4>1, Zenon
    <3>3. n + 0 <= n + 1 /\ n + 1 \in Nat \ {0} /\ n = n + 1 - 1
      BY <2>2
    <3>4. Stretch(Window', Window, 0)
      <4>1. WindowLength' + 0 <= WindowLength
        BY <2>3, <3>1, <3>3, Zenon
      <4> QED
        BY <3>2, <4>1, WindowMoves
    <3>5. LosesLast
      <4>1. WindowLength' = WindowLength - 1
        BY <2>3, <3>1, <3>3
      <4> QED
        BY <2>3, <3>3, <3>4, <4>1 DEF LosesLast
    <3>6. Window[WindowLength] = NamesOf(rename2_dispatch.instr)
      BY <1>5, <2>2, <2>3, <2>5 DEF WindowContents
    <3> QED
      BY <1>2, <1>7, <2>7, <3>5, <3>6 DEF room
  <2> QED
    BY <2>6, <2>7
<1> QED
  BY <1>6, <1>7

\* A redirect leaves what is in the reorder buffer.
LEMMA WindowAtFetch ==
  ASSUME TypeInv, RoBInv, TypeInv', RoBInv', FetchStage
  PROVE  /\ Stretch(Window', Window, 0)
         /\ stage' # "squash" => Window' = Window
<1>1. UNCHANGED robVars /\ Committed' = Committed /\ InBuffer' = InBuffer
  BY DEF FetchStage, robVars, Committed, InBuffer
<1>2. InBuffer \in Nat /\ WindowLength \in Nat /\ InBuffer <= WindowLength
  BY WindowTypes DEF WindowShape
<1>3. CASE UNCHANGED <<issue_queue, rename2_dispatch>>
  <2>1. Window' = Window
    BY <1>1, <1>3, WindowStays DEF windowVars
  <2>2. WindowContents
    BY WindowIs
  <2>3. \A k \in DOMAIN Window : k \in Int /\ k + 0 = k
    BY <1>2, <2>2 DEF WindowContents
  <2>4. Stretch(Window, Window, 0)
    BY <2>3 DEF Stretch
  <2> QED
    BY <2>1, <2>4
<1>4. CASE stage' = "squash" /\ ~issue_queue'.has_insn /\ ~rename2_dispatch'.has_insn
  <2>1. WindowLength' = InBuffer
    BY <1>1, <1>2, <1>4 DEF WindowLength, Waiting
  <2>2. \A k \in 1 .. InBuffer : InstrAt(k)' = InstrAt(k)
    BY <1>1, <1>2 DEF InstrAt, robVars
  <2>3. \A k \in 1 .. WindowLength' : NamesOf(InstrAt(k)') = NamesOf(InstrAt(k + 0))
    <3>1. \A k \in 1 .. WindowLength' : k + 0 = k /\ k \in 1 .. InBuffer
      BY <1>2, <2>1
    <3> QED
      BY <2>2, <3>1
  <2>4. WindowLength' + 0 <= WindowLength
    BY <1>2, <2>1
  <2> QED
    BY <1>4, <2>3, <2>4, WindowMoves
<1>5. \/ UNCHANGED <<issue_queue, rename2_dispatch>>
      \/ stage' = "squash" /\ ~issue_queue'.has_insn /\ ~rename2_dispatch'.has_insn
  <2>1. \/ UNCHANGED <<issue_queue, rename2_dispatch>>
        \/ /\ stage' = "squash"
           /\ rename2_dispatch' = [rename2_dispatch EXCEPT !.has_insn = FALSE, !.stall = FALSE]
           /\ issue_queue' = [issue_queue EXCEPT !.has_insn = FALSE]
    BY DEF FetchStage, EmptyLatches, frontVars
  <2> QED
    BY <2>1 DEF TypeInv, FrontTypes, StallLatches, Latches
<1> QED
  BY <1>3, <1>4, <1>5

\* An iteration of the squash takes the tail off the window.
LEMMA WindowAtSquash ==
  ASSUME TypeInv, RoBInv, TypeInv', RoBInv', LatchInv, SquashesItsOwn, SquashTail
  PROVE  /\ LosesLast
         /\ RoB[ROB_tail].instr \in Instrs
         /\ Window[WindowLength] = NamesOf(RoB[ROB_tail].instr)
<1>1. /\ RoB' = [RoB EXCEPT ![ROB_tail].established_bit = FALSE]
      /\ ROB_size' = ROB_size - 1
      /\ UNCHANGED <<delete_ROB_head, issue_queue, rename2_dispatch>>
      /\ ~issue_queue.has_insn /\ ~rename2_dispatch.has_insn
      /\ delete_ROB_head => ROB_size > 1
  BY DEF SquashTail, LatchInv, SquashesItsOwn, frontVars
<1>2. /\ ROB_size \in 1 .. ROB_SIZE /\ ROB_tail = ROB_size - 1 /\ ROB_tail \in RoBSlots
  BY ROBNotEmpty DEF SquashTail, SquashContinues, RoBInv, RoBContiguous, RoBSlots
<1>3. WindowShape /\ WindowContents
  BY WindowTypes, WindowIs
<1>4. /\ Committed \in 0 .. 1 /\ Committed' = Committed
      /\ InBuffer = ROB_size - Committed /\ InBuffer \in Nat \ {0} /\ InBuffer' = InBuffer - 1
  <2>1. Committed \in 0 .. 1 /\ Committed' = Committed /\ ROB_size > Committed
    BY <1>1, <1>2 DEF Committed
  <2> QED
    BY <1>1, <1>2, <2>1 DEF InBuffer
<1>5. WindowLength = InBuffer /\ WindowLength' = InBuffer - 1
  BY <1>1, <1>4 DEF WindowLength, Waiting
<1>6. \A k \in RoBSlots : RoB'[k].instr = RoB[k].instr /\ RoB[k].instr \in Instrs
  BY <1>1, <1>2 DEF TypeInv, RoBTypes, RoBType, RoBEntries
<1>7. \A k \in 1 .. InBuffer - 1 : InstrAt(k)' = InstrAt(k)
  <2>1. \A k \in 1 .. InBuffer - 1 : /\ k \in 1 .. InBuffer /\ k <= InBuffer /\ k <= InBuffer'
                                     /\ k - 1 + Committed \in RoBSlots
    BY <1>3, <1>4 DEF WindowShape
  <2> QED
    BY <1>4, <1>6, <2>1 DEF InstrAt
<1>8. InstrAt(WindowLength) = RoB[ROB_tail].instr
  <2>1. WindowLength <= InBuffer /\ WindowLength - 1 + Committed = ROB_tail
    BY <1>2, <1>4, <1>5
  <2> QED
    BY <2>1 DEF InstrAt
<1>9. Stretch(Window', Window, 0)
  <2>1. WindowLength' + 0 <= WindowLength
    BY <1>4, <1>5
  <2>2. \A k \in 1 .. WindowLength' : k + 0 = k /\ k \in 1 .. InBuffer - 1
    BY <1>4, <1>5
  <2>3. \A k \in 1 .. WindowLength' : NamesOf(InstrAt(k)') = NamesOf(InstrAt(k + 0))
    BY <1>7, <2>2
  <2> QED
    BY <2>1, <2>3, WindowMoves
<1>10. LosesLast
  BY <1>4, <1>5, <1>9 DEF LosesLast
<1>11. Window[WindowLength] = NamesOf(RoB[ROB_tail].instr)
  BY <1>3, <1>4, <1>5, <1>8 DEF WindowContents
<1> QED
  BY <1>2, <1>6, <1>10, <1>11

\* Deleting the head moves every entry behind it down by one.
LEMMA DeletedHeadMoves ==
  ASSUME TypeInv, RoBInv, LatchInv
  PROVE  \A k \in RoBSlots : k + Committed < ROB_size =>
           RoBAtCommit[k].instr = RoB[k + Committed].instr
<1>1. CASE delete_ROB_head
  <2>1. ROB_size \in 1 .. ROB_SIZE /\ ROB_tail = ROB_size - 1 /\ ROB_tail \in RoBSlots
    BY <1>1, ROBNotEmpty DEF LatchInv, RoBInv, RoBContiguous, RoBSlots
  <2>2. RoBAtCommit = DeleteRoBHead(RoB, ROB_tail) /\ Committed = 1
    BY <1>1 DEF RoBAtCommit, Committed
  <2>3. ASSUME NEW k \in RoBSlots, k + 1 < ROB_size
        PROVE  RoBAtCommit[k] = RoB[k + 1]
    <3> DEFINE s == Shifted(RoB, ROB_tail)
    <3>1. k < ROB_tail /\ k # ROB_tail
      BY <2>1, <2>3 DEF RoBSlots
    <3>2. s[k] = RoB[k + 1] /\ DOMAIN s = RoBSlots
      BY <3>1 DEF Shifted, TypeInv, RoBTypes, RoBType
    <3> QED
      BY <2>2, <3>1, <3>2 DEF DeleteRoBHead
  <2> QED
    BY <2>2, <2>3
<1>2. CASE ~delete_ROB_head
  <2>1. RoBAtCommit = RoB /\ Committed = 0
    BY <1>2 DEF RoBAtCommit, Committed
  <2>2. \A k \in RoBSlots : k + 0 = k
    BY SlotSets
  <2> QED
    BY <2>1, <2>2
<1> QED
  BY <1>1, <1>2

\* A commit takes the head off the window's front.
LEMMA WindowAtCommit ==
  ASSUME TypeInv, RoBInv, TypeInv', RoBInv', LatchInv, LatchInv', CommitStage
  PROVE  /\ Committed' \in 0 .. 1 /\ WindowLength' + Committed' = WindowLength
         /\ Stretch(Window', Window, Committed')
         /\ Committed' = 0 => Window' = Window
         /\ RoBAtCommit[0].established_bit => /\ 1 \in DOMAIN Window
                                              /\ RoBAtCommit[0].instr \in Instrs
                                              /\ Window[1] = NamesOf(RoBAtCommit[0].instr)
<1>1. /\ RoB' = RoBAtCommit
      /\ ROB_size' = IF delete_ROB_head THEN ROB_size - 1 ELSE ROB_size
      /\ UNCHANGED <<issue_queue, rename2_dispatch>>
  BY DEF CommitStage, frontVars
<1>2. WindowShape /\ WindowContents /\ WindowShape'
  BY WindowTypes, WindowIs, WindowNext
<1>3. /\ Committed \in 0 .. 1 /\ Committed' \in 0 .. 1 /\ ROB_size \in Nat /\ InBuffer \in Nat
      /\ InBuffer' \in Nat
  BY <1>2, ROBNotEmpty DEF WindowShape
<1>4. /\ ROB_size' = ROB_size - Committed /\ ROB_size' >= Committed' /\ ROB_size' \in Nat
      /\ InBuffer = ROB_size'
      /\ InBuffer' = InBuffer - Committed'
  <2>1. ROB_size' = ROB_size - Committed /\ ROB_size' \in Nat
    BY <1>1, <1>2, <1>3, ROBNotEmpty DEF Committed, WindowShape
  <2>2. ROB_size' >= Committed'
    BY <2>1 DEF Committed, LatchInv
  <2>3. InBuffer = ROB_size'
    BY <1>3, <2>1 DEF InBuffer
  <2>4. InBuffer' = InBuffer - Committed'
    <3> DEFINE c == Committed'
    <3>1. /\ c \in 0 .. 1 /\ ROB_size' \in Nat /\ ROB_size' >= c
          /\ InBuffer' = IF ROB_size' > c THEN ROB_size' - c ELSE 0
      BY <1>3, <2>1, <2>2, Zenon DEF InBuffer
    <3> HIDE DEF c
    <3>2. \A m \in 0 .. 1, n \in Nat : n >= m => (IF n > m THEN n - m ELSE 0) = n - m
      OBVIOUS
    <3>3. InBuffer' = ROB_size' - c
      BY <3>1, <3>2, Zenon
    <3> QED
      BY <2>3, <3>3, Zenon DEF c
  <2> QED
    BY <2>1, <2>2, <2>3, <2>4
<1> DEFINE q == Waiting(issue_queue)
           r == Waiting(rename2_dispatch)
<1>5. q \in 0 .. 1 /\ r \in 0 .. 1 /\ q' = q /\ r' = r
  BY <1>1 DEF Waiting
<1>6. WindowLength = InBuffer + q + r /\ WindowLength' = InBuffer' + q + r
  BY <1>5 DEF WindowLength
<1>7. WindowLength' + Committed' = WindowLength /\ WindowLength \in Nat /\ WindowLength' \in Nat
  BY <1>3, <1>4, <1>5, <1>6
<1> HIDE DEF q, r
<1>8. ASSUME NEW k \in RoBSlots, k < InBuffer
      PROVE  RoB'[k].instr = InstrAt(k + 1)
  <2>1. k + Committed < ROB_size /\ k + 1 <= InBuffer /\ (k + 1) - 1 + Committed = k + Committed
    BY <1>3, <1>4, <1>8 DEF RoBSlots
  <2>2. RoBAtCommit[k].instr = RoB[k + Committed].instr
    BY <2>1, DeletedHeadMoves
  <2> QED
    BY <1>1, <2>1, <2>2 DEF InstrAt
<1>9. ASSUME NEW k \in 1 .. WindowLength' PROVE InstrAt(k)' = InstrAt(k + Committed')
  <2>1. CASE k <= InBuffer'
    <3>1. /\ k \in 1 .. InBuffer'
          /\ k - 1 + Committed' < InBuffer /\ (k - 1 + Committed') + 1 = k + Committed'
      <4>1. \A c, b, n, m : /\ c \in 0 .. 1 /\ b \in Nat /\ n \in Nat /\ m \in Nat /\ b = n - c
                            /\ k \in 1 .. m /\ k <= b
              => k \in 1 .. b /\ k - 1 + c < n /\ (k - 1 + c) + 1 = k + c
        OBVIOUS
      <4> QED
        BY <1>3, <1>4, <1>7, <2>1, <4>1, Zenon
    <3>2. k - 1 + Committed' \in RoBSlots
      BY <1>2, <3>1 DEF WindowShape
    <3> QED
      BY <1>8, <2>1, <3>1, <3>2 DEF InstrAt
  <2>2. CASE ~(k <= InBuffer')
    <3>1. /\ ~(k + Committed' <= InBuffer)
          /\ k = InBuffer' + 1 <=> k + Committed' = InBuffer + 1
      <4>1. \A c, b, n, m : /\ c \in 0 .. 1 /\ b \in Nat /\ n \in Nat /\ m \in Nat /\ b = n - c
                            /\ k \in 1 .. m /\ ~(k <= b)
              => ~(k + c <= n) /\ (k = b + 1 <=> k + c = n + 1)
        OBVIOUS
      <4> QED
        BY <1>3, <1>4, <1>7, <2>2, <4>1, Zenon
    <3> QED
      BY <1>1, <2>2, <3>1 DEF InstrAt
  <2> QED
    BY <2>1, <2>2
<1>10. /\ Stretch(Window', Window, Committed')
       /\ Committed' = 0 => Window' = Window
  <2> DEFINE c == Committed'
             m == WindowLength'
  <2>1. c \in 0 .. 1 /\ m \in Nat /\ WindowLength \in Nat /\ m + c = WindowLength
    BY <1>3, <1>7, Zenon
  <2> HIDE DEF c, m
  <2>2. c \in Nat /\ m + c <= WindowLength /\ (c = 0 => m = WindowLength)
    BY <2>1
  <2>3. Committed' \in Nat /\ WindowLength' + Committed' <= WindowLength
    BY <2>2, Zenon DEF c, m
  <2>4. \A k \in 1 .. WindowLength' : NamesOf(InstrAt(k)') = NamesOf(InstrAt(k + Committed'))
    BY <1>9
  <2>5. Committed' = 0 => WindowLength' = WindowLength
    BY <2>2, Zenon DEF c, m
  <2> QED
    BY <2>3, <2>4, <2>5, WindowMoves
<1>11. ASSUME RoBAtCommit[0].established_bit
       PROVE  /\ 1 \in DOMAIN Window /\ RoBAtCommit[0].instr \in Instrs
              /\ Window[1] = NamesOf(RoBAtCommit[0].instr)
  <2>1. ROB_size' > 0
    BY <1>1, <1>11, ROBNotEmpty DEF RoBInv, RoBContiguous, RoBSlots
  <2>2. 0 \in RoBSlots /\ 0 < InBuffer /\ 0 + 1 = 1
    BY <1>4, <2>1, SlotSets
  <2>3. RoBAtCommit[0].instr = InstrAt(1)
    BY <1>1, <1>8, <2>2
  <2>4. 1 \in 1 .. WindowLength
    BY <1>3, <1>5, <1>6, <1>7, <2>2
  <2> QED
    BY <1>2, <2>3, <2>4 DEF WindowContents, WindowShape
<1> QED
  BY <1>3, <1>7, <1>10, <1>11

(***************************************************************************)
(* Owners, with squashes.                                                  *)
(***************************************************************************)
\* The registers of an instruction go back to a free list that has none of them.
LEMMA RegistersFreed ==
  ASSUME NEW i \in Instrs, NEW list \in ListType, Distinct(list),
         Given(i) \subseteq PhysicalRegs \ Elements(list),
         i.opcode = "LOADP" => i.phyrd # i.phyrs3,
         NEW back, \/ back = FreedPhysicalRegs(i, list)
                   \/ back = SquashedPhysicalRegs(i, list) /\ i.opcode # "STOREP"
  PROVE  /\ back \in ListType /\ Distinct(back)
         /\ Elements(back) = Elements(list) \cup Given(i)
<1> DEFINE size == PHYSICAL_REG_FILE_SIZE
           afterRd == IF i.opcode \in DestinationOps THEN AddBack(list, i.phyrd, size) ELSE list
<1>1. ASSUME NEW l \in ListType, Distinct(l), NEW r \in PhysicalRegs, r \notin Elements(l)
      PROVE  /\ AddBack(l, r, size) \in ListType /\ Distinct(AddBack(l, r, size))
             /\ Elements(AddBack(l, r, size)) = Elements(l) \cup {r}
  BY <1>1, AddedBack, SizesAssumption DEF ListType, PhysicalRegs
<1>2. /\ i.opcode \in DestinationOps => i.phyrd \in PhysicalRegs /\ i.phyrd \notin Elements(list)
      /\ i.opcode \in PointerOps => i.phyrs3 \in PhysicalRegs /\ i.phyrs3 \notin Elements(list)
  BY DEF Given
<1> DEFINE rd == IF i.opcode \in DestinationOps THEN {i.phyrd} ELSE {}
           base == IF i.opcode \in PointerOps THEN {i.phyrs3} ELSE {}
<1>3. /\ afterRd \in ListType /\ Distinct(afterRd)
      /\ Elements(afterRd) = Elements(list) \cup rd
  BY <1>1, <1>2
<1>4. back = IF i.opcode \in PointerOps THEN AddBack(afterRd, i.phyrs3, size) ELSE afterRd
  BY DEF FreedPhysicalRegs, SquashedPhysicalRegs, PointerOps
<1>5. Given(i) = rd \cup base
  BY DEF Given
<1> HIDE DEF afterRd
<1>6. CASE i.opcode \in PointerOps
  <2>1. i.phyrs3 \notin rd
    <3>1. i.opcode \in DestinationOps => i.opcode = "LOADP"
      BY <1>6 DEF PointerOps, DestinationOps, LoadOps, Alu2Ops, AluLiteralOps
    <3> QED
      BY <3>1
  <2>2. i.phyrs3 \in PhysicalRegs /\ i.phyrs3 \notin Elements(afterRd)
    BY <1>2, <1>3, <1>6, <2>1
  <2> QED
    BY <1>1, <1>3, <1>4, <1>5, <1>6, <2>2
<1>7. CASE i.opcode \notin PointerOps
  BY <1>3, <1>4, <1>5, <1>7
<1> QED
  BY <1>6, <1>7

OwnInv == LatchInv /\ Distinct(freePhysicalRegList) /\ Owned(Window, FreePhysicalRegs)

\* The free registers are the elements of the free list.
LEMMA FreeIsElements == FreePhysicalRegs = Elements(freePhysicalRegList)
BY DEF FreePhysicalRegs, Elements

(***************************************************************************)
(* What decode does to the names, the lists and the table.                 *)
(***************************************************************************)
\* What an instruction carries besides its names, and register p marked as not yet written.
Rest(i) ==
  <<i.pc, i.imm, i.phyrs1_valid, i.phyrs1_value, i.phyrs2_valid, i.phyrs2_value>>
Unwritten(prf, p) == [prf EXCEPT ![p].valid = FALSE]

\* A non-empty free list hands out its head.
LEMMA HeadHandedOut ==
  ASSUME NEW r \in RenamingType, NEW base \in ProgramRegisters, NEW p \in PhysicalRegs,
         r.list # << >>, NEW s, s = HandOut(r, base, p)
  PROVE  /\ s.instr = r.instr /\ s.table = [r.table EXCEPT ![base] = p]
         /\ s.list = Tail(r.list) /\ s.stall = r.stall /\ s.prf = Unwritten(r.prf, p)
BY DEF HandOut, RenamingType, WithoutHead, Unwritten

\* The destination gets the head of the free list.
LEMMA DestinationRenamed ==
  ASSUME NEW r \in RenamingType, r.instr.opcode \in DestinationOps, r.list # << >>,
         NEW s, s = RenameDestination(r)
  PROVE  /\ NamesOf(s.instr) = [NamesOf(r.instr) EXCEPT !.phyrd = Head(r.list)]
         /\ s.table = [r.table EXCEPT ![r.instr.rd] = Head(r.list)]
         /\ s.list = Tail(r.list) /\ s.stall = r.stall
         /\ Rest(s.instr) = Rest(r.instr) /\ s.prf = Unwritten(r.prf, Head(r.list))
<1> DEFINE i == r.instr
           p == Head(r.list)
           noted == [r EXCEPT !.instr.prev_pd = r.table[i.rd]]
           given == [noted EXCEPT !.instr.phyrd = p]
<1>1. /\ i \in Instrs /\ r.table \in TableType /\ r.list \in Seq(PhysicalRegs)
      /\ i.rd \in ProgramRegisters /\ r.table[i.rd] \in Tags
  BY InstrFields DEF RenamingType, TableType
<1>2. p \in PhysicalRegs /\ HeadOfFree(r.list) = p /\ p # -1
  <2>1. p \in PhysicalRegs
    BY <1>1, HeadTailProperties, EmptySeq, LenProperties
  <2> QED
    BY <2>1, RegisterIndices DEF HeadOfFree
<1>3. s = HandOut(given, i.rd, p)
  BY <1>2 DEF RenameDestination
<1> HIDE DEF p
<1>4. noted \in RenamingType
  BY <1>1, InstrUpdates DEF RenamingType
<1>5. /\ noted.instr = [i EXCEPT !.prev_pd = r.table[i.rd]]
      /\ noted.table = r.table /\ noted.list = r.list /\ noted.stall = r.stall
      /\ noted.prf = r.prf
  BY DEF RenamingType
<1> HIDE DEF noted
<1>6. given \in RenamingType
  BY <1>2, <1>4, InstrUpdates DEF RenamingType
<1>7. /\ given.instr = [noted.instr EXCEPT !.phyrd = p]
      /\ given.table = noted.table /\ given.list = noted.list /\ given.stall = noted.stall
      /\ given.prf = noted.prf
  BY <1>4 DEF RenamingType
<1> HIDE DEF given
<1>8. /\ s.instr = given.instr /\ s.table = [given.table EXCEPT ![i.rd] = p]
      /\ s.list = Tail(given.list) /\ s.stall = given.stall
      /\ s.prf = Unwritten(given.prf, p)
  BY <1>1, <1>2, <1>3, <1>5, <1>6, <1>7, HeadHandedOut
<1>9. NamesOf(s.instr) = [NamesOf(i) EXCEPT !.phyrd = p] /\ Rest(s.instr) = Rest(i)
  <2>1. s.instr = [[i EXCEPT !.prev_pd = r.table[i.rd]] EXCEPT !.phyrd = p]
    BY <1>5, <1>7, <1>8, Zenon
  <2> HIDE DEF i
  <2> QED
    BY <1>1, <2>1 DEF NamesOf, Rest, Instrs
<1> QED
  BY <1>5, <1>7, <1>8, <1>9 DEF p

\* The base of LOADP and STOREP gets the next one.
LEMMA PointerRenamed ==
  ASSUME NEW r \in RenamingType, r.instr.opcode \in PointerOps, r.list # << >>,
         NEW s, s = RenamePointer(r)
  PROVE  /\ NamesOf(s.instr) = [NamesOf(r.instr) EXCEPT !.phyrs3 = Head(r.list)]
         /\ s.table = [r.table EXCEPT ![PointerOf(r.instr)] = Head(r.list)]
         /\ s.list = Tail(r.list) /\ s.stall = r.stall
         /\ Rest(s.instr) = Rest(r.instr) /\ s.prf = Unwritten(r.prf, Head(r.list))
<1> DEFINE i == r.instr
           p == Head(r.list)
           base == PointerOf(i)
           noted == [r EXCEPT !.instr.prev_prs = r.table[base]]
           given == [noted EXCEPT !.instr.phyrs3 = p]
<1>1. /\ i \in Instrs /\ r.table \in TableType /\ r.list \in Seq(PhysicalRegs)
      /\ base \in ProgramRegisters /\ r.table[base] \in Tags
  BY InstrFields DEF RenamingType, TableType, PointerOf
<1>2. p \in PhysicalRegs /\ HeadOfFree(r.list) = p /\ p # -1 /\ p \in Tags
  <2>1. p \in PhysicalRegs
    BY <1>1, HeadTailProperties, EmptySeq, LenProperties
  <2> QED
    BY <2>1, RegisterIndices DEF HeadOfFree, Tags
<1>3. s = HandOut(given, base, p)
  BY <1>2 DEF RenamePointer, PointerOf
<1> HIDE DEF p, base
<1>4. noted \in RenamingType
  BY <1>1, InstrUpdates DEF RenamingType
<1>5. /\ noted.instr = [i EXCEPT !.prev_prs = r.table[base]]
      /\ noted.table = r.table /\ noted.list = r.list /\ noted.stall = r.stall
      /\ noted.prf = r.prf
  BY DEF RenamingType
<1> HIDE DEF noted
<1>6. given \in RenamingType
  BY <1>2, <1>4, InstrUpdates DEF RenamingType
<1>7. /\ given.instr = [noted.instr EXCEPT !.phyrs3 = p]
      /\ given.table = noted.table /\ given.list = noted.list /\ given.stall = noted.stall
      /\ given.prf = noted.prf
  BY <1>4 DEF RenamingType
<1> HIDE DEF given
<1>8. /\ s.instr = given.instr /\ s.table = [given.table EXCEPT ![base] = p]
      /\ s.list = Tail(given.list) /\ s.stall = given.stall
      /\ s.prf = Unwritten(given.prf, p)
  BY <1>1, <1>2, <1>3, <1>5, <1>6, <1>7, HeadHandedOut
<1>9. NamesOf(s.instr) = [NamesOf(i) EXCEPT !.phyrs3 = p] /\ Rest(s.instr) = Rest(i)
  <2>1. s.instr = [[i EXCEPT !.prev_prs = r.table[base]] EXCEPT !.phyrs3 = p]
    BY <1>5, <1>7, <1>8, Zenon
  <2> HIDE DEF i
  <2> QED
    BY <1>1, <2>1 DEF NamesOf, Rest, Instrs
<1> QED
  BY <1>5, <1>7, <1>8, <1>9 DEF p, base

\* The flags get theirs, and no program register changes its name.
LEMMA FlagsRenamed ==
  ASSUME NEW r \in RenamingType, freeCCFlagsRegList \in CCListType,
         r.instr.opcode \in FlagOps => freeCCFlagsRegList # << >>,
         NEW s, s = RenameFlags(r)
  PROVE  /\ NamesOf(s.instr) = IF r.instr.opcode \in FlagOps
                               THEN [NamesOf(r.instr) EXCEPT !.flag = Head(freeCCFlagsRegList)]
                               ELSE NamesOf(r.instr)
         /\ \A x \in ProgramRegisters : s.table[x] = r.table[x]
         /\ s.list = r.list /\ s.stall = r.stall
         /\ Rest(s.instr) = Rest(r.instr) /\ s.prf = r.prf
<1>1. CASE r.instr.opcode \notin FlagOps
  BY <1>1 DEF RenameFlags
<1>2. CASE r.instr.opcode \in FlagOps
  <2> DEFINE c == Head(freeCCFlagsRegList)
             i == r.instr
  <2>1. HeadOfFree(freeCCFlagsRegList) = c /\ i \in Instrs /\ r.table \in TableType
    BY <1>2 DEF HeadOfFree, RenamingType
  <2> HIDE DEF c
  <2>2. s = [r EXCEPT !.instr.prev_cc = r.table[CC], !.instr.flag = c, !.table[CC] = c]
    BY <1>2, <2>1 DEF RenameFlags
  <2>3. /\ s.instr = [[i EXCEPT !.prev_cc = r.table[CC]] EXCEPT !.flag = c]
        /\ s.table = [r.table EXCEPT ![CC] = c] /\ s.list = r.list /\ s.stall = r.stall
        /\ s.prf = r.prf
    BY <2>2 DEF RenamingType
  <2>4. NamesOf(s.instr) = [NamesOf(i) EXCEPT !.flag = c] /\ Rest(s.instr) = Rest(i)
    <3> HIDE DEF i
    <3> QED
      BY <2>1, <2>3 DEF NamesOf, Rest, Instrs
  <2>5. \A x \in ProgramRegisters : s.table[x] = r.table[x]
    BY <2>1, <2>3, RegisterIndices DEF TableType
  <2> QED
    BY <1>2, <2>3, <2>4, <2>5 DEF c
<1> QED
  BY <1>1, <1>2

\* Instruction i is what decode makes of the one in its latch.
Enters(i) ==
  /\ i.opcode = decode_rename1.instr.opcode
  /\ i.opcode \in Source1Ops => i.phyrs1 = renameTable[i.rs1]
  /\ i.opcode \in Source2Ops => i.phyrs2 = renameTable[i.rs2]
  /\ Given(i) \subseteq Elements(freePhysicalRegList)
  /\ i.opcode = "LOADP" => i.phyrd # i.phyrs3
  /\ i.opcode \in FlagOps => freeCCFlagsRegList # << >> /\ i.flag = Head(freeCCFlagsRegList)
  /\ Distinct(freePhysicalRegList')
  /\ Elements(freePhysicalRegList') = Elements(freePhysicalRegList) \ Given(i)
  /\ freeCCFlagsRegList' = IF i.opcode \in FlagOps THEN Tail(freeCCFlagsRegList)
                           ELSE freeCCFlagsRegList
  /\ \A x \in ProgramRegisters :
       renameTable'[x] = IF Writes(i, x) THEN RegisterFor(i, x) ELSE renameTable[x]
  /\ decode_rename1'.has_insn = rename2_dispatch.stall /\ decode_rename1'.instr = i
  /\ rename2_dispatch.stall => rename2_dispatch' = rename2_dispatch
  /\ ~rename2_dispatch.stall => rename2_dispatch'.has_insn /\ rename2_dispatch'.instr = i
  /\ ~rename2_dispatch.stall /\ i.opcode = "DIV" => rename2_dispatch'.stall = decode_rename1.stall

\* What it takes off the free list, in which order, what it carries and what it marks as
\* not yet written.
LeftByDestination(i) ==
  IF i.opcode \in DestinationOps THEN Tail(freePhysicalRegList) ELSE freePhysicalRegList
Arrives(i) ==
  /\ i.rd = decode_rename1.instr.rd
  /\ i.rs1 = decode_rename1.instr.rs1 /\ i.rs2 = decode_rename1.instr.rs2
  /\ Rest(i) = Rest(PickUp(LookedUp(decode_rename1.instr), bus))
  /\ i.opcode \in DestinationOps =>
       freePhysicalRegList # << >> /\ i.phyrd = Head(freePhysicalRegList)
  /\ i.opcode \in PointerOps =>
       LeftByDestination(i) # << >> /\ i.phyrs3 = Head(LeftByDestination(i))
  /\ freePhysicalRegList' = IF i.opcode \in PointerOps THEN Tail(LeftByDestination(i))
                            ELSE LeftByDestination(i)
  /\ \A p \in PhysicalRegs :
       /\ physicalRegFile'[p].data = physicalRegFile[p].data
       /\ physicalRegFile'[p].valid <=> physicalRegFile[p].valid /\ p \notin Given(i)
  /\ \A c \in CCRegs :
       /\ ccRegFile'[c].flag = ccRegFile[c].flag
       /\ ccRegFile'[c].valid <=> ccRegFile[c].valid /\ ~(i.opcode \in FlagOps /\ c = i.flag)

\* Looking up the sources changes two fields.
LEMMA LookedUpNames ==
  ASSUME NEW i \in Instrs, renameTable \in TableType, bus \in BusType,
         NEW j, j = PickUp(LookedUp(i), bus)
  PROVE  /\ j \in Instrs /\ j.opcode = i.opcode
         /\ j.rd = i.rd /\ j.rs1 = i.rs1 /\ j.rs2 = i.rs2
         /\ j.opcode \in Source1Ops => j.phyrs1 = renameTable[j.rs1]
         /\ j.opcode \in Source2Ops => j.phyrs2 = renameTable[j.rs2]
<1>1. LookedUp(i) \in Instrs /\ LookedUp(i).opcode = i.opcode
  BY LookedUpType
<1>2. j \in Instrs
  BY <1>1, PickUpType
<1>3. ASSUME NEW k \in Instrs
      PROVE  LET l == PickUp(k, bus)
             IN  /\ l.opcode = k.opcode /\ l.rd = k.rd /\ l.rs1 = k.rs1 /\ l.rs2 = k.rs2
                 /\ l.phyrs1 = k.phyrs1 /\ l.phyrs2 = k.phyrs2
  <2>1. \A m \in Instrs : /\ PickUp1(m, bus) \in Instrs
                          /\ PickUp1(m, bus).opcode = m.opcode /\ PickUp1(m, bus).rd = m.rd
                          /\ PickUp1(m, bus).rs1 = m.rs1
                          /\ PickUp1(m, bus).rs2 = m.rs2 /\ PickUp1(m, bus).phyrs1 = m.phyrs1
                          /\ PickUp1(m, bus).phyrs2 = m.phyrs2
    <3> SUFFICES ASSUME NEW m \in Instrs
                 PROVE  /\ PickUp1(m, bus) \in Instrs
                        /\ PickUp1(m, bus).opcode = m.opcode /\ PickUp1(m, bus).rd = m.rd
                        /\ PickUp1(m, bus).rs1 = m.rs1
                        /\ PickUp1(m, bus).rs2 = m.rs2 /\ PickUp1(m, bus).phyrs1 = m.phyrs1
                        /\ PickUp1(m, bus).phyrs2 = m.phyrs2
      OBVIOUS
    <3>1. PickUp1(m, bus) \in Instrs
      BY MatchingBusType, Source1Type DEF PickUp1
    <3> QED
      BY <3>1, MatchingBusType DEF PickUp1, Instrs
  <2>2. \A m \in Instrs : /\ PickUp2(m, bus).opcode = m.opcode /\ PickUp2(m, bus).rd = m.rd
                          /\ PickUp2(m, bus).rs1 = m.rs1
                          /\ PickUp2(m, bus).rs2 = m.rs2 /\ PickUp2(m, bus).phyrs1 = m.phyrs1
                          /\ PickUp2(m, bus).phyrs2 = m.phyrs2
    BY MatchingBusType DEF PickUp2, Instrs
  <2> QED
    BY <2>1, <2>2 DEF PickUp
<1>4. LET l == LookedUp(i)
      IN  /\ l.rd = i.rd /\ l.rs1 = i.rs1 /\ l.rs2 = i.rs2
          /\ l.opcode \in Source1Ops => l.phyrs1 = renameTable[i.rs1]
          /\ l.opcode \in Source2Ops => l.phyrs2 = renameTable[i.rs2]
  BY DEF LookedUp, Instrs
<1> QED
  BY <1>1, <1>2, <1>3, <1>4

\* Decode renames the instruction in its latch.
LEMMA DecodeRenames ==
  ASSUME TypeInv, DecodeStage, decode_rename1.has_insn, FindsRegisters,
         Distinct(freePhysicalRegList)
  PROVE  \E i \in Instrs : Enters(i) /\ Arrives(i)
<1>1. /\ decode_rename1 \in StallLatches /\ rename2_dispatch \in StallLatches
      /\ bus \in BusType /\ physicalRegFile \in PRFType /\ ccRegFile \in CCFileType
      /\ freePhysicalRegList \in Seq(PhysicalRegs) /\ freeCCFlagsRegList \in CCListType
      /\ renameTable \in TableType
  BY DEF TypeInv, FrontTypes, FileTypes, ForwardingTypes, RenameTypes, ListType
<1> DEFINE j == PickUp(LookedUp(decode_rename1.instr), bus)
           stall == decode_rename1.stall \/ StallsBehind(j)
           r0 == Renaming(j, renameTable, freePhysicalRegList, physicalRegFile, stall)
           r1 == RenameDestination(r0)
           r2 == RenamePointer(r1)
           r == RenameFlags(r2)
           i == r.instr
           op == decode_rename1.instr.opcode
<1>2. /\ renameTable' = r.table /\ freePhysicalRegList' = r.list /\ physicalRegFile' = r.prf
      /\ ccRegFile' = IF j.opcode \in FlagOps THEN [ccRegFile EXCEPT ![i.flag].valid = FALSE]
                      ELSE ccRegFile
      /\ freeCCFlagsRegList' = IF j.opcode \in FlagOps THEN WithoutHead(freeCCFlagsRegList)
                               ELSE freeCCFlagsRegList
      /\ decode_rename1' = [has_insn |-> ~(~rename2_dispatch.stall), stall |-> r.stall,
                            instr |-> i]
      /\ rename2_dispatch' = IF ~rename2_dispatch.stall
                             THEN [has_insn |-> TRUE, stall |-> r.stall, instr |-> i]
                             ELSE rename2_dispatch
  BY DEF DecodeStage, DecodeInstruction
<1>3. /\ j \in Instrs /\ j.opcode = op
      /\ j.rd = decode_rename1.instr.rd
      /\ j.rs1 = decode_rename1.instr.rs1 /\ j.rs2 = decode_rename1.instr.rs2
      /\ op \in Source1Ops => j.phyrs1 = renameTable[j.rs1]
      /\ op \in Source2Ops => j.phyrs2 = renameTable[j.rs2]
  BY <1>1, LookedUpNames DEF StallLatches
<1>4. stall \in BOOLEAN /\ (op = "DIV" => stall = decode_rename1.stall)
  BY <1>1, <1>3 DEF StallLatches, StallsBehind, JumpOps, ConditionalBranches
<1>5. op \in FlagOps => freeCCFlagsRegList # << >>
  BY DEF DecodeStage, NoFreeCC
<1>6. Len(freePhysicalRegList) >= RegistersNeeded(op)
  BY DEF FindsRegisters, DecodeStage
<1> HIDE DEF j, stall
<1>7. /\ r0 \in RenamingType /\ r0.instr = j /\ r0.table = renameTable
      /\ r0.list = freePhysicalRegList /\ r0.stall = stall /\ r0.prf = physicalRegFile
  BY <1>1, <1>3, <1>4 DEF Renaming, RenamingType
<1> HIDE DEF r0
<1> DEFINE dest == op \in DestinationOps
           pointer == op \in PointerOps
           h == Head(freePhysicalRegList)
           l1 == IF dest THEN Tail(freePhysicalRegList) ELSE freePhysicalRegList
           m1 == IF dest THEN Unwritten(physicalRegFile, h) ELSE physicalRegFile
<1>8. /\ dest => freePhysicalRegList # << >>
      /\ pointer => l1 # << >>
  <2>1. Len(freePhysicalRegList) \in Nat
    BY <1>1, LenProperties
  <2>2. dest => Len(freePhysicalRegList) >= 1
    BY <1>6, <2>1 DEF RegistersNeeded
  <2>3. dest => freePhysicalRegList # << >>
    <3>1. freePhysicalRegList = << >> => Len(freePhysicalRegList) = 0
      OBVIOUS
    <3> QED
      BY <2>1, <2>2, <3>1
  <2>4. dest => Len(Tail(freePhysicalRegList)) = Len(freePhysicalRegList) - 1
    BY <1>1, <2>3, HeadTaken
  <2>5. pointer => Len(l1) >= 1
    BY <1>6, <2>1, <2>4 DEF RegistersNeeded
  <2>6. pointer => l1 # << >>
    <3> HIDE DEF l1
    <3>1. l1 = << >> => ~(Len(l1) >= 1)
      OBVIOUS
    <3> QED
      BY <2>5, <3>1, Zenon
  <2> QED
    BY <2>3, <2>6
<1>9. /\ r1 \in RenamingType /\ r1.instr.opcode = op
      /\ NamesOf(r1.instr) = IF dest THEN [NamesOf(j) EXCEPT !.phyrd = h] ELSE NamesOf(j)
      /\ r1.table = IF dest THEN [renameTable EXCEPT ![j.rd] = h] ELSE renameTable
      /\ r1.list = l1 /\ r1.stall = stall /\ Rest(r1.instr) = Rest(j) /\ r1.prf = m1
  <2>1. r1 \in RenamingType /\ r1.instr.opcode = op
    BY <1>3, <1>7, RenameDestinationType, OpcodeKept
  <2>2. CASE dest
    BY <1>3, <1>7, <1>8, <2>1, <2>2, DestinationRenamed
  <2>3. CASE ~dest
    BY <1>3, <1>7, <2>1, <2>3 DEF RenameDestination
  <2> QED
    BY <2>2, <2>3
<1> HIDE DEF r1
<1> DEFINE g == Head(l1)
           l2 == IF pointer THEN Tail(l1) ELSE l1
           m2 == IF pointer THEN Unwritten(m1, g) ELSE m1
           base == PointerOf(j)
<1>10. /\ r2 \in RenamingType /\ r2.instr.opcode = op
       /\ NamesOf(r2.instr) = IF pointer THEN [NamesOf(r1.instr) EXCEPT !.phyrs3 = g]
                              ELSE NamesOf(r1.instr)
       /\ r2.table = IF pointer THEN [r1.table EXCEPT ![base] = g] ELSE r1.table
       /\ r2.list = l2 /\ r2.stall = stall /\ Rest(r2.instr) = Rest(j) /\ r2.prf = m2
  <2>1. r2 \in RenamingType /\ r2.instr.opcode = op
    BY <1>9, RenamePointerType, OpcodeKept
  <2>2. PointerOf(r1.instr) = base
    <3>1. NamesOf(r1.instr).rs1 = NamesOf(j).rs1 /\ NamesOf(r1.instr).rs2 = NamesOf(j).rs2
      BY <1>9 DEF NamesOf
    <3> QED
      BY <1>3, <1>9, <3>1 DEF NamesOf, PointerOf
  <2>3. CASE pointer
    <3> HIDE DEF l1, base, m1
    <3>1. /\ r1 \in RenamingType /\ r1.instr.opcode \in PointerOps /\ r1.list # << >>
          /\ r2 = RenamePointer(r1)
      BY <1>8, <1>9, <2>3
    <3> HIDE DEF r2
    <3>2. /\ NamesOf(r2.instr) = [NamesOf(r1.instr) EXCEPT !.phyrs3 = Head(r1.list)]
          /\ r2.table = [r1.table EXCEPT ![PointerOf(r1.instr)] = Head(r1.list)]
          /\ r2.list = Tail(r1.list) /\ r2.stall = r1.stall
          /\ Rest(r2.instr) = Rest(r1.instr) /\ r2.prf = Unwritten(r1.prf, Head(r1.list))
      BY <3>1, PointerRenamed
    <3> QED
      BY <1>9, <2>1, <2>2, <2>3, <3>2
  <2>4. CASE ~pointer
    BY <1>9, <2>1, <2>4 DEF RenamePointer
  <2> HIDE DEF l1, base, m1
  <2> QED
    BY <2>3, <2>4, Zenon
<1> HIDE DEF r2
<1> DEFINE c == Head(freeCCFlagsRegList)
<1>11. /\ NamesOf(i) = IF op \in FlagOps THEN [NamesOf(r2.instr) EXCEPT !.flag = c]
                       ELSE NamesOf(r2.instr)
       /\ \A x \in ProgramRegisters : r.table[x] = r2.table[x]
       /\ r.list = l2 /\ r.stall = stall /\ i \in Instrs /\ i.opcode = op
       /\ Rest(i) = Rest(j) /\ r.prf = m2
  <2>1. r \in RenamingType /\ i.opcode = op
    BY <1>1, <1>5, <1>10, RenameFlagsType DEF CCListType
  <2>2. i \in Instrs
    BY <2>1 DEF RenamingType
  <2> QED
    BY <1>1, <1>5, <1>10, <2>1, <2>2, FlagsRenamed
<1> HIDE DEF r
<1>12. /\ i.rd = j.rd /\ i.rs1 = j.rs1 /\ i.rs2 = j.rs2
       /\ i.phyrs1 = j.phyrs1 /\ i.phyrs2 = j.phyrs2
       /\ dest => i.phyrd = h
       /\ pointer => i.phyrs3 = g
       /\ op \in FlagOps => i.flag = c
  <2> DEFINE f == NamesOf(j)
             f1 == IF dest THEN [f EXCEPT !.phyrd = h] ELSE f
             f2 == IF pointer THEN [f1 EXCEPT !.phyrs3 = g] ELSE f1
             f3 == IF op \in FlagOps THEN [f2 EXCEPT !.flag = c] ELSE f2
  <2>1. NamesOf(i) = f3
    BY <1>9, <1>10, <1>11, Zenon
  <2> HIDE DEF h, g, c
  <2>2. /\ f3.rd = f.rd /\ f3.rs1 = f.rs1 /\ f3.rs2 = f.rs2
        /\ f3.phyrs1 = f.phyrs1 /\ f3.phyrs2 = f.phyrs2
        /\ dest => f3.phyrd = h
        /\ pointer => f3.phyrs3 = g
        /\ op \in FlagOps => f3.flag = c
    BY DEF NamesOf
  <2>3. /\ f.rd = j.rd /\ f.rs1 = j.rs1 /\ f.rs2 = j.rs2
        /\ f.phyrs1 = j.phyrs1 /\ f.phyrs2 = j.phyrs2
    BY DEF NamesOf
  <2> HIDE DEF f3, f
  <2>4. /\ f3.rd = i.rd /\ f3.rs1 = i.rs1 /\ f3.rs2 = i.rs2
        /\ f3.phyrs1 = i.phyrs1 /\ f3.phyrs2 = i.phyrs2
        /\ f3.phyrd = i.phyrd /\ f3.phyrs3 = i.phyrs3 /\ f3.flag = i.flag
    BY <2>1 DEF NamesOf
  <2> QED
    BY <2>2, <2>3, <2>4, Zenon
<1>13. PointerOf(i) = base
  BY <1>3, <1>11, <1>12 DEF PointerOf
<1>22. LeftByDestination(i) = l1
  BY <1>11 DEF LeftByDestination
<1>23. \A p \in PhysicalRegs : /\ m2[p].data = physicalRegFile[p].data
                               /\ m2[p].valid <=> physicalRegFile[p].valid /\ p \notin Given(i)
  <2> HIDE DEF h, g
  <2>1. m1 \in [PhysicalRegs -> [valid : BOOLEAN, data : Int]]
    BY <1>1 DEF PRFType, Unwritten
  <2>2. \A p \in PhysicalRegs :
          /\ m1[p].data = physicalRegFile[p].data
          /\ m1[p].valid <=> physicalRegFile[p].valid /\ ~(dest /\ p = h)
    BY <1>1 DEF PRFType, Unwritten
  <2> HIDE DEF m1
  <2>3. \A p \in PhysicalRegs :
          /\ m2[p].data = m1[p].data
          /\ m2[p].valid <=> m1[p].valid /\ ~(pointer /\ p = g)
    BY <2>1 DEF Unwritten
  <2>4. \A p : p \in Given(i) <=> (dest /\ p = h) \/ (pointer /\ p = g)
    BY <1>11, <1>12 DEF Given
  <2> HIDE DEF m2
  <2> QED
    BY <2>2, <2>3, <2>4
<1> HIDE DEF m1, m2
<1>14. /\ l1 \in Seq(PhysicalRegs) /\ Distinct(l1)
       /\ Elements(l1) = Elements(freePhysicalRegList) \ (IF dest THEN {h} ELSE {})
       /\ dest => h \in Elements(freePhysicalRegList)
  BY <1>1, <1>8, HeadTaken
<1> HIDE DEF l1
<1>15. /\ Distinct(l2)
       /\ Elements(l2) = Elements(l1) \ (IF pointer THEN {g} ELSE {})
       /\ pointer => g \in Elements(l1)
  BY <1>8, <1>14, HeadTaken
<1> HIDE DEF l2
<1>16. Given(i) = (IF dest THEN {h} ELSE {}) \cup (IF pointer THEN {g} ELSE {})
  BY <1>11, <1>12 DEF Given
<1>17. op = "LOADP" => dest /\ pointer
  BY DEF DestinationOps, LoadOps, PointerOps
<1>18. \A x \in ProgramRegisters :
         renameTable'[x] = IF Writes(i, x) THEN RegisterFor(i, x) ELSE renameTable[x]
  <2> SUFFICES ASSUME NEW x \in ProgramRegisters
               PROVE  renameTable'[x]
                        = IF Writes(i, x) THEN RegisterFor(i, x) ELSE renameTable[x]
    OBVIOUS
  <2>1. x \in DOMAIN renameTable /\ x \in DOMAIN r1.table
    BY <1>1, <1>9, RegisterIndices DEF TableType, RenamingType
  <2>2. renameTable'[x] = IF pointer /\ base = x THEN g ELSE r1.table[x]
    BY <1>2, <1>10, <1>11, <2>1
  <2>3. r1.table[x] = IF dest /\ j.rd = x THEN h ELSE renameTable[x]
    BY <1>9, <2>1
  <2> HIDE DEF base, h, g
  <2> QED
    BY <1>11, <1>12, <1>13, <2>2, <2>3 DEF Writes, Advances, RegisterFor
<1> HIDE DEF h, g, base
<1>19. /\ Given(i) \subseteq Elements(freePhysicalRegList)
       /\ i.opcode = "LOADP" => i.phyrd # i.phyrs3
       /\ Distinct(freePhysicalRegList')
       /\ Elements(freePhysicalRegList') = Elements(freePhysicalRegList) \ Given(i)
  BY <1>2, <1>11, <1>12, <1>14, <1>15, <1>16, <1>17
<1>20. /\ i.opcode \in FlagOps => freeCCFlagsRegList # << >> /\ i.flag = c
       /\ freeCCFlagsRegList' = IF i.opcode \in FlagOps THEN Tail(freeCCFlagsRegList)
                                ELSE freeCCFlagsRegList
  BY <1>2, <1>3, <1>5, <1>11, <1>12 DEF WithoutHead
<1>21. /\ decode_rename1'.has_insn = rename2_dispatch.stall /\ decode_rename1'.instr = i
       /\ rename2_dispatch.stall => rename2_dispatch' = rename2_dispatch
       /\ ~rename2_dispatch.stall => rename2_dispatch'.has_insn /\ rename2_dispatch'.instr = i
       /\ ~rename2_dispatch.stall /\ i.opcode = "DIV"
            => rename2_dispatch'.stall = decode_rename1.stall
  BY <1>1, <1>2, <1>4, <1>11 DEF StallLatches
<1>24. Enters(i)
  BY <1>3, <1>11, <1>12, <1>18, <1>19, <1>20, <1>21 DEF Enters
<1>25. \A x \in CCRegs :
         /\ ccRegFile'[x].flag = ccRegFile[x].flag
         /\ ccRegFile'[x].valid <=> ccRegFile[x].valid /\ ~(i.opcode \in FlagOps /\ x = i.flag)
  BY <1>1, <1>2, <1>3, <1>11 DEF CCFileType
<1>26. Arrives(i)
  <2>1. /\ i.opcode \in DestinationOps =>
             freePhysicalRegList # << >> /\ i.phyrd = Head(freePhysicalRegList)
        /\ i.opcode \in PointerOps =>
             LeftByDestination(i) # << >> /\ i.phyrs3 = Head(LeftByDestination(i))
    BY <1>8, <1>11, <1>12, <1>22 DEF h, g
  <2>2. freePhysicalRegList' = IF i.opcode \in PointerOps THEN Tail(LeftByDestination(i))
                              ELSE LeftByDestination(i)
    BY <1>2, <1>11, <1>22 DEF l2
  <2>3. physicalRegFile' = m2
    BY <1>2, <1>11
  <2>4. Rest(i) = Rest(PickUp(LookedUp(decode_rename1.instr), bus))
    BY <1>11 DEF j
  <2>5. \A p \in PhysicalRegs :
          /\ physicalRegFile'[p].data = physicalRegFile[p].data
          /\ physicalRegFile'[p].valid <=> physicalRegFile[p].valid /\ p \notin Given(i)
    BY <1>23, <2>3
  <2>6. /\ i.rd = decode_rename1.instr.rd
        /\ i.rs1 = decode_rename1.instr.rs1 /\ i.rs2 = decode_rename1.instr.rs2
    BY <1>3, <1>12
  <2> HIDE DEF i
  <2> QED
    BY <1>25, <2>1, <2>2, <2>4, <2>5, <2>6 DEF Arrives
<1> QED
  BY <1>11, <1>24, <1>26

\* What decode has renamed joins the window, unless the latch behind it is stalled.
LEMMA WindowAtDecode ==
  ASSUME TypeInv, RoBInv, TypeInv', RoBInv', LatchInv, DecodeStage,
         NEW i \in Instrs, Enters(i)
  PROVE  IF rename2_dispatch.stall THEN Window' = Window
         ELSE Window' = Append(Window, NamesOf(i)) /\ Len(Window') = Len(Window) + 1
<1>1. /\ UNCHANGED <<robVars, issue_queue>> /\ ~rename2_dispatch.has_insn
      /\ Committed' = Committed /\ InBuffer' = InBuffer
      /\ Waiting(issue_queue)' = Waiting(issue_queue)
  BY DEF DecodeStage, LatchInv, robVars, Committed, InBuffer, Waiting
<1>2. CASE rename2_dispatch.stall
  BY <1>1, <1>2, WindowStays DEF Enters, windowVars
<1>3. CASE ~rename2_dispatch.stall
  <2>1. WindowShape /\ WindowContents /\ WindowShape' /\ WindowContents'
    BY WindowTypes, WindowIs, WindowNext
  <2>2. rename2_dispatch'.has_insn /\ rename2_dispatch'.instr = i
    BY <1>3 DEF Enters
  <2>3. PICK n \in Nat : n = WindowLength
    BY <2>1 DEF WindowShape
  <2>4. /\ InBuffer \in Nat /\ Waiting(issue_queue) \in 0 .. 1
        /\ n = InBuffer + Waiting(issue_queue)
    BY <1>1, <2>1, <2>3 DEF WindowShape, WindowLength, Waiting
  <2>5. WindowLength' = n + 1
    <3>1. WindowLength' = InBuffer' + Waiting(issue_queue)' + 1
      BY <2>2 DEF WindowLength, Waiting
    <3> QED
      BY <1>1, <2>4, <3>1, Zenon
  <2>6. ASSUME NEW k \in 1 .. n PROVE InstrAt(k)' = InstrAt(k)
    <3>1. CASE k <= InBuffer
      BY <1>1, <3>1, Zenon DEF InstrAt, robVars
    <3>2. CASE ~(k <= InBuffer)
      <4>1. k = InBuffer + 1 /\ issue_queue.has_insn
        BY <2>3, <2>4, <3>2 DEF Waiting
      <4> QED
        BY <1>1, <3>2, <4>1, Zenon DEF InstrAt
    <3> QED
      BY <3>1, <3>2
  <2>7. InstrAt(n + 1)' = i
    <3>1. ~(n + 1 <= InBuffer) /\ ~(n + 1 = InBuffer + 1 /\ issue_queue.has_insn)
      BY <2>3, <2>4 DEF Waiting
    <3>2. /\ ~(n + 1 <= InBuffer') /\ issue_queue' = issue_queue
          /\ ~(n + 1 = InBuffer' + 1 /\ issue_queue'.has_insn)
      BY <1>1, <3>1, Zenon
    <3> QED
      BY <2>2, <3>2, Zenon DEF InstrAt
  <2>8. NamesOf(i) \in NameRecords
    BY NamesOfType
  <2>9. /\ Window \in Seq(NameRecords) /\ Len(Window) = n
        /\ Window' \in Seq(NameRecords) /\ Len(Window') = n + 1
        /\ \A k \in 1 .. n : Window[k] = NamesOf(InstrAt(k))
        /\ \A k \in 1 .. n + 1 : Window'[k] = NamesOf(InstrAt(k)')
    BY <2>1, <2>3, <2>5, Zenon DEF WindowContents, NamesOf
  <2> DEFINE v == Append(Window, NamesOf(i))
  <2>10. /\ v \in Seq(NameRecords) /\ Len(v) = n + 1 /\ v[n + 1] = NamesOf(i)
        /\ \A k \in 1 .. n : v[k] = Window[k]
    BY <2>8, <2>9, AppendProperties
  <2> HIDE DEF v
  <2>11. \A k \in 1 .. n + 1 : Window'[k] = v[k]
    <3>1. \A k \in 1 .. n + 1 : k \in 1 .. n \/ k = n + 1
      BY <2>3
    <3>2. \A k \in 1 .. n : Window'[k] = v[k]
      <4>1. \A k \in 1 .. n : k \in 1 .. n + 1
        BY <2>3
      <4> QED
        BY <2>6, <2>9, <2>10, <4>1, Zenon
    <3>3. n + 1 \in 1 .. n + 1
      BY <2>3
    <3>4. Window'[n + 1] = v[n + 1]
      BY <2>7, <2>9, <2>10, <3>3, Zenon
    <3> QED
      BY <3>1, <3>2, <3>4, Zenon
  <2>12. Window' = v
    BY <2>9, <2>10, <2>11, SeqEqual
  <2> QED
    BY <1>3, <2>9, <2>12 DEF v
<1> QED
  BY <1>2, <1>3

\* The window's last instruction leaves, and its registers may go back.
LEMMA OwnedLosingLast ==
  ASSUME TypeInv, RoBInv, TypeInv', RoBInv', LosesLast, NEW free, Owned(Window, free)
  PROVE  /\ Owned(Window', free)
         /\ Owned(Window', free \cup Given(Window[WindowLength]))
         /\ Given(Window[WindowLength]) \subseteq PhysicalRegs \ free
         /\ Window[WindowLength].opcode = "LOADP" =>
              Window[WindowLength].phyrd # Window[WindowLength].phyrs3
<1>1. DOMAIN Window = 1 .. WindowLength /\ DOMAIN Window' = 1 .. WindowLength'
  BY WindowIs, WindowNext DEF WindowContents
<1>2. /\ WindowLength \in DOMAIN Window
      /\ \A k \in DOMAIN Window' : k + 0 # WindowLength
  BY <1>1 DEF LosesLast
<1>3. Stretch(Window', Window, 0)
  BY DEF LosesLast
<1>4. Owned(Window', free)
  BY <1>3, OwnedStretch
<1>5. Owned(Window', free \cup Given(Window[WindowLength]))
  BY <1>2, <1>3, OwnedWithout
<1>6. /\ Given(Window[WindowLength]) \subseteq PhysicalRegs \ free
      /\ Window[WindowLength].opcode = "LOADP" =>
           Window[WindowLength].phyrd # Window[WindowLength].phyrs3
  BY <1>2, Zenon DEF Owned
<1> QED
  BY <1>4, <1>5, <1>6

\* Every step leaves each register with one owner at most: on the free list once, or in
\* the window.
LEMMA OwnInvStep ==
  ASSUME TypeInv, RoBInv, TypeInv', RoBInv', OwnInv, FindsRegisters, SquashesItsOwn, [Next]_vars
  PROVE  OwnInv'
<1> DEFINE list == freePhysicalRegList
           F == Elements(freePhysicalRegList)
<1>1. LatchInv /\ Distinct(list) /\ Owned(Window, F) /\ LatchInv' /\ list \in ListType
  BY LatchInvStep, FreeIsElements DEF OwnInv, TypeInv, RenameTypes
<1> SUFFICES Distinct(list') /\ Owned(Window', Elements(list'))
  BY <1>1, FreeIsElements DEF OwnInv, FreePhysicalRegs, Elements
<1>2. CASE UNCHANGED <<windowVars, freePhysicalRegList>>
  BY <1>1, <1>2, WindowStays
<1>3. CASE CommitStage
  <2> DEFINE i == RoBAtCommit[0].instr
             matches == i.pc = LSQAtCommit[0].pc
  <2>1. /\ Committed' \in 0 .. 1 /\ WindowLength' + Committed' = WindowLength
        /\ Stretch(Window', Window, Committed') /\ (Committed' = 0 => Window' = Window)
        /\ RoBAtCommit[0].established_bit => /\ 1 \in DOMAIN Window /\ i \in Instrs
                                              /\ Window[1] = NamesOf(i)
    BY <1>1, <1>3, WindowAtCommit
  <2>2. CASE RoBAtCommit[0].established_bit /\ CanCommit(i, matches) /\ i.opcode # "HALT"
    <3>1. delete_ROB_head' /\ list' = FreedPhysicalRegs(i, list)
      BY <1>3, <2>2 DEF CommitStage, CommitHead
    <3>2. Committed' = 1
      BY <3>1 DEF Committed
    <3>3. Given(Window[1]) = Given(i) /\ Window[1].opcode = i.opcode
          /\ Window[1].phyrd = i.phyrd /\ Window[1].phyrs3 = i.phyrs3
      BY <2>1, <2>2, Holding DEF NamesOf
    <3>4. Owned(Window', F \cup Given(i))
      <4>1. DOMAIN Window' = 1 .. WindowLength' /\ WindowLength' \in Nat
        BY WindowNext DEF WindowContents, WindowShape
      <4>2. \A k \in DOMAIN Window' : k + 1 # 1
        BY <4>1
      <4> QED
        BY <1>1, <2>1, <2>2, <3>2, <3>3, <4>2, OwnedWithout
    <3>5. /\ Given(i) \subseteq PhysicalRegs \ F
          /\ i.opcode = "LOADP" => i.phyrd # i.phyrs3
      BY <1>1, <2>1, <2>2, <3>3 DEF Owned
    <3>6. Distinct(list') /\ Elements(list') = F \cup Given(i)
      BY <1>1, <2>1, <2>2, <3>1, <3>5, RegistersFreed
    <3> QED
      BY <3>4, <3>6
  <2>3. CASE ~(RoBAtCommit[0].established_bit /\ CanCommit(i, matches) /\ i.opcode # "HALT")
    <3>1. ~delete_ROB_head' /\ list' \in {list, FreedPhysicalRegs(i, list)}
          /\ (list' # list => i.opcode = "HALT")
      BY <1>3, <2>3 DEF CommitStage, CommitHead, freeVars
    <3>2. list' = list
      BY <3>1 DEF FreedPhysicalRegs, DestinationOps, PointerOps, Alu2Ops, AluLiteralOps, LoadOps
    <3>3. Window' = Window
      BY <2>1, <3>1 DEF Committed
    <3> QED
      BY <1>1, <3>2, <3>3
  <2> QED
    BY <2>2, <2>3
<1>4. CASE IssueStage
  <2>1. Window' = Window /\ list' = list
    BY <1>1, <1>4, WindowAtIssue DEF IssueStage, freeVars
  <2> QED
    BY <1>1, <2>1
<1>5. CASE DispatchStage
  <2>1. list' = list
    BY <1>5 DEF DispatchStage, freeVars
  <2>2. Window' = Window \/ LosesLast
    BY <1>1, <1>5, WindowAtDispatch
  <2> QED
    BY <1>1, <2>1, <2>2, OwnedLosingLast
<1>6. CASE DecodeStage
  <2>1. CASE ~decode_rename1.has_insn
    BY <1>2, <1>6, <2>1 DEF DecodeStage, windowVars, freeVars, robVars
  <2>2. CASE decode_rename1.has_insn
    <3>1. PICK i \in Instrs : Enters(i)
      BY <1>1, <1>6, <2>2, DecodeRenames
    <3>2. /\ Distinct(list') /\ Elements(list') = F \ Given(i) /\ Given(i) \subseteq F
          /\ i.opcode = "LOADP" => i.phyrd # i.phyrs3
      BY <3>1 DEF Enters
    <3>3. CASE rename2_dispatch.stall
      <4>1. Window' = Window
        BY <1>1, <1>6, <3>1, <3>3, WindowAtDecode
      <4> QED
        BY <1>1, <3>2, <4>1 DEF Owned
    <3>4. CASE ~rename2_dispatch.stall
      <4> DEFINE n == NamesOf(i)
      <4>1. Window' = Append(Window, n)
        BY <1>1, <1>6, <3>1, <3>4, WindowAtDecode
      <4>2. /\ Window \in Seq(NameRecords) /\ n \in NameRecords
            /\ Given(n) = Given(i) /\ n.opcode = i.opcode
            /\ n.phyrd = i.phyrd /\ n.phyrs3 = i.phyrs3
        BY WindowIs, NamesOfType, Holding DEF WindowContents, NamesOf
      <4>3. F \subseteq PhysicalRegs
        BY <1>1, ElementOfSeq, LenProperties DEF Elements, ListType
      <4> HIDE DEF n
      <4>4. Given(n) \subseteq F /\ Given(n) \subseteq PhysicalRegs
        BY <3>2, <4>2, <4>3
      <4>5. n.opcode = "LOADP" => n.phyrd # n.phyrs3
        BY <3>2, <4>2
      <4>6. Owned(Append(Window, n), F \ Given(n))
        BY <1>1, <4>2, <4>4, <4>5, OwnedAppend
      <4> QED
        BY <3>2, <4>1, <4>2, <4>6
    <3> QED
      BY <3>3, <3>4
  <2> QED
    BY <2>1, <2>2
<1>7. CASE FetchStage
  <2>1. list' = list /\ Stretch(Window', Window, 0)
    BY <1>7, WindowAtFetch DEF FetchStage, freeVars
  <2> QED
    BY <1>1, <2>1, OwnedStretch
<1>8. CASE SquashTail
  <2> DEFINE i == RoB[ROB_tail].instr
             last == Window[WindowLength]
  <2>1. LosesLast /\ i \in Instrs /\ last = NamesOf(i)
    BY <1>1, <1>8, WindowAtSquash
  <2>2. list' = SquashedPhysicalRegs(i, list) /\ i.opcode # "STOREP"
    BY <1>8 DEF SquashTail, SquashesItsOwn
  <2>3. /\ Given(last) = Given(i) /\ last.opcode = i.opcode
        /\ last.phyrd = i.phyrd /\ last.phyrs3 = i.phyrs3
    BY <2>1, Holding DEF NamesOf
  <2>4. /\ Owned(Window', F \cup Given(last)) /\ Given(last) \subseteq PhysicalRegs \ F
        /\ last.opcode = "LOADP" => last.phyrd # last.phyrs3
    BY <1>1, <2>1, OwnedLosingLast
  <2> HIDE DEF last
  <2>5. Distinct(list') /\ Elements(list') = F \cup Given(i)
    BY <1>1, <2>1, <2>2, <2>3, <2>4, RegistersFreed
  <2> QED
    BY <2>3, <2>4, <2>5
<1>9. CASE CommitBelowZero \/ MAUOutOfBounds \/ DecodeOutOfBounds \/ FetchOutOfBounds
  BY <1>2, <1>9 DEF CommitBelowZero, MAUOutOfBounds, DecodeOutOfBounds, FetchOutOfBounds,
              BecomesUndefined, windowVars, frontVars, freeVars
<1>10. CASE MAUStage \/ MulFUStage \/ AFUStage \/ IntFUStage
  BY <1>2, <1>10 DEF MAUStage, MulFUStage, AFUStage, IntFUStage, windowVars, frontVars, freeVars
<1>11. CASE BFUStage
  BY <1>2, <1>11 DEF BFUStage, windowVars, freeVars
<1>12. CASE SquashEnds
  BY <1>2, <1>12 DEF SquashEnds, windowVars, frontVars, freeVars
<1>13. CASE UNCHANGED vars
  BY <1>2, <1>13 DEF vars, windowVars, frontVars, freeVars
<1> QED
  BY <1>3, <1>4, <1>5, <1>6, <1>7, <1>8, <1>9, <1>10, <1>11, <1>12, <1>13 DEF Next

\* At the start all registers are free, and no instruction has been renamed.
LEMMA OwnInvInit == TypeInv /\ RoBInv /\ Init => OwnInv
<1> SUFFICES ASSUME TypeInv, RoBInv, Init PROVE OwnInv
  OBVIOUS
<1>1. LatchInv
  BY DEF Init, APEX_cpu_init, LatchInv, EmptyLatch, EmptyStallLatch
<1>2. Distinct(freePhysicalRegList)
  <2>1. /\ DOMAIN freePhysicalRegList = 1 .. PHYSICAL_REG_FILE_SIZE
        /\ \A k \in 1 .. PHYSICAL_REG_FILE_SIZE : freePhysicalRegList[k] = k - 1
    BY DEF Init, APEX_cpu_init
  <2>2. \A j, k \in Int : j - 1 = k - 1 => j = k
    OBVIOUS
  <2>3. \A k \in 1 .. PHYSICAL_REG_FILE_SIZE : k \in Int
    BY SizesAssumption
  <2> QED
    BY <2>1, <2>2, <2>3 DEF Distinct
<1>3. DOMAIN Window = {}
  <2>1. WindowLength = 0
    BY DEF Init, APEX_cpu_init, EmptyLatch, EmptyStallLatch, WindowLength, InBuffer, Committed,
           Waiting
  <2>2. DOMAIN Window = 1 .. WindowLength
    BY WindowIs DEF WindowContents
  <2> QED
    BY <2>1, <2>2
<1> QED
  BY <1>1, <1>2, <1>3 DEF OwnInv, Owned

\* One owner each is what the registers have then.
LEMMA OwnedMeans ==
  ASSUME TypeInv, RoBInv, Distinct(freePhysicalRegList), Owned(Window, FreePhysicalRegs)
  PROVE  OneOwnerEach(Renamed)
<1>1. /\ DOMAIN Renamed = DOMAIN Window
      /\ \A k \in DOMAIN Renamed : Given(Window[k]) = Given(Renamed[k])
  BY Holding DEF Window
<1>2. Cardinality(FreePhysicalRegs) = Len(freePhysicalRegList)
  BY FreeIsElements, DistinctCount DEF TypeInv, RenameTypes, ListType
<1>3. HeldBy(Renamed) \cap FreePhysicalRegs = {}
  <2>1. \A p \in HeldBy(Renamed) : p \notin FreePhysicalRegs
    BY <1>1, Holding DEF Owned
  <2> QED
    BY <2>1
<1>4. \A j, k \in DOMAIN Renamed : j # k => Given(Renamed[j]) \cap Given(Renamed[k]) = {}
  BY <1>1 DEF Owned
<1> QED
  BY <1>2, <1>3, <1>4 DEF OneOwnerEach

\* "leaving only flow dependency" needs registers of one's own.  As long as decode finds a
\* register when it renames, and a squash meets no STOREP and no head that has committed,
\* no physical register is ever given to two instructions, freed twice, or free while an
\* instruction has it: for every program, every number of registers and every squash.
THEOREM NoSharing ==
  ASSUME BitwiseIsInt PROVE Spec /\ []SquashesCleanly => []NoRegisterShared
<1>1. Spec => []TypeInv
  BY TypeInvAlways
<1>2. Spec => []RoBInv
  BY RoBInvAlways
<1>3. TypeInv /\ RoBInv /\ Init => OwnInv
  BY OwnInvInit
<1>4. /\ TypeInv /\ RoBInv /\ TypeInv' /\ RoBInv' /\ SquashesCleanly /\ OwnInv /\ [Next]_vars
      => OwnInv'
  BY OwnInvStep DEF SquashesCleanly
<1>5. TypeInv /\ RoBInv /\ OwnInv => NoRegisterShared
  <2> SUFFICES ASSUME TypeInv, RoBInv, OwnInv PROVE NoRegisterShared
    OBVIOUS
  <2>1. OneOwnerEach(Renamed)
    BY OwnedMeans DEF OwnInv
  <2> QED
    BY <2>1 DEF NoRegisterShared
<1> QED
  BY <1>1, <1>2, <1>3, <1>4, <1>5, PTL DEF Spec

(***************************************************************************)
(* Producers, without squashes: the four things that happen to the window. *)
(***************************************************************************)
\* A latch that holds an instruction for decode does not stall, and the latch behind it
\* stalls only with an instruction that dispatch moves on.
FlowLatches ==
  /\ decode_rename1.has_insn => ~decode_rename1.stall
  /\ rename2_dispatch.stall =>
       rename2_dispatch.has_insn /\ rename2_dispatch.instr.opcode # "DIV"

TableKept == \A x \in ProgramRegisters : renameTable'[x] = renameTable[x]
ListsKept == freePhysicalRegList' = freePhysicalRegList /\ freeCCFlagsRegList' = freeCCFlagsRegList

Stays == Window' = Window /\ ListsKept /\ TableKept
Retires ==
  /\ 1 \in DOMAIN Window /\ Len(Window') + 1 = Len(Window) /\ Stretch(Window', Window, 1)
  /\ Elements(freePhysicalRegList') = Elements(freePhysicalRegList) \cup Given(Window[1])
  /\ freeCCFlagsRegList' = FreedCC(Window[1], freeCCFlagsRegList)
  /\ TableKept
Drops ==
  /\ LosesLast /\ Window[WindowLength].opcode = "DIV"
  /\ ListsKept /\ TableKept
Joins(i) ==
  Enters(i) /\ Window' = Append(Window, NamesOf(i)) /\ Len(Window') = Len(Window) + 1

\* At the start the latches are empty.
LEMMA FlowLatchesInit == Init => FlowLatches
BY DEF Init, APEX_cpu_init, FlowLatches, EmptyStallLatch

\* Decode never stalls with an instruction while registers and room are found.
LEMMA FlowLatchesStep ==
  ASSUME TypeInv, RoBInv, TypeInv', RoBInv', OwnInv, FlowLatches, Undisturbed, [Next]_vars
  PROVE  FlowLatches'
<1>1. /\ decode_rename1 \in StallLatches /\ rename2_dispatch \in StallLatches
      /\ bus \in BusType /\ physicalRegFile \in PRFType
  BY DEF TypeInv, FrontTypes, FileTypes, ForwardingTypes
<1>2. CASE UNCHANGED <<decode_rename1, rename2_dispatch>>
  BY <1>2 DEF FlowLatches
<1>3. CASE DispatchStage
  <2> DEFINE i == ReadPRF(PickUp(rename2_dispatch.instr, bus), physicalRegFile)
             room == RoomFor(i.opcode, issueQueue, ROB_size, LSQ_size)
  <2>1. NamesOf(i) = NamesOf(rename2_dispatch.instr)
    BY <1>1, NamesKept DEF StallLatches
  <2>2. i.opcode = rename2_dispatch.instr.opcode
    BY <2>1 DEF NamesOf
  <2>3. UNCHANGED decode_rename1
    BY <1>3 DEF DispatchStage
  <2>4. CASE ~rename2_dispatch.has_insn
    BY <1>2, <1>3, <2>3, <2>4 DEF DispatchStage
  <2>5. CASE rename2_dispatch.has_insn
    <3>1. stage = "dispatch"
      BY <1>3 DEF DispatchStage
    <3>2. i.opcode # "DIV" => room
      BY <2>2, <2>5, <3>1 DEF Undisturbed, FindsRoom
    <3>3. ~rename2_dispatch'.stall
      <4>1. CASE i.opcode = "DIV"
        <5>1. rename2_dispatch' = [rename2_dispatch EXCEPT !.has_insn = FALSE]
          BY <1>3, <2>5, <4>1 DEF DispatchStage
        <5> QED
          BY <1>1, <2>2, <4>1, <5>1 DEF FlowLatches, StallLatches
      <4>2. CASE i.opcode # "DIV"
        <5>1. rename2_dispatch' = [has_insn |-> FALSE, stall |-> ~room, instr |-> i]
          BY <1>3, <2>5, <4>2 DEF DispatchStage
        <5> HIDE DEF room, i
        <5> QED
          BY <3>2, <4>2, <5>1
      <4> QED
        BY <4>1, <4>2
    <3> QED
      BY <2>3, <3>3 DEF FlowLatches
  <2> QED
    BY <2>4, <2>5
<1>4. CASE DecodeStage
  <2>1. CASE ~decode_rename1.has_insn
    BY <1>2, <1>4, <2>1 DEF DecodeStage
  <2>2. CASE decode_rename1.has_insn
    <3>1. PICK i \in Instrs : Enters(i)
      BY <1>4, <2>2, DecodeRenames DEF OwnInv, Undisturbed
    <3>2. ~rename2_dispatch.stall
      BY <1>4 DEF DecodeStage, OwnInv, LatchInv, FlowLatches
    <3> QED
      BY <2>2, <3>1, <3>2 DEF Enters, FlowLatches
  <2> QED
    BY <2>1, <2>2
<1>5. CASE FetchStage
  <2>1. \/ decode_rename1' \in {decode_rename1, DecodeAfterFetch} /\ UNCHANGED rename2_dispatch
        \/ /\ decode_rename1' = [DecodeAfterFetch EXCEPT !.has_insn = FALSE, !.stall = FALSE]
           /\ rename2_dispatch' = [rename2_dispatch EXCEPT !.has_insn = FALSE, !.stall = FALSE]
    BY <1>5 DEF FetchStage, EmptyLatches, frontVars
  <2>2. \/ DecodeAfterFetch = decode_rename1
        \/ ~DecodeAfterFetch.stall
    BY DEF DecodeAfterFetch
  <2>3. decode_rename1' \in StallLatches
    BY DEF TypeInv, FrontTypes
  <2> QED
    BY <1>1, <2>1, <2>2, <2>3 DEF FlowLatches, StallLatches
<1>6. CASE CommitBelowZero \/ MAUOutOfBounds \/ DecodeOutOfBounds \/ FetchOutOfBounds
  BY <1>2, <1>6 DEF CommitBelowZero, MAUOutOfBounds, DecodeOutOfBounds, FetchOutOfBounds,
              BecomesUndefined, frontVars
<1>7. CASE MAUStage \/ MulFUStage \/ AFUStage \/ IntFUStage
  BY <1>2, <1>7 DEF MAUStage, MulFUStage, AFUStage, IntFUStage, frontVars
<1>8. CASE BFUStage \/ IssueStage
  BY <1>2, <1>8 DEF BFUStage, IssueStage
<1>9. CASE CommitStage \/ SquashTail \/ SquashEnds
  BY <1>2, <1>9 DEF CommitStage, SquashTail, SquashEnds, frontVars
<1>10. CASE UNCHANGED vars
  BY <1>2, <1>10 DEF vars, frontVars
<1> QED
  BY <1>3, <1>4, <1>5, <1>6, <1>7, <1>8, <1>9, <1>10 DEF Next

\* The window stays, or its first instruction retires, its last is dropped, or one joins.
LEMMA WindowSteps ==
  ASSUME TypeInv, RoBInv, TypeInv', RoBInv', OwnInv, LatchInv', FlowLatches,
         Undisturbed, Undisturbed', [Next]_vars
  PROVE  Stays \/ Retires \/ Drops \/ \E i \in Instrs : Joins(i)
<1> DEFINE list == freePhysicalRegList
           F == Elements(freePhysicalRegList)
<1>1. LatchInv /\ Distinct(list) /\ Owned(Window, F) /\ list \in ListType
  BY FreeIsElements DEF OwnInv, TypeInv, RenameTypes
<1>2. CASE UNCHANGED <<windowVars, freePhysicalRegList, freeCCFlagsRegList, renameTable>>
  BY <1>2, WindowStays DEF Stays, ListsKept, TableKept
<1>3. CASE CommitStage
  <2> DEFINE i == RoBAtCommit[0].instr
             matches == i.pc = LSQAtCommit[0].pc
  <2>1. /\ Committed' \in 0 .. 1 /\ WindowLength' + Committed' = WindowLength
        /\ Stretch(Window', Window, Committed') /\ (Committed' = 0 => Window' = Window)
        /\ RoBAtCommit[0].established_bit => /\ 1 \in DOMAIN Window /\ i \in Instrs
                                              /\ Window[1] = NamesOf(i)
    BY <1>1, <1>3, WindowAtCommit
  <2>2. TableKept
    BY <1>3 DEF CommitStage, TableKept
  <2>3. CASE RoBAtCommit[0].established_bit /\ CanCommit(i, matches) /\ i.opcode # "HALT"
    <3>1. /\ delete_ROB_head' /\ list' = FreedPhysicalRegs(i, list)
          /\ freeCCFlagsRegList' = FreedCC(i, freeCCFlagsRegList)
      BY <1>3, <2>3 DEF CommitStage, CommitHead
    <3>2. Committed' = 1
      BY <3>1 DEF Committed
    <3>3. /\ Given(Window[1]) = Given(i) /\ Window[1].opcode = i.opcode
          /\ Window[1].phyrd = i.phyrd /\ Window[1].phyrs3 = i.phyrs3
          /\ Window[1].flag = i.flag
      BY <2>1, <2>3, Holding DEF NamesOf
    <3>4. Len(Window') + 1 = Len(Window) /\ Stretch(Window', Window, 1)
      <4>1. Len(Window) = WindowLength /\ Len(Window') = WindowLength'
        BY WindowIs, WindowNext DEF WindowContents
      <4> QED
        BY <2>1, <3>2, <4>1, Zenon
    <3>5. /\ Given(i) \subseteq PhysicalRegs \ F
          /\ i.opcode = "LOADP" => i.phyrd # i.phyrs3
      BY <1>1, <2>1, <2>3, <3>3 DEF Owned
    <3>6. Elements(list') = F \cup Given(i)
      BY <1>1, <2>1, <2>3, <3>1, <3>5, RegistersFreed
    <3>7. freeCCFlagsRegList' = FreedCC(Window[1], freeCCFlagsRegList)
      BY <3>1, <3>3 DEF FreedCC
    <3> QED
      BY <2>1, <2>2, <2>3, <3>3, <3>4, <3>6, <3>7 DEF Retires
  <2>4. CASE ~(RoBAtCommit[0].established_bit /\ CanCommit(i, matches) /\ i.opcode # "HALT")
    <3>1. ~delete_ROB_head' /\ list' \in {list, FreedPhysicalRegs(i, list)}
          /\ freeCCFlagsRegList' \in {freeCCFlagsRegList, FreedCC(i, freeCCFlagsRegList)}
          /\ (list' # list \/ freeCCFlagsRegList' # freeCCFlagsRegList => i.opcode = "HALT")
      BY <1>3, <2>4 DEF CommitStage, CommitHead, freeVars
    <3>2. list' = list /\ freeCCFlagsRegList' = freeCCFlagsRegList
      BY <3>1 DEF FreedPhysicalRegs, FreedCC, DestinationOps, PointerOps, FlagOps, Alu2Ops,
                  AluLiteralOps, LoadOps
    <3>3. Window' = Window
      BY <2>1, <3>1 DEF Committed
    <3> QED
      BY <2>2, <3>2, <3>3 DEF Stays, ListsKept
  <2> QED
    BY <2>3, <2>4
<1>4. CASE IssueStage
  BY <1>1, <1>4, WindowAtIssue DEF IssueStage, freeVars, Stays, ListsKept, TableKept
<1>5. CASE DispatchStage
  <2>1. ListsKept /\ TableKept /\ stage = "dispatch"
    BY <1>5 DEF DispatchStage, freeVars, ListsKept, TableKept
  <2>2. \/ Window' = Window
        \/ /\ LosesLast /\ rename2_dispatch.has_insn
           /\ Window[WindowLength] = NamesOf(rename2_dispatch.instr)
           /\ \/ rename2_dispatch.instr.opcode = "DIV"
              \/ ~RoomFor(rename2_dispatch.instr.opcode, issueQueue, ROB_size, LSQ_size)
    BY <1>1, <1>5, WindowAtDispatch
  <2>3. \/ Window' = Window
        \/ /\ LosesLast
           /\ Window[WindowLength] = NamesOf(rename2_dispatch.instr)
           /\ rename2_dispatch.instr.opcode = "DIV"
    BY <2>1, <2>2 DEF Undisturbed, FindsRoom
  <2>4. NamesOf(rename2_dispatch.instr).opcode = rename2_dispatch.instr.opcode
    BY DEF NamesOf
  <2> QED
    BY <2>1, <2>3, <2>4, Zenon DEF Stays, Drops
<1>6. CASE DecodeStage
  <2>1. CASE ~decode_rename1.has_insn
    BY <1>2, <1>6, <2>1 DEF DecodeStage, windowVars, freeVars, robVars
  <2>2. CASE decode_rename1.has_insn
    <3>1. PICK i \in Instrs : Enters(i)
      BY <1>1, <1>6, <2>2, DecodeRenames DEF Undisturbed
    <3>2. ~rename2_dispatch.stall
      BY <1>6 DEF DecodeStage, OwnInv, LatchInv, FlowLatches
    <3> QED
      BY <1>1, <1>6, <3>1, <3>2, WindowAtDecode DEF Joins
  <2> QED
    BY <2>1, <2>2
<1>7. CASE FetchStage
  BY <1>7, WindowAtFetch DEF FetchStage, freeVars, Stays, ListsKept, TableKept, Undisturbed
<1>8. CASE SquashTail \/ SquashEnds
  BY <1>8 DEF SquashTail, SquashEnds, Undisturbed
<1>9. CASE CommitBelowZero \/ MAUOutOfBounds \/ DecodeOutOfBounds \/ FetchOutOfBounds
  BY <1>2, <1>9 DEF CommitBelowZero, MAUOutOfBounds, DecodeOutOfBounds, FetchOutOfBounds,
              BecomesUndefined, windowVars, frontVars, freeVars
<1>10. CASE MAUStage \/ MulFUStage \/ AFUStage \/ IntFUStage
  BY <1>2, <1>10 DEF MAUStage, MulFUStage, AFUStage, IntFUStage, windowVars, frontVars, freeVars
<1>11. CASE BFUStage
  BY <1>2, <1>11 DEF BFUStage, windowVars, freeVars
<1>12. CASE UNCHANGED vars
  BY <1>2, <1>12 DEF vars, windowVars, frontVars, freeVars
<1> QED
  BY <1>3, <1>4, <1>5, <1>6, <1>7, <1>8, <1>9, <1>10, <1>11, <1>12 DEF Next

(***************************************************************************)
(* What the four do to the registers held and to the producers.            *)
(***************************************************************************)
\* Every physical register is held or free.
AllHeld(w, free) == PhysicalRegs \subseteq HeldBy(w) \cup free

\* The flags registers of a window are its own, and all the others are free.
Setters(w) == {k \in DOMAIN w : w[k].opcode \in FlagOps}
FlagsOwned(w, list) ==
  /\ Distinct(list)
  /\ \A k \in Setters(w) : w[k].flag \notin Elements(list)
  /\ \A j, k \in Setters(w) : j # k => w[j].flag # w[k].flag
AllFlagsHeld(w, list) ==
  \A c \in CCRegs : c \in Elements(list) \/ \E k \in Setters(w) : w[k].flag = c

FlowInv ==
  /\ FlowLatches
  /\ AllHeld(Window, Elements(freePhysicalRegList))
  /\ FlagsOwned(Window, freeCCFlagsRegList)
  /\ Sourced(Window)
  /\ Tabled(Window, renameTable)

\* What a window that has grown by one looks like.
LEMMA Grown ==
  ASSUME NEW w \in Seq(NameRecords), NEW n \in NameRecords
  PROVE  /\ Len(w) \in Nat /\ DOMAIN w = 1 .. Len(w) /\ DOMAIN Append(w, n) = 1 .. Len(w) + 1
         /\ \A k \in DOMAIN w : k \in DOMAIN Append(w, n) /\ Append(w, n)[k] = w[k]
         /\ Len(w) + 1 \in DOMAIN Append(w, n) /\ Append(w, n)[Len(w) + 1] = n
         /\ \A k \in DOMAIN Append(w, n) : k \in DOMAIN w \/ k = Len(w) + 1
BY AppendProperties, LenProperties

\* A window holds no more names than before when nobody who writes has left.
LEMMA NamesDropping ==
  ASSUME NEW w, NEW v, NEW n \in Nat, \A k \in 1 .. n : v[k] = w[k], NEW r, NEW p,
         ~Writes(w[n + 1], r), Names(w, n + 1, r, p)
  PROVE  Names(v, n, r, p)
<1> SUFFICES ASSUME NEW k \in 1 .. n, LastToWrite(v, n, k, r) PROVE p = RegisterFor(v[k], r)
  BY DEF Names
<1>1. k \in 1 .. n + 1 /\ v[k] = w[k]
  OBVIOUS
<1>2. \A j \in k + 1 .. n + 1 : j = n + 1 \/ (j \in k + 1 .. n /\ j \in 1 .. n)
  OBVIOUS
<1>3. LastToWrite(w, n + 1, k, r)
  BY <1>1, <1>2 DEF LastToWrite
<1> QED
  BY <1>1, <1>3 DEF Names

\* What the table says of a program register is all that counts.
LEMMA TabledKept ==
  ASSUME NEW w, NEW s, NEW t, Tabled(w, s), \A x \in ProgramRegisters : t[x] = s[x]
  PROVE  Tabled(w, t)
BY DEF Tabled

\* An instruction's names say what it writes.
LEMMA NamesWrite ==
  /\ \A i, r : Writes(NamesOf(i), r) <=> Writes(i, r)
  /\ \A i, r : RegisterFor(NamesOf(i), r) = RegisterFor(i, r)
BY DEF Writes, Advances, PointerOf, RegisterFor, NamesOf

\* The last of a window of which the rest stays.
LEMMA LastDropped ==
  ASSUME TypeInv, RoBInv, TypeInv', RoBInv', Drops
  PROVE  /\ Window \in Seq(NameRecords) /\ Window' \in Seq(NameRecords)
         /\ \E m \in Nat : m = Len(Window') /\ Len(Window) = m + 1
         /\ DOMAIN Window = 1 .. Len(Window) /\ DOMAIN Window' = 1 .. Len(Window')
         /\ \A k \in 1 .. Len(Window') : Window'[k] = Window[k]
         /\ Stretch(Window', Window, 0)
         /\ Window[Len(Window)].opcode = "DIV"
<1>1. /\ Window \in Seq(NameRecords) /\ Window' \in Seq(NameRecords)
      /\ Len(Window) = WindowLength /\ Len(Window') = WindowLength'
  BY WindowIs, WindowNext DEF WindowContents
<1>2. /\ WindowLength \in Nat \ {0} /\ WindowLength' = WindowLength - 1
      /\ Stretch(Window', Window, 0) /\ Window[WindowLength].opcode = "DIV"
  BY DEF Drops, LosesLast
<1>3. DOMAIN Window = 1 .. Len(Window) /\ DOMAIN Window' = 1 .. Len(Window')
  BY <1>1, LenProperties
<1>4. \A k \in 1 .. Len(Window') : Window'[k] = Window[k]
  <2>1. \A k \in 1 .. Len(Window') : Window'[k] = Window[k + 0]
    BY <1>2, <1>3, Zenon DEF Stretch
  <2>2. Len(Window') \in Nat
    BY <1>1, LenProperties
  <2>3. \A k \in 1 .. Len(Window') : k + 0 = k
    BY <2>2
  <2> QED
    BY <2>1, <2>3, Zenon
<1>5. \E m \in Nat : m = Len(Window') /\ Len(Window) = m + 1
  <2>1. \A n \in Nat \ {0} : n - 1 \in Nat /\ n = (n - 1) + 1
    OBVIOUS
  <2> QED
    BY <1>1, <1>2, <2>1, Zenon
<1> QED
  BY <1>1, <1>2, <1>3, <1>4, <1>5, Zenon

\* A window without its first element.
LEMMA FirstRetired ==
  ASSUME TypeInv, RoBInv, TypeInv', RoBInv', Retires
  PROVE  /\ Window \in Seq(NameRecords) /\ Window' \in Seq(NameRecords)
         /\ Len(Window') \in Nat /\ Len(Window) = Len(Window') + 1
         /\ DOMAIN Window = 1 .. Len(Window) /\ DOMAIN Window' = 1 .. Len(Window')
         /\ \A k \in 1 .. Len(Window') : Window'[k] = Window[k + 1]
         /\ \A k \in DOMAIN Window : k \in Int /\ (k # 1 => k - 1 \in DOMAIN Window')
<1>1. /\ Window \in Seq(NameRecords) /\ Window' \in Seq(NameRecords)
  BY WindowIs, WindowNext DEF WindowContents
<1>2. PICK n \in Nat : n = Len(Window') /\ n + 1 = Len(Window)
  BY <1>1, LenProperties DEF Retires
<1>3. DOMAIN Window = 1 .. n + 1 /\ DOMAIN Window' = 1 .. n
  BY <1>1, <1>2, LenProperties
<1>4. \A k \in 1 .. n : Window'[k] = Window[k + 1]
  BY <1>3, Zenon DEF Retires, Stretch
<1>5. \A k \in 1 .. n + 1 : k \in Int /\ (k # 1 => k - 1 \in 1 .. n)
  OBVIOUS
<1> QED
  BY <1>1, <1>2, <1>3, <1>4, <1>5, Zenon

\* No physical register gets lost.
LEMMA AllHeldStep ==
  ASSUME TypeInv, RoBInv, TypeInv', RoBInv', OwnInv,
         AllHeld(Window, Elements(freePhysicalRegList)),
         Stays \/ Retires \/ Drops \/ \E i \in Instrs : Joins(i)
  PROVE  AllHeld(Window', Elements(freePhysicalRegList'))
<1> DEFINE F == Elements(freePhysicalRegList)
<1>1. CASE Stays
  BY <1>1 DEF Stays, ListsKept
<1>2. CASE Retires
  <2>1. Stretch(Window', Window, 1) /\ Elements(freePhysicalRegList') = F \cup Given(Window[1])
    BY <1>2 DEF Retires
  <2>2. HeldBy(Window) \subseteq HeldBy(Window') \cup Given(Window[1])
    BY <1>2, <2>1, FirstRetired, HeldWithout
  <2> QED
    BY <2>1, <2>2 DEF AllHeld
<1>3. CASE Drops
  <2> DEFINE gone == Len(Window)
  <2>1. PICK m \in Nat : m = Len(Window') /\ Len(Window) = m + 1
    BY <1>3, LastDropped
  <2>2. DOMAIN Window = 1 .. m + 1 /\ DOMAIN Window' = 1 .. m
    BY <1>3, <2>1, LastDropped
  <2>3. \A k \in 1 .. m + 1 : k \in Int /\ (k # m + 1 => k - 0 \in 1 .. m)
    OBVIOUS
  <2>4. Stretch(Window', Window, 0) /\ Window[m + 1].opcode = "DIV"
    BY <1>3, <2>1, LastDropped
  <2>5. HeldBy(Window) \subseteq HeldBy(Window') \cup Given(Window[m + 1])
    <3>1. \A k \in DOMAIN Window : k \in Int /\ (k # m + 1 => k - 0 \in DOMAIN Window')
      BY <2>2, <2>3, Zenon
    <3>2. 0 \in Int
      OBVIOUS
    <3> QED
      BY <2>4, <3>1, <3>2, HeldWithout
  <2>6. Given(Window[m + 1]) = {}
    BY <2>4 DEF Given, DestinationOps, PointerOps, Alu2Ops, AluLiteralOps, LoadOps
  <2> QED
    BY <1>3, <2>5, <2>6 DEF Drops, ListsKept, AllHeld
<1>4. CASE \E i \in Instrs : Joins(i)
  <2>1. PICK i \in Instrs : Joins(i)
    BY <1>4
  <2> DEFINE n == NamesOf(i)
  <2>2. Window \in Seq(NameRecords) /\ n \in NameRecords /\ Given(n) = Given(i)
    BY WindowIs, NamesOfType, Holding DEF WindowContents
  <2>3. Window' = Append(Window, n) /\ Elements(freePhysicalRegList') = F \ Given(i)
    BY <2>1 DEF Joins, Enters
  <2> HIDE DEF n
  <2>4. HeldBy(Window) \cup Given(n) \subseteq HeldBy(Append(Window, n))
    <3>1. \A p \in HeldBy(Window) : p \in HeldBy(Append(Window, n))
      <4> SUFFICES ASSUME NEW p \in HeldBy(Window) PROVE p \in HeldBy(Append(Window, n))
        OBVIOUS
      <4>1. PICK k \in DOMAIN Window : p \in Given(Window[k])
        BY Holding
      <4>2. k \in DOMAIN Append(Window, n) /\ Append(Window, n)[k] = Window[k]
        BY <2>2, Grown
      <4> QED
        BY <4>1, <4>2, Holding
    <3>2. \A p \in Given(n) : p \in HeldBy(Append(Window, n))
      <4>1. Len(Window) + 1 \in DOMAIN Append(Window, n) /\ Append(Window, n)[Len(Window) + 1] = n
        BY <2>2, Grown
      <4> QED
        BY <4>1, Holding
    <3> QED
      BY <3>1, <3>2
  <2> QED
    BY <2>2, <2>3, <2>4 DEF AllHeld
<1> QED
  BY <1>1, <1>2, <1>3, <1>4

\* Every source names its producer, and the table those of what comes next.
LEMMA NamedStep ==
  ASSUME TypeInv, RoBInv, TypeInv', RoBInv', Sourced(Window), Tabled(Window, renameTable),
         Stays \/ Retires \/ Drops \/ \E i \in Instrs : Joins(i)
  PROVE  Sourced(Window') /\ Tabled(Window', renameTable')
<1>1. CASE Stays
  BY <1>1, TabledKept DEF Stays, TableKept
<1>2. CASE Retires
  <2>1. PICK m \in Nat : m = Len(Window') /\ Len(Window) = m + 1
    BY <1>2, FirstRetired
  <2>2. /\ Window \in Seq(NameRecords) /\ Window' \in Seq(NameRecords)
        /\ Stretch(Window', Window, 1) /\ 1 \in Nat
    BY <1>2, FirstRetired DEF Retires
  <2>3. Sourced(Window')
    BY <2>2, SourcedStretch
  <2>4. ASSUME NEW x \in ProgramRegisters PROVE Names(Window', m, x, renameTable[x])
    <3>1. Names(Window, m + 1, x, renameTable[x])
      BY <2>1 DEF Tabled
    <3>2. m \in 0 .. Len(Window')
      BY <2>1
    <3> QED
      BY <2>2, <3>1, <3>2, NamesStretch
  <2>5. Tabled(Window', renameTable)
    BY <2>1, <2>4 DEF Tabled
  <2> QED
    BY <1>2, <2>3, <2>5, TabledKept DEF Retires, TableKept
<1>3. CASE Drops
  <2>1. PICK m \in Nat : m = Len(Window') /\ Len(Window) = m + 1
    BY <1>3, LastDropped
  <2>2. /\ Window \in Seq(NameRecords) /\ Window' \in Seq(NameRecords)
        /\ Stretch(Window', Window, 0) /\ 0 \in Nat
        /\ \A k \in 1 .. m : Window'[k] = Window[k]
        /\ Window[m + 1].opcode = "DIV"
    BY <1>3, <2>1, LastDropped
  <2>3. Sourced(Window')
    BY <2>2, SourcedStretch
  <2>4. ASSUME NEW x \in ProgramRegisters PROVE Names(Window', m, x, renameTable[x])
    <3>1. Names(Window, m + 1, x, renameTable[x])
      BY <2>1 DEF Tabled
    <3>2. ~Writes(Window[m + 1], x)
      BY <2>2 DEF Writes, Advances, DestinationOps, PointerOps, Alu2Ops, AluLiteralOps, LoadOps
    <3> QED
      BY <2>2, <3>1, <3>2, NamesDropping
  <2>5. Tabled(Window', renameTable)
    BY <2>1, <2>4 DEF Tabled
  <2> QED
    BY <1>3, <2>3, <2>5, TabledKept DEF Drops, TableKept
<1>4. CASE \E i \in Instrs : Joins(i)
  <2>1. PICK i \in Instrs : Joins(i)
    BY <1>4
  <2> DEFINE n == NamesOf(i)
  <2>2. /\ Window \in Seq(NameRecords) /\ n \in NameRecords
        /\ n.opcode = i.opcode /\ n.rs1 = i.rs1 /\ n.rs2 = i.rs2
        /\ n.phyrs1 = i.phyrs1 /\ n.phyrs2 = i.phyrs2
    BY WindowIs, NamesOfType DEF WindowContents, NamesOf
  <2>3. /\ Window' = Append(Window, n) /\ Len(Window') = Len(Window) + 1
        /\ i.opcode \in Source1Ops => i.phyrs1 = renameTable[i.rs1]
        /\ i.opcode \in Source2Ops => i.phyrs2 = renameTable[i.rs2]
    BY <2>1 DEF Joins, Enters
  <2>4. \A x \in ProgramRegisters :
          renameTable'[x] = IF Writes(n, x) THEN RegisterFor(n, x) ELSE renameTable[x]
    BY <2>1, NamesWrite DEF Joins, Enters
  <2> HIDE DEF n
  <2>5. Sourced(Append(Window, n))
    BY <2>2, <2>3, SourcedAppend
  <2>6. ASSUME NEW x \in ProgramRegisters
        PROVE  Names(Append(Window, n), Len(Window) + 1, x, renameTable'[x])
    <3>1. Names(Window, Len(Window), x, renameTable[x])
      BY DEF Tabled
    <3>2. PICK q : q = IF Writes(n, x) THEN RegisterFor(n, x) ELSE renameTable[x]
      OBVIOUS
    <3>3. Names(Append(Window, n), Len(Window) + 1, x, q)
      BY <2>2, <3>1, <3>2, NamesAppend
    <3> QED
      BY <2>4, <3>2, <3>3, Zenon
  <2> QED
    BY <2>3, <2>5, <2>6 DEF Tabled
<1> QED
  BY <1>1, <1>2, <1>3, <1>4

(***************************************************************************)
(* The flags registers.                                                    *)
(***************************************************************************)
\* What a commit does to the list of free flags registers.
LEMMA FlagsFreed ==
  ASSUME NEW n \in NameRecords, NEW list \in CCListType, Distinct(list),
         n.opcode \in FlagOps => n.flag \notin Elements(list)
  PROVE  /\ Distinct(FreedCC(n, list))
         /\ Elements(FreedCC(n, list)) = Elements(list)
              \cup (IF n.opcode \in FlagOps \ {"CMP"} THEN {n.flag} ELSE {})
<1>1. n.flag \in 0 .. CC_REG_FILE_SIZE - 1 /\ list \in Seq(0 .. CC_REG_FILE_SIZE - 1)
  BY DEF NameRecords, CCRegs, CCListType
<1>2. CC_REG_FILE_SIZE \in Nat
  BY SizesAssumption
<1>3. CASE n.opcode \in FlagOps \ {"CMP"}
  <2>1. n.flag \notin Elements(list)
    BY <1>3
  <2>2. FreedCC(n, list) = AddBack(list, n.flag, CC_REG_FILE_SIZE)
    BY <1>3 DEF FreedCC
  <2> QED
    BY <1>1, <1>2, <1>3, <2>1, <2>2, AddedBack
<1>4. CASE n.opcode \notin FlagOps \ {"CMP"}
  BY <1>4 DEF FreedCC
<1> QED
  BY <1>3, <1>4

\* No flags register is shared.
LEMMA FlagsOwnedStep ==
  ASSUME TypeInv, RoBInv, TypeInv', RoBInv', FlagsOwned(Window, freeCCFlagsRegList),
         Stays \/ Retires \/ Drops \/ \E i \in Instrs : Joins(i)
  PROVE  FlagsOwned(Window', freeCCFlagsRegList')
<1> DEFINE list == freeCCFlagsRegList
<1>1. /\ list \in CCListType /\ Distinct(list)
      /\ \A k \in DOMAIN Window : Window[k].opcode \in FlagOps => Window[k].flag \notin Elements(list)
      /\ \A j, k \in DOMAIN Window :
           j # k /\ Window[j].opcode \in FlagOps /\ Window[k].opcode \in FlagOps
             => Window[j].flag # Window[k].flag
  BY DEF FlagsOwned, Setters, TypeInv, RenameTypes
<1> SUFFICES
      /\ Distinct(list')
      /\ \A k \in DOMAIN Window' : Window'[k].opcode \in FlagOps => Window'[k].flag \notin Elements(list')
      /\ \A j, k \in DOMAIN Window' :
           j # k /\ Window'[j].opcode \in FlagOps /\ Window'[k].opcode \in FlagOps
             => Window'[j].flag # Window'[k].flag
  BY DEF FlagsOwned, Setters
<1>2. CASE Stays
  BY <1>1, <1>2 DEF Stays, ListsKept
<1>3. CASE Retires
  <2>1. PICK m \in Nat : m = Len(Window') /\ Len(Window) = m + 1
    BY <1>3, FirstRetired
  <2>2. /\ Window \in Seq(NameRecords)
        /\ DOMAIN Window = 1 .. m + 1 /\ DOMAIN Window' = 1 .. m
        /\ \A k \in 1 .. m : Window'[k] = Window[k + 1]
    BY <1>3, <2>1, FirstRetired
  <2>3. Window[1] \in NameRecords /\ 1 \in DOMAIN Window
    BY <2>2, ElementOfSeq, LenProperties
  <2>4. /\ Distinct(list')
        /\ Elements(list') = Elements(list)
             \cup (IF Window[1].opcode \in FlagOps \ {"CMP"} THEN {Window[1].flag} ELSE {})
    BY <1>1, <1>3, <2>3, FlagsFreed DEF Retires
  <2>5. \A k \in 1 .. m : k + 1 \in 1 .. m + 1 /\ k + 1 # 1
    OBVIOUS
  <2>6. \A j, k \in 1 .. m : j # k => j + 1 # k + 1
    OBVIOUS
  <2>7. \A k \in DOMAIN Window' : Window'[k].opcode \in FlagOps => Window'[k].flag \notin Elements(list')
    <3> SUFFICES ASSUME NEW k \in 1 .. m, Window[k + 1].opcode \in FlagOps
                 PROVE  Window[k + 1].flag \notin Elements(list')
      BY <2>2
    <3>1. k + 1 \in DOMAIN Window /\ k + 1 # 1
      BY <2>2, <2>5
    <3>2. Window[k + 1].flag \notin Elements(list)
      BY <1>1, <3>1
    <3>3. Window[1].opcode \in FlagOps => Window[k + 1].flag # Window[1].flag
      BY <1>1, <2>3, <3>1
    <3> QED
      BY <2>4, <3>2, <3>3
  <2>8. \A j, k \in DOMAIN Window' :
           j # k /\ Window'[j].opcode \in FlagOps /\ Window'[k].opcode \in FlagOps
             => Window'[j].flag # Window'[k].flag
    <3> SUFFICES ASSUME NEW j \in 1 .. m, NEW k \in 1 .. m, j # k,
                        Window'[j].opcode \in FlagOps, Window'[k].opcode \in FlagOps
                 PROVE  Window'[j].flag # Window'[k].flag
      BY <2>2
    <3>1. Window'[j] = Window[j + 1] /\ Window'[k] = Window[k + 1]
      BY <2>2
    <3>2. j + 1 \in DOMAIN Window /\ k + 1 \in DOMAIN Window /\ j + 1 # k + 1
      BY <2>2, <2>5, <2>6
    <3> QED
      BY <1>1, <3>1, <3>2
  <2> QED
    BY <2>4, <2>7, <2>8
<1>4. CASE Drops
  <2>1. PICK m \in Nat : m = Len(Window') /\ Len(Window) = m + 1
    BY <1>4, LastDropped
  <2>2. /\ DOMAIN Window = 1 .. m + 1 /\ DOMAIN Window' = 1 .. m
        /\ \A k \in 1 .. m : Window'[k] = Window[k]
    BY <1>4, <2>1, LastDropped
  <2>3. \A k \in 1 .. m : k \in 1 .. m + 1
    OBVIOUS
  <2>4. list' = list
    BY <1>4 DEF Drops, ListsKept
  <2> QED
    BY <1>1, <2>2, <2>3, <2>4, Zenon
<1>5. CASE \E i \in Instrs : Joins(i)
  <2>1. PICK i \in Instrs : Joins(i)
    BY <1>5
  <2> DEFINE n == NamesOf(i)
             v == Append(Window, n)
  <2>2. /\ Window \in Seq(NameRecords) /\ n \in NameRecords
        /\ n.opcode = i.opcode /\ n.flag = i.flag
    BY WindowIs, NamesOfType DEF WindowContents, NamesOf
  <2>3. /\ Window' = v
        /\ i.opcode \in FlagOps => list # << >> /\ i.flag = Head(list)
        /\ list' = IF i.opcode \in FlagOps THEN Tail(list) ELSE list
    BY <2>1 DEF Joins, Enters
  <2> HIDE DEF n
  <2>4. /\ Len(Window) + 1 \in DOMAIN v /\ v[Len(Window) + 1] = n
        /\ \A k \in DOMAIN v : (k \in DOMAIN Window /\ v[k] = Window[k]) \/ k = Len(Window) + 1
    BY <2>2, Grown
  <2> HIDE DEF v
  <2>5. /\ Distinct(list') /\ Elements(list') \subseteq Elements(list)
        /\ n.opcode \in FlagOps => n.flag \in Elements(list) /\ n.flag \notin Elements(list')
    <3>1. CASE i.opcode \in FlagOps
      BY <1>1, <2>2, <2>3, <3>1, HeadTaken DEF CCListType
    <3>2. CASE i.opcode \notin FlagOps
      BY <1>1, <2>2, <2>3, <3>2
    <3> QED
      BY <3>1, <3>2
  <2>6. \A k \in DOMAIN v : v[k].opcode \in FlagOps => v[k].flag \notin Elements(list')
    BY <1>1, <2>4, <2>5
  <2>7. ASSUME NEW j \in DOMAIN v, NEW k \in DOMAIN v, j # k, v[j].opcode \in FlagOps,
               v[k].opcode \in FlagOps
        PROVE  v[j].flag # v[k].flag
    <3>1. CASE (j \in DOMAIN Window /\ v[j] = Window[j]) /\ (k \in DOMAIN Window /\ v[k] = Window[k])
      BY <1>1, <2>7, <3>1, Zenon
    <3>2. CASE (j \in DOMAIN Window /\ v[j] = Window[j]) /\ k = Len(Window) + 1
      BY <1>1, <2>4, <2>5, <2>7, <3>2
    <3>3. CASE j = Len(Window) + 1 /\ (k \in DOMAIN Window /\ v[k] = Window[k])
      BY <1>1, <2>4, <2>5, <2>7, <3>3
    <3> QED
      BY <2>4, <2>7, <3>1, <3>2, <3>3, Zenon
  <2> QED
    BY <2>3, <2>5, <2>6, <2>7
<1> QED
  BY <1>2, <1>3, <1>4, <1>5

\* None of them gets lost when no instruction of the window is a CMP.
LEMMA AllFlagsHeldStep ==
  ASSUME TypeInv, RoBInv, TypeInv', RoBInv', FlagsOwned(Window, freeCCFlagsRegList),
         AllFlagsHeld(Window, freeCCFlagsRegList),
         \A k \in DOMAIN Window : Window[k].opcode # "CMP",
         Stays \/ Retires \/ Drops \/ \E i \in Instrs : Joins(i)
  PROVE  AllFlagsHeld(Window', freeCCFlagsRegList')
<1> DEFINE list == freeCCFlagsRegList
<1>1. list \in CCListType /\ Distinct(list)
  BY DEF FlagsOwned, TypeInv, RenameTypes
<1>2. \A c \in CCRegs : \/ c \in Elements(list)
                        \/ \E k \in DOMAIN Window : Window[k].opcode \in FlagOps /\ Window[k].flag = c
  BY DEF AllFlagsHeld, Setters
<1> SUFFICES ASSUME NEW c \in CCRegs
             PROVE  \/ c \in Elements(list')
                    \/ \E k \in DOMAIN Window' :
                         Window'[k].opcode \in FlagOps /\ Window'[k].flag = c
  BY DEF AllFlagsHeld, Setters
<1>3. CASE Stays
  BY <1>2, <1>3 DEF Stays, ListsKept
<1>4. CASE Retires
  <2>1. PICK m \in Nat : m = Len(Window') /\ Len(Window) = m + 1
    BY <1>4, FirstRetired
  <2>2. /\ Window \in Seq(NameRecords)
        /\ DOMAIN Window = 1 .. m + 1 /\ DOMAIN Window' = 1 .. m
        /\ \A k \in 1 .. m : Window'[k] = Window[k + 1]
    BY <1>4, <2>1, FirstRetired
  <2>3. Window[1] \in NameRecords /\ 1 \in DOMAIN Window
    BY <2>2, ElementOfSeq, LenProperties
  <2>4. Elements(list') = Elements(list)
          \cup (IF Window[1].opcode \in FlagOps \ {"CMP"} THEN {Window[1].flag} ELSE {})
    BY <1>1, <1>4, <2>3, FlagsFreed DEF Retires, FlagsOwned, Setters
  <2>5. CASE c \in Elements(list)
    BY <2>4, <2>5
  <2>6. CASE \E k \in DOMAIN Window : Window[k].opcode \in FlagOps /\ Window[k].flag = c
    <3>1. PICK k \in 1 .. m + 1 : Window[k].opcode \in FlagOps /\ Window[k].flag = c
      BY <2>2, <2>6
    <3>2. CASE k = 1
      BY <2>3, <2>4, <3>1, <3>2
    <3>3. CASE k # 1
      <4>1. k - 1 \in 1 .. m /\ (k - 1) + 1 = k
        BY <3>3
      <4> QED
        BY <2>2, <3>1, <4>1
    <3> QED
      BY <3>2, <3>3
  <2> QED
    BY <1>2, <2>5, <2>6
<1>5. CASE Drops
  <2>1. PICK m \in Nat : m = Len(Window') /\ Len(Window) = m + 1
    BY <1>5, LastDropped
  <2>2. /\ DOMAIN Window = 1 .. m + 1 /\ DOMAIN Window' = 1 .. m
        /\ \A k \in 1 .. m : Window'[k] = Window[k]
        /\ Window[m + 1].opcode \notin FlagOps /\ list' = list
    BY <1>5, <2>1, LastDropped DEF Drops, ListsKept, FlagOps, Alu2Ops, AluLiteralOps
  <2>3. \A k \in 1 .. m + 1 : k \in 1 .. m \/ k = m + 1
    OBVIOUS
  <2> QED
    BY <1>2, <2>2, <2>3
<1>6. CASE \E i \in Instrs : Joins(i)
  <2>1. PICK i \in Instrs : Joins(i)
    BY <1>6
  <2> DEFINE n == NamesOf(i)
             v == Append(Window, n)
  <2>2. /\ Window \in Seq(NameRecords) /\ n \in NameRecords
        /\ n.opcode = i.opcode /\ n.flag = i.flag
    BY WindowIs, NamesOfType DEF WindowContents, NamesOf
  <2>3. /\ Window' = v
        /\ i.opcode \in FlagOps => list # << >> /\ i.flag = Head(list)
        /\ list' = IF i.opcode \in FlagOps THEN Tail(list) ELSE list
    BY <2>1 DEF Joins, Enters
  <2> HIDE DEF n
  <2>4. /\ Len(Window) + 1 \in DOMAIN v /\ v[Len(Window) + 1] = n
        /\ \A k \in DOMAIN Window : k \in DOMAIN v /\ v[k] = Window[k]
    BY <2>2, Grown
  <2> HIDE DEF v
  <2>5. CASE c \in Elements(list)
    <3>1. CASE i.opcode \in FlagOps
      <4>1. Elements(list') = Elements(list) \ {n.flag}
        BY <1>1, <2>2, <2>3, <3>1, HeadTaken DEF CCListType
      <4> QED
        BY <2>2, <2>3, <2>4, <2>5, <3>1, <4>1
    <3>2. CASE i.opcode \notin FlagOps
      BY <2>3, <2>5, <3>2
    <3> QED
      BY <3>1, <3>2
  <2>6. CASE \E k \in DOMAIN Window : Window[k].opcode \in FlagOps /\ Window[k].flag = c
    BY <2>3, <2>4, <2>6
  <2> QED
    BY <1>2, <2>5, <2>6
<1> QED
  BY <1>3, <1>4, <1>5, <1>6

(***************************************************************************)
(* The invariant.                                                          *)
(***************************************************************************)
\* At the start every register is free, nothing is held and nothing is named.
LEMMA FlowInvInit == TypeInv /\ RoBInv /\ Init => FlowInv
<1> SUFFICES ASSUME TypeInv, RoBInv, Init PROVE FlowInv
  OBVIOUS
<1>1. FlowLatches
  BY FlowLatchesInit
<1>2. DOMAIN Window = {} /\ 1 .. Len(Window) = {}
  <2>1. WindowLength = 0
    BY DEF Init, APEX_cpu_init, EmptyLatch, EmptyStallLatch, WindowLength, InBuffer, Committed,
           Waiting
  <2>2. DOMAIN Window = 1 .. WindowLength /\ Len(Window) = WindowLength
    BY WindowIs DEF WindowContents
  <2> QED
    BY <2>1, <2>2
<1>3. AllHeld(Window, Elements(freePhysicalRegList))
  <2> SUFFICES ASSUME NEW p \in PhysicalRegs PROVE p \in Elements(freePhysicalRegList)
    BY DEF AllHeld
  <2>1. /\ DOMAIN freePhysicalRegList = 1 .. PHYSICAL_REG_FILE_SIZE
        /\ \A k \in 1 .. PHYSICAL_REG_FILE_SIZE : freePhysicalRegList[k] = k - 1
    BY DEF Init, APEX_cpu_init
  <2>2. p + 1 \in 1 .. PHYSICAL_REG_FILE_SIZE /\ (p + 1) - 1 = p
    BY SizesAssumption DEF PhysicalRegs
  <2>3. freePhysicalRegList[p + 1] = p
    BY <2>1, <2>2
  <2> QED
    BY <2>1, <2>2, <2>3 DEF Elements
<1>4. FlagsOwned(Window, freeCCFlagsRegList)
  <2>1. /\ DOMAIN freeCCFlagsRegList = 1 .. CC_REG_FILE_SIZE
        /\ \A k \in 1 .. CC_REG_FILE_SIZE : freeCCFlagsRegList[k] = k - 1
    BY DEF Init, APEX_cpu_init
  <2>2. \A j, k \in Int : j - 1 = k - 1 => j = k
    OBVIOUS
  <2>3. \A k \in 1 .. CC_REG_FILE_SIZE : k \in Int
    BY SizesAssumption
  <2>4. Distinct(freeCCFlagsRegList)
    BY <2>1, <2>2, <2>3 DEF Distinct
  <2> QED
    BY <1>2, <2>4 DEF FlagsOwned, Setters
<1>5. Sourced(Window)
  BY <1>2 DEF Sourced
<1>6. Tabled(Window, renameTable)
  BY <1>2 DEF Tabled, Names
<1> QED
  BY <1>1, <1>3, <1>4, <1>5, <1>6 DEF FlowInv

\* The step, with what becomes of the window.
LEMMA FlowInvStep ==
  ASSUME TypeInv, RoBInv, TypeInv', RoBInv', OwnInv, FlowInv,
         Undisturbed, Undisturbed', [Next]_vars
  PROVE  /\ OwnInv' /\ FlowInv'
         /\ Stays \/ Retires \/ Drops \/ \E i \in Instrs : Joins(i)
<1>1. SquashesItsOwn /\ FindsRegisters
  BY DEF Undisturbed, SquashesItsOwn
<1>2. OwnInv'
  BY <1>1, OwnInvStep
<1>3. LatchInv'
  BY <1>2 DEF OwnInv
<1>4. FlowLatches /\ FlowLatches'
  BY FlowLatchesStep DEF FlowInv
<1>5. Stays \/ Retires \/ Drops \/ \E i \in Instrs : Joins(i)
  BY <1>3, <1>4, WindowSteps
<1>6. AllHeld(Window', Elements(freePhysicalRegList'))
  BY <1>5, AllHeldStep DEF FlowInv
<1>7. FlagsOwned(Window', freeCCFlagsRegList')
  BY <1>5, FlagsOwnedStep DEF FlowInv
<1>8. Sourced(Window') /\ Tabled(Window', renameTable')
  BY <1>5, NamedStep DEF FlowInv
<1>9. FlowInv'
  <2>1. AllHeld(Window, Elements(freePhysicalRegList))'
    BY <1>6, Zenon DEF AllHeld, HeldBy, Elements
  <2>2. FlagsOwned(Window, freeCCFlagsRegList)'
    BY <1>7 DEF FlagsOwned, Setters, Distinct, Elements
  <2>3. Sourced(Window)' /\ Tabled(Window, renameTable)'
    BY <1>8 DEF Sourced, Tabled, Names, LastToWrite
  <2> QED
    BY <1>4, <2>1, <2>2, <2>3 DEF FlowInv
<1> QED
  BY <1>2, <1>5, <1>9

\* It holds of every execution that finds registers and room and squashes nothing.
LEMMA FlowAlways ==
  ASSUME BitwiseIsInt
  PROVE  Spec /\ []Undisturbed => [](TypeInv /\ RoBInv /\ OwnInv /\ FlowInv)
<1>1. TypeInv /\ RoBInv /\ Init => OwnInv /\ FlowInv
  BY OwnInvInit, FlowInvInit
<1>2. /\ TypeInv /\ RoBInv /\ TypeInv' /\ RoBInv' /\ Undisturbed /\ Undisturbed'
      /\ OwnInv /\ FlowInv /\ [Next]_vars
      => OwnInv' /\ FlowInv'
  BY FlowInvStep
<1> QED
  BY <1>1, <1>2, TypeInvAlways, RoBInvAlways, PTL DEF Spec

(***************************************************************************)
(* The theorems.                                                           *)
(***************************************************************************)
\* Without squashes and without a register or a queue running out, no physical register is
\* lost either: each is on the free list, or held by one instruction until it commits.
THEOREM Conservation ==
  ASSUME BitwiseIsInt PROVE Spec /\ []Undisturbed => []RegistersConserved
<1>1. TypeInv /\ RoBInv /\ OwnInv /\ FlowInv => RegistersConserved
  <2> SUFFICES ASSUME TypeInv, RoBInv, OwnInv, FlowInv
               PROVE  OneOwnerEach(Renamed) /\ HeldBy(Renamed) \cup FreePhysicalRegs = PhysicalRegs
    BY DEF RegistersConserved
  <2>1. OneOwnerEach(Renamed)
    BY OwnedMeans DEF OwnInv
  <2>2. HeldBy(Renamed) = HeldBy(Window)
    <3>1. /\ DOMAIN Renamed = DOMAIN Window
          /\ \A k \in DOMAIN Renamed : Given(Window[k]) = Given(Renamed[k])
      BY Holding DEF Window
    <3>2. \A p : p \in HeldBy(Renamed) <=> p \in HeldBy(Window)
      BY <3>1, Holding
    <3> QED
      BY <3>2
  <2>3. PhysicalRegs \subseteq HeldBy(Window) \cup FreePhysicalRegs
    BY FreeIsElements DEF FlowInv, AllHeld
  <2>4. FreePhysicalRegs \subseteq PhysicalRegs
    BY ElementOfSeq, LenProperties DEF FreePhysicalRegs, TypeInv, RenameTypes, ListType
  <2>5. HeldBy(Window) \subseteq PhysicalRegs
    BY Holding DEF OwnInv, Owned
  <2> QED
    BY <2>1, <2>2, <2>3, <2>4, <2>5
<1> QED
  BY <1>1, FlowAlways, PTL

\* What LastWriter makes of a set of writers.
GreatestOf(S) == IF S = {} THEN 0 ELSE CHOOSE k \in S : \A j \in S : j <= k

\* The names in the window are what NamesLastWriter finds among the instructions.
LEMMA SameNames ==
  ASSUME NEW a, NEW w \in Seq(NameRecords), DOMAIN a = DOMAIN w,
         \A k \in DOMAIN w : w[k] = NamesOf(a[k]), NEW r, NEW p
  PROVE  NamesLastWriter(a, r, p) <=> NamesLastWriter(w, r, p)
<1>1. {k \in DOMAIN a : Writes(a[k], r)} = {k \in DOMAIN w : Writes(w[k], r)}
  BY NamesWrite
<1>2. LastWriter(a, r) = LastWriter(w, r)
  <2>1. LastWriter(a, r) = GreatestOf({k \in DOMAIN a : Writes(a[k], r)})
    BY DEF LastWriter, GreatestOf
  <2>2. LastWriter(w, r) = GreatestOf({k \in DOMAIN w : Writes(w[k], r)})
    BY DEF LastWriter, GreatestOf
  <2> QED
    BY <1>1, <2>1, <2>2
<1>3. LastWriter(w, r) # 0 => LastWriter(w, r) \in DOMAIN w
  <2> DEFINE writers == {k \in DOMAIN w : Writes(w[k], r)}
  <2>1. CASE writers = {}
    BY <2>1 DEF LastWriter
  <2>2. CASE writers # {}
    <3>1. Len(w) \in Nat /\ DOMAIN w = 1 .. Len(w)
      BY LenProperties
    <3>2. \E k \in writers : \A j \in writers : j <= k
      <4>1. writers \in SUBSET (1 .. Len(w))
        BY <3>1
      <4> QED
        BY <2>2, <3>1, <4>1, GreatestElement
    <3>3. LastWriter(w, r) \in writers
      BY <2>2, <3>2 DEF LastWriter
    <3> QED
      BY <3>3
  <2> QED
    BY <2>1, <2>2
<1>4. LastWriter(w, r) # 0 =>
        RegisterFor(w[LastWriter(w, r)], r) = RegisterFor(a[LastWriter(w, r)], r)
  BY <1>3, NamesWrite
<1> QED
  BY <1>2, <1>4 DEF NamesLastWriter

\* As long as a renamed writer of a register has not committed, the rename table names what
\* the youngest of them was given.
THEOREM TableInOrder ==
  ASSUME BitwiseIsInt PROVE Spec /\ []Undisturbed => []TableNamesYoungest
<1>1. TypeInv /\ RoBInv /\ FlowInv => TableNamesYoungest
  <2> SUFFICES ASSUME TypeInv, RoBInv, FlowInv, NEW r \in ProgramRegisters
               PROVE  NamesLastWriter(Renamed, r, renameTable[r])
    BY DEF TableNamesYoungest
  <2>1. Window \in Seq(NameRecords)
    BY WindowIs DEF WindowContents
  <2>2. DOMAIN Renamed = DOMAIN Window /\ \A k \in DOMAIN Window : Window[k] = NamesOf(Renamed[k])
    BY DEF Window
  <2>3. NamesLastWriter(Window, r, renameTable[r])
    BY <2>1, NamesMeans DEF FlowInv, Tabled
  <2> QED
    BY <2>1, <2>2, <2>3, SameNames
<1> QED
  BY <1>1, FlowAlways, PTL

\* Sources name what Names says, seen in the first n of the window.
LEMMA FirstOnes ==
  ASSUME NEW w \in Seq(NameRecords), NEW n \in 1 .. Len(w), NEW r, NEW p
  PROVE  /\ SubSeq(w, 1, n - 1) \in Seq(NameRecords)
         /\ NamesLastWriter(SubSeq(w, 1, n - 1), r, p) <=> Names(w, n - 1, r, p)
<1> DEFINE v == SubSeq(w, 1, n - 1)
<1>1. /\ n \in Nat /\ n >= 1 /\ n <= Len(w) /\ Len(w) \in Nat /\ DOMAIN w = 1 .. Len(w)
      /\ \A k \in 1 .. n - 1 : k \in 1 .. Len(w)
  BY LenProperties
<1>2. \A k \in 1 .. n - 1 : w[k] \in NameRecords
  BY <1>1, ElementOfSeq
<1>3. /\ v \in Seq(NameRecords)
      /\ Len(v) = IF 1 <= n - 1 THEN (n - 1) - 1 + 1 ELSE 0
      /\ \A k \in 1 .. (n - 1) - 1 + 1 : v[k] = w[1 + k - 1]
  BY <1>1, <1>2, SubSeqProperties
<1> HIDE DEF v
<1>4. Len(v) = n - 1 /\ \A k \in 1 .. n - 1 : v[k] = w[k]
  BY <1>1, <1>3
<1>5. NamesLastWriter(v, r, p) <=> Names(v, n - 1, r, p)
  BY <1>3, <1>4, NamesMeans
<1>6. \A k \in 1 .. n - 1 : LastToWrite(v, n - 1, k, r) <=> LastToWrite(w, n - 1, k, r)
  <2> SUFFICES ASSUME NEW k \in 1 .. n - 1
               PROVE  LastToWrite(v, n - 1, k, r) <=> LastToWrite(w, n - 1, k, r)
    OBVIOUS
  <2>1. \A j \in k + 1 .. n - 1 : v[j] = w[j]
    BY <1>1, <1>4
  <2> QED
    BY <1>4, <2>1 DEF LastToWrite
<1>7. Names(v, n - 1, r, p) <=> Names(w, n - 1, r, p)
  BY <1>4, <1>6 DEF Names
<1> QED
  BY <1>3, <1>5, <1>7 DEF v

\* The sources of every renamed instruction name the registers their producers were given:
\* what an instruction reads is what sequential execution would have it read.
THEOREM SourcesInOrder ==
  ASSUME BitwiseIsInt PROVE Spec /\ []Undisturbed => []SourcesNameProducers
<1>1. TypeInv /\ RoBInv /\ FlowInv => SourcesNameProducers
  <2> SUFFICES ASSUME TypeInv, RoBInv, FlowInv, NEW n \in DOMAIN Renamed
               PROVE  NamesItsProducers(Renamed[n], SubSeq(Renamed, 1, n - 1))
    BY DEF SourcesNameProducers
  <2> DEFINE i == Renamed[n]
             a == SubSeq(Renamed, 1, n - 1)
             v == SubSeq(Window, 1, n - 1)
  <2>1. /\ Window \in Seq(NameRecords) /\ Renamed \in Seq(Instrs)
        /\ Len(Window) = WindowLength /\ Len(Renamed) = WindowLength /\ WindowLength \in Nat
        /\ DOMAIN Renamed = 1 .. WindowLength
    BY WindowIs, WindowTypes, RenamedIs DEF WindowContents, WindowShape
  <2>2. \A k \in 1 .. WindowLength : Window[k] = NamesOf(Renamed[k])
    BY <2>1 DEF Window
  <2>3. n \in Nat /\ n >= 1 /\ n <= WindowLength
    BY <2>1
  <2>4. /\ DOMAIN a = 1 .. n - 1
        /\ \A k \in 1 .. n - 1 : a[k] = Renamed[k]
    <3>1. \A k \in 1 .. n - 1 : Renamed[k] \in Instrs
      BY <2>1, <2>3, ElementOfSeq
    <3>2. /\ a \in Seq(Instrs)
          /\ Len(a) = IF 1 <= n - 1 THEN (n - 1) - 1 + 1 ELSE 0
          /\ \A k \in 1 .. (n - 1) - 1 + 1 : a[k] = Renamed[1 + k - 1]
      BY <2>3, <3>1, SubSeqProperties
    <3>3. DOMAIN a = 1 .. Len(a)
      BY <3>2, LenProperties
    <3> HIDE DEF a
    <3> QED
      BY <2>3, <3>2, <3>3
  <2>5. /\ DOMAIN v = 1 .. n - 1 /\ v \in Seq(NameRecords)
        /\ \A k \in 1 .. n - 1 : v[k] = Window[k]
    <3>1. \A k \in 1 .. n - 1 : Window[k] \in NameRecords
      BY <2>1, <2>3, ElementOfSeq
    <3>2. /\ v \in Seq(NameRecords)
          /\ Len(v) = IF 1 <= n - 1 THEN (n - 1) - 1 + 1 ELSE 0
          /\ \A k \in 1 .. (n - 1) - 1 + 1 : v[k] = Window[1 + k - 1]
      BY <2>3, <3>1, SubSeqProperties
    <3>3. DOMAIN v = 1 .. Len(v)
      BY <3>2, LenProperties
    <3> HIDE DEF v
    <3> QED
      BY <2>3, <3>2, <3>3
  <2>6. \A r, p : NamesLastWriter(v, r, p) <=> Names(Window, n - 1, r, p)
    BY <2>1, FirstOnes
  <2> HIDE DEF a, v
  <2>7. DOMAIN a = DOMAIN v /\ \A k \in DOMAIN v : v[k] = NamesOf(a[k])
    <3>1. \A k \in 1 .. n - 1 : k \in 1 .. WindowLength
      BY <2>1, <2>3
    <3> QED
      BY <2>2, <2>4, <2>5, <3>1
  <2>8. \A r, p : NamesLastWriter(a, r, p) <=> NamesLastWriter(v, r, p)
    BY <2>5, <2>7, SameNames
  <2>9. /\ Window[n].opcode \in Source1Ops => Names(Window, n - 1, Window[n].rs1, Window[n].phyrs1)
        /\ Window[n].opcode \in Source2Ops => Names(Window, n - 1, Window[n].rs2, Window[n].phyrs2)
    BY <2>1 DEF FlowInv, Sourced
  <2>10. /\ Window[n].opcode = i.opcode /\ Window[n].rs1 = i.rs1 /\ Window[n].rs2 = i.rs2
         /\ Window[n].phyrs1 = i.phyrs1 /\ Window[n].phyrs2 = i.phyrs2
    BY <2>1, <2>2 DEF NamesOf
  <2> HIDE DEF i
  <2>11. NamesItsProducers(i, a)
    BY <2>6, <2>8, <2>9, <2>10 DEF NamesItsProducers
  <2> QED
    BY <2>11 DEF i, a
<1> QED
  BY <1>1, FlowAlways, PTL

(***************************************************************************)
(* Renaming implements its specification.                                  *)
(***************************************************************************)
\* A window's stretches, as subsequences.
LEMMA Subsequences ==
  ASSUME NEW w \in Seq(NameRecords), NEW v \in Seq(NameRecords), NEW n \in Nat, n = Len(v)
  PROVE  /\ (\A k \in 1 .. n : v[k] = w[k]) /\ n <= Len(w) => v = SubSeq(w, 1, n)
         /\ (\A k \in 1 .. n : v[k] = w[k + 1]) /\ Len(w) = n + 1 => v = Tail(w)
<1>1. Len(w) \in Nat /\ DOMAIN w = 1 .. Len(w) /\ DOMAIN v = 1 .. n
  BY LenProperties
<1>2. ASSUME \A k \in 1 .. n : v[k] = w[k], n <= Len(w) PROVE v = SubSeq(w, 1, n)
  <2> DEFINE u == SubSeq(w, 1, n)
  <2>1. \A k \in 1 .. n : w[k] \in NameRecords
    BY <1>1, <1>2, ElementOfSeq
  <2>2. /\ u \in Seq(NameRecords)
        /\ Len(u) = IF 1 <= n THEN n - 1 + 1 ELSE 0
        /\ \A k \in 1 .. n - 1 + 1 : u[k] = w[1 + k - 1]
    BY <2>1, SubSeqProperties
  <2> HIDE DEF u
  <2>3. Len(u) = n /\ \A k \in 1 .. n : u[k] = v[k]
    BY <1>2, <2>2
  <2>4. v = u
    BY <2>2, <2>3, SeqEqual
  <2> QED
    BY <2>4 DEF u
<1>3. ASSUME \A k \in 1 .. n : v[k] = w[k + 1], Len(w) = n + 1 PROVE v = Tail(w)
  <2>1. w # << >>
    <3>1. w = << >> => Len(w) = 0
      OBVIOUS
    <3> QED
      BY <1>3, <3>1
  <2>2. /\ Tail(w) \in Seq(NameRecords) /\ Len(Tail(w)) = Len(w) - 1
        /\ \A k \in 1 .. Len(Tail(w)) : Tail(w)[k] = w[k + 1]
    BY <2>1, HeadTailProperties
  <2>3. Len(Tail(w)) = n
    BY <1>3, <2>2
  <2> QED
    BY <1>3, <2>2, <2>3, SeqEqual
<1> QED
  BY <1>2, <1>3

\* The instance speaks of the same registers, opcodes and producers.
LEMMA SameVocabulary ==
  /\ Renamer!PhysicalRegs = PhysicalRegs /\ Renamer!FlagOps = FlagOps
  /\ \A i : Renamer!Given(i) = Given(i)
  /\ \A w : Renamer!HeldBy(w) = HeldBy(w)
  /\ \A i, w : Renamer!NamesItsProducers(i, w) <=> NamesItsProducers(i, w)
<1>1. Renamer!PhysicalRegs = PhysicalRegs
  BY DEF Renamer!PhysicalRegs, PhysicalRegs
<1>2. /\ Renamer!FlagOps = FlagOps /\ Renamer!DestinationOps = DestinationOps
      /\ Renamer!PointerOps = PointerOps /\ Renamer!Source1Ops = Source1Ops
      /\ Renamer!Source2Ops = Source2Ops
  <2>1. /\ Renamer!Alu2Ops = Alu2Ops /\ Renamer!AluLiteralOps = AluLiteralOps
        /\ Renamer!LoadOps = LoadOps /\ Renamer!StoreOps = StoreOps
        /\ Renamer!JumpOps = JumpOps /\ Renamer!PointerOps = PointerOps
    BY DEF Renamer!Alu2Ops, Alu2Ops, Renamer!AluLiteralOps, AluLiteralOps, Renamer!LoadOps,
           LoadOps, Renamer!StoreOps, StoreOps, Renamer!JumpOps, JumpOps, Renamer!PointerOps,
           PointerOps
  <2>2. Renamer!MemoryOps = MemoryOps
    BY <2>1 DEF Renamer!MemoryOps, MemoryOps
  <2> QED
    BY <2>1, <2>2 DEF Renamer!FlagOps, FlagOps, Renamer!DestinationOps, DestinationOps,
                      Renamer!Source1Ops, Source1Ops, Renamer!Source2Ops, Source2Ops
<1>3. \A i : Renamer!Given(i) = Given(i)
  BY <1>2 DEF Renamer!Given, Given
<1>4. \A w : Renamer!HeldBy(w) = HeldBy(w)
  BY <1>3 DEF Renamer!HeldBy, HeldBy
<1>5. \A i, r : /\ Renamer!Writes(i, r) <=> Writes(i, r)
                /\ Renamer!RegisterFor(i, r) = RegisterFor(i, r)
  BY <1>2 DEF Renamer!Writes, Writes, Renamer!RegisterFor, RegisterFor, Renamer!Advances,
              Advances, Renamer!PointerOf, PointerOf
<1>6. \A w, r : Renamer!LastWriter(w, r) = LastWriter(w, r)
  <2> SUFFICES ASSUME NEW w, NEW r PROVE Renamer!LastWriter(w, r) = LastWriter(w, r)
    OBVIOUS
  <2>1. {k \in DOMAIN w : Renamer!Writes(w[k], r)} = {k \in DOMAIN w : Writes(w[k], r)}
    BY <1>5
  <2>2. Renamer!LastWriter(w, r) = GreatestOf({k \in DOMAIN w : Renamer!Writes(w[k], r)})
    BY DEF Renamer!LastWriter, GreatestOf
  <2>3. LastWriter(w, r) = GreatestOf({k \in DOMAIN w : Writes(w[k], r)})
    BY DEF LastWriter, GreatestOf
  <2> QED
    BY <2>1, <2>2, <2>3
<1>7. \A w, r, p : Renamer!NamesLastWriter(w, r, p) <=> NamesLastWriter(w, r, p)
  BY <1>5, <1>6 DEF Renamer!NamesLastWriter, NamesLastWriter
<1>8. \A i, w : Renamer!NamesItsProducers(i, w) <=> NamesItsProducers(i, w)
  BY <1>2, <1>7 DEF Renamer!NamesItsProducers, NamesItsProducers
<1> QED
  BY <1>1, <1>2, <1>3, <1>4, <1>8

\* The oldest instruction commits.
LEMMA RetiresInOrder ==
  ASSUME TypeInv, RoBInv, TypeInv', RoBInv', Retires
  PROVE  Renamer!Retire
<1>1. PICK n \in Nat : n = Len(Window') /\ Len(Window) = n + 1
  BY FirstRetired
<1>2. /\ Window \in Seq(NameRecords) /\ Window' \in Seq(NameRecords)
      /\ \A k \in 1 .. n : Window'[k] = Window[k + 1]
  BY <1>1, FirstRetired
<1>3. Window # << >>
  <2>1. Window = << >> => Len(Window) = 0
    OBVIOUS
  <2> QED
    BY <1>1, <2>1
<1>4. Window' = Tail(Window)
  BY <1>1, <1>2, Subsequences
<1> QED
  BY <1>3, <1>4 DEF Renamer!Retire

\* A DIV that dispatch drops is the youngest.
LEMMA DropsInOrder ==
  ASSUME TypeInv, RoBInv, TypeInv', RoBInv', Drops
  PROVE  Renamer!DropDIV
<1>1. PICK n \in Nat : n = Len(Window') /\ Len(Window) = n + 1
  BY LastDropped
<1>2. /\ Window \in Seq(NameRecords) /\ Window' \in Seq(NameRecords)
      /\ \A k \in 1 .. n : Window'[k] = Window[k]
      /\ Window[Len(Window)].opcode = "DIV"
  BY <1>1, LastDropped
<1>3. Window # << >>
  <2>1. Window = << >> => Len(Window) = 0
    OBVIOUS
  <2> QED
    BY <1>1, <2>1
<1>4. Len(Window) - 1 = n /\ n <= Len(Window)
  BY <1>1
<1>5. Window' = SubSeq(Window, 1, n)
  BY <1>1, <1>2, <1>4, Subsequences
<1> QED
  BY <1>2, <1>3, <1>4, <1>5 DEF Renamer!DropDIV

\* What decode has renamed may enter the window behind all the others.
LEMMA JoinsInOrder ==
  ASSUME TypeInv, RoBInv, TypeInv', RoBInv', OwnInv, FlowInv, NEW i \in Instrs, Joins(i)
  PROVE  Renamer!Rename
<1> DEFINE w == Window
           e == NamesOf(i)
<1>1. /\ w \in Seq(NameRecords) /\ e \in NameRecords /\ Window' = Append(w, e)
  BY WindowIs, NamesOfType DEF WindowContents, Joins
<1>2. /\ e.opcode = i.opcode /\ e.rs1 = i.rs1 /\ e.rs2 = i.rs2 /\ e.phyrs1 = i.phyrs1
      /\ e.phyrs2 = i.phyrs2 /\ e.flag = i.flag /\ e.phyrd = i.phyrd /\ e.phyrs3 = i.phyrs3
      /\ Given(e) = Given(i)
  BY Holding DEF NamesOf
<1>3. /\ Given(i) \subseteq Elements(freePhysicalRegList)
      /\ i.opcode = "LOADP" => i.phyrd # i.phyrs3
      /\ i.opcode \in FlagOps => freeCCFlagsRegList # << >> /\ i.flag = Head(freeCCFlagsRegList)
      /\ i.opcode \in Source1Ops => i.phyrs1 = renameTable[i.rs1]
      /\ i.opcode \in Source2Ops => i.phyrs2 = renameTable[i.rs2]
  BY DEF Joins, Enters
<1>4. Given(e) \subseteq PhysicalRegs \ HeldBy(w)
  <2>1. Elements(freePhysicalRegList) \subseteq PhysicalRegs
    BY ElementOfSeq, LenProperties DEF Elements, TypeInv, RenameTypes, ListType
  <2>2. HeldBy(w) \cap Elements(freePhysicalRegList) = {}
    <3>1. \A k \in DOMAIN w : Given(w[k]) \cap Elements(freePhysicalRegList) = {}
      BY FreeIsElements DEF OwnInv, Owned
    <3> QED
      BY <3>1, Holding
  <2> QED
    BY <1>2, <1>3, <2>1, <2>2
<1>5. e.opcode \in FlagOps =>
        \A k \in DOMAIN w : w[k].opcode \in FlagOps => w[k].flag # e.flag
  <2> SUFFICES ASSUME i.opcode \in FlagOps, NEW k \in DOMAIN w, w[k].opcode \in FlagOps
               PROVE  w[k].flag # i.flag
    BY <1>2
  <2>1. i.flag \in Elements(freeCCFlagsRegList)
    <3>1. freeCCFlagsRegList \in Seq(CCRegs)
      BY DEF TypeInv, RenameTypes, CCListType
    <3>2. Distinct(freeCCFlagsRegList)
      BY DEF FlowInv, FlagsOwned
    <3> QED
      BY <1>3, <3>1, <3>2, HeadTaken
  <2> QED
    BY <2>1 DEF FlowInv, FlagsOwned, Setters
<1>6. NamesItsProducers(e, w)
  <2>1. e.rs1 \in ProgramRegisters /\ e.rs2 \in ProgramRegisters
    BY <1>1 DEF NameRecords
  <2>2. \A r \in ProgramRegisters : NamesLastWriter(w, r, renameTable[r])
    BY <1>1, NamesMeans DEF FlowInv, Tabled
  <2> QED
    BY <1>2, <1>3, <2>1, <2>2 DEF NamesItsProducers
<1>7. PICK n \in Nat : n = Len(w)
  BY <1>1, LenProperties
<1>8. /\ Len(Append(w, e)) = n + 1 /\ Append(w, e)[n + 1] = e
      /\ \A k \in 1 .. n : w[k] = Append(w, e)[k]
      /\ Append(w, e) \in Seq(NameRecords) /\ n <= n + 1
  BY <1>1, <1>7, AppendProperties
<1>9. w = SubSeq(Append(w, e), 1, n)
  BY <1>1, <1>7, <1>8, Subsequences
<1> HIDE DEF w, e
<1>10. Renamer!MayEnter(e, w)
  <2>1. Renamer!Given(e) \subseteq Renamer!PhysicalRegs \ Renamer!HeldBy(w)
    BY <1>4, SameVocabulary
  <2>2. Renamer!NamesItsProducers(e, w)
    BY <1>6, SameVocabulary
  <2> QED
    BY <1>2, <1>3, <1>5, <2>1, <2>2, SameVocabulary DEF Renamer!MayEnter
<1>11. Window = w
  BY DEF w
<1> QED
  BY <1>1, <1>7, <1>8, <1>9, <1>10, <1>11 DEF Renamer!Rename

\* Without squashes and without a register or a queue running out, decode, dispatch and
\* commit implement renaming: each instruction enters the window with registers nobody else
\* has and sources that name their producers, and leaves it in program order.
THEOREM RenamingImplemented ==
  ASSUME BitwiseIsInt PROVE Spec /\ []Undisturbed => RenamesInOrder
<1>1. TypeInv /\ RoBInv /\ Init => Renamer!RenamingInit
  <2> SUFFICES ASSUME TypeInv, RoBInv, Init PROVE Window = << >>
    BY DEF Renamer!RenamingInit
  <2>1. WindowLength = 0
    BY DEF Init, APEX_cpu_init, EmptyLatch, EmptyStallLatch, WindowLength, InBuffer, Committed,
           Waiting
  <2>2. Window \in Seq(NameRecords) /\ Len(Window) = 0
    BY <2>1, WindowIs DEF WindowContents
  <2> QED
    BY <2>2, EmptySeq
<1>2. /\ TypeInv /\ RoBInv /\ TypeInv' /\ RoBInv' /\ Undisturbed /\ Undisturbed'
      /\ OwnInv /\ FlowInv /\ [Next]_vars
      => [Renamer!RenamingNext]_Window
  <2> SUFFICES ASSUME TypeInv, RoBInv, TypeInv', RoBInv', Undisturbed, Undisturbed',
                      OwnInv, FlowInv, [Next]_vars
               PROVE  [Renamer!RenamingNext]_Window
    OBVIOUS
  <2>1. Stays \/ Retires \/ Drops \/ \E i \in Instrs : Joins(i)
    BY FlowInvStep
  <2>2. CASE Stays
    BY <2>2 DEF Stays
  <2>3. CASE Retires
    BY <2>3, RetiresInOrder DEF Renamer!RenamingNext
  <2>4. CASE Drops
    BY <2>4, DropsInOrder DEF Renamer!RenamingNext
  <2>5. CASE \E i \in Instrs : Joins(i)
    BY <2>5, JoinsInOrder DEF Renamer!RenamingNext
  <2> QED
    BY <2>1, <2>2, <2>3, <2>4, <2>5
<1>3. Spec => []TypeInv /\ []RoBInv
  BY TypeInvAlways, RoBInvAlways, PTL
<1> QED
  BY <1>1, <1>2, <1>3, FlowAlways, PTL DEF Spec, RenamesInOrder, Renamer!RenamingSpec

(***************************************************************************)
(* Flags registers.                                                        *)
(***************************************************************************)
\* No instruction compares registers: CMP is the one whose flags register commit never frees.
NoCompare ==
  /\ \A k \in DOMAIN code_memory : code_memory[k].opcode # "CMP"
  /\ decode_rename1.instr.opcode # "CMP"
  /\ \A k \in DOMAIN Window : Window[k].opcode # "CMP"

\* What decode holds comes from the program, and the window from decode.
LEMMA NoCompareStep ==
  ASSUME TypeInv, RoBInv, TypeInv', RoBInv', OwnInv, Undisturbed, NoCompare, [Next]_vars,
         Stays \/ Retires \/ Drops \/ \E i \in Instrs : Joins(i)
  PROVE  NoCompare'
<1>1. \A k \in DOMAIN code_memory' : code_memory'[k].opcode # "CMP"
  <2>1. CASE CommitStage \/ CommitBelowZero \/ MAUStage \/ MAUOutOfBounds \/ MulFUStage
    BY <2>1 DEF CommitStage, CommitBelowZero, MAUStage, MAUOutOfBounds, MulFUStage,
                BecomesUndefined, NoCompare
  <2>2. CASE BFUStage \/ AFUStage \/ IntFUStage \/ IssueStage \/ DispatchStage
    BY <2>2 DEF BFUStage, AFUStage, IntFUStage, IssueStage, DispatchStage, NoCompare
  <2>3. CASE DecodeStage \/ DecodeOutOfBounds \/ FetchStage \/ FetchOutOfBounds
    BY <2>3 DEF DecodeStage, DecodeOutOfBounds, FetchStage, FetchOutOfBounds, BecomesUndefined,
                NoCompare
  <2>4. CASE SquashTail \/ SquashEnds \/ UNCHANGED vars
    BY <2>4 DEF SquashTail, SquashEnds, vars, NoCompare
  <2> QED
    BY <2>1, <2>2, <2>3, <2>4 DEF Next
<1>2. decode_rename1'.instr.opcode # "CMP"
  <2>1. CASE UNCHANGED decode_rename1
    BY <2>1 DEF NoCompare
  <2>2. CASE CommitStage \/ CommitBelowZero \/ MAUStage \/ MAUOutOfBounds \/ MulFUStage
    BY <2>1, <2>2 DEF CommitStage, CommitBelowZero, MAUStage, MAUOutOfBounds, MulFUStage,
                BecomesUndefined, frontVars
  <2>3. CASE BFUStage \/ AFUStage \/ IntFUStage \/ IssueStage \/ DispatchStage
    BY <2>1, <2>3 DEF BFUStage, AFUStage, IntFUStage, IssueStage, DispatchStage, frontVars
  <2>4. CASE DecodeOutOfBounds \/ FetchOutOfBounds \/ SquashTail \/ SquashEnds \/ UNCHANGED vars
    BY <2>1, <2>4 DEF DecodeOutOfBounds, FetchOutOfBounds, SquashTail, SquashEnds, vars,
                BecomesUndefined, frontVars
  <2>5. CASE DecodeStage
    <3>1. CASE ~decode_rename1.has_insn
      BY <2>1, <2>5, <3>1 DEF DecodeStage
    <3>2. CASE decode_rename1.has_insn
      <4>1. PICK i \in Instrs : Enters(i)
        BY <2>5, <3>2, DecodeRenames DEF OwnInv, Undisturbed
      <4> QED
        BY <4>1 DEF Enters, NoCompare
    <3> QED
      BY <3>1, <3>2
  <2>6. CASE FetchStage
    <3>1. fetch => FetchedInstr.opcode # "CMP"
      <4> SUFFICES ASSUME fetch PROVE FetchedInstr.opcode # "CMP"
        OBVIOUS
      <4> DEFINE k == CodeIndex(pc) + 1
      <4>1. CodeIndex(pc) \in 0 .. Len(code_memory) - 1
        BY <2>6 DEF FetchStage, InCode
      <4>2. Len(code_memory) \in Nat /\ DOMAIN code_memory = 1 .. Len(code_memory)
        BY LenProperties DEF TypeInv, ProgramTypes
      <4>3. k \in DOMAIN code_memory
        BY <4>1, <4>2
      <4>4. FetchedInstr.opcode = code_memory[k].opcode
        BY DEF FetchedInstr, Fetched
      <4> QED
        BY <4>3, <4>4 DEF NoCompare
    <3>2. \/ decode_rename1' = decode_rename1
          \/ fetch /\ decode_rename1' = DecodeAfterFetch
          \/ /\ fetch
             /\ decode_rename1' = [DecodeAfterFetch EXCEPT !.has_insn = FALSE, !.stall = FALSE]
      BY <2>6 DEF FetchStage, EmptyLatches, frontVars
    <3>3. decode_rename1 \in StallLatches
      BY DEF TypeInv, FrontTypes
    <3>4. fetch => DecodeAfterFetch.instr.opcode # "CMP"
      BY <3>1 DEF DecodeAfterFetch, NoCompare
    <3>5. LET l == [DecodeAfterFetch EXCEPT !.has_insn = FALSE, !.stall = FALSE]
          IN  l.instr = DecodeAfterFetch.instr
      BY <3>3 DEF DecodeAfterFetch, StallLatches
    <3> QED
      BY <3>2, <3>4, <3>5 DEF NoCompare
  <2> QED
    BY <2>2, <2>3, <2>4, <2>5, <2>6 DEF Next
<1>3. \A k \in DOMAIN Window' : Window'[k].opcode # "CMP"
  <2>1. CASE Stays
    BY <2>1 DEF Stays, NoCompare
  <2>2. CASE Retires
    BY <2>2 DEF Retires, Stretch, NoCompare
  <2>3. CASE Drops
    BY <2>3 DEF Drops, LosesLast, Stretch, NoCompare
  <2>4. CASE \E i \in Instrs : Joins(i)
    <3>1. PICK i \in Instrs : Joins(i)
      BY <2>4
    <3>2. NamesOf(i).opcode # "CMP"
      BY <3>1 DEF Joins, Enters, NamesOf, NoCompare
    <3>3. /\ Window \in Seq(NameRecords) /\ NamesOf(i) \in NameRecords
          /\ Window' = Append(Window, NamesOf(i))
      BY <3>1, WindowIs, NamesOfType DEF WindowContents, Joins
    <3> DEFINE n == NamesOf(i)
               v == Append(Window, n)
    <3> HIDE DEF n
    <3>4. /\ \A k \in DOMAIN Window : v[k] = Window[k]
          /\ v[Len(Window) + 1] = n
          /\ \A k \in DOMAIN v : k \in DOMAIN Window \/ k = Len(Window) + 1
      BY <3>3, Grown DEF n
    <3>5. n.opcode # "CMP" /\ Window' = v
      BY <3>2, <3>3 DEF n
    <3> HIDE DEF v
    <3> QED
      BY <3>4, <3>5 DEF NoCompare
  <2> QED
    BY <2>1, <2>2, <2>3, <2>4
<1> QED
  BY <1>1, <1>2, <1>3 DEF NoCompare

\* In a program without CMP, and without squashes and without a register or a queue running
\* out, no flags register is lost or shared: each is on the free list once, or belongs to
\* one renamed instruction that sets flags.
THEOREM FlagsConservation ==
  ASSUME BitwiseIsInt, \A p \in Programs : \A k \in DOMAIN p : p[k].opcode # "CMP"
  PROVE  Spec /\ []Undisturbed => []CCConserved
<1> DEFINE FlagsInv == NoCompare /\ AllFlagsHeld(Window, freeCCFlagsRegList)
<1>1. TypeInv /\ RoBInv /\ Init => FlagsInv
  <2> SUFFICES ASSUME TypeInv, RoBInv, Init PROVE FlagsInv
    OBVIOUS
  <2>1. DOMAIN Window = {}
    <3>1. WindowLength = 0
      BY DEF Init, APEX_cpu_init, EmptyLatch, EmptyStallLatch, WindowLength, InBuffer, Committed,
             Waiting
    <3>2. DOMAIN Window = 1 .. WindowLength
      BY WindowIs DEF WindowContents
    <3> QED
      BY <3>1, <3>2
  <2>2. NoCompare
    BY <2>1 DEF NoCompare, Init, APEX_cpu_init, EmptyStallLatch, NoInstr, Fetched
  <2>3. AllFlagsHeld(Window, freeCCFlagsRegList)
    <3> SUFFICES ASSUME NEW c \in CCRegs PROVE c \in Elements(freeCCFlagsRegList)
      BY DEF AllFlagsHeld
    <3>1. /\ DOMAIN freeCCFlagsRegList = 1 .. CC_REG_FILE_SIZE
          /\ \A k \in 1 .. CC_REG_FILE_SIZE : freeCCFlagsRegList[k] = k - 1
      BY DEF Init, APEX_cpu_init
    <3>2. c + 1 \in 1 .. CC_REG_FILE_SIZE /\ (c + 1) - 1 = c
      BY SizesAssumption DEF CCRegs
    <3>3. freeCCFlagsRegList[c + 1] = c
      BY <3>1, <3>2
    <3> QED
      BY <3>1, <3>2, <3>3 DEF Elements
  <2> QED
    BY <2>2, <2>3
<1>2. /\ TypeInv /\ RoBInv /\ TypeInv' /\ RoBInv' /\ Undisturbed /\ Undisturbed'
      /\ OwnInv /\ FlowInv /\ FlagsInv /\ [Next]_vars
      => FlagsInv'
  <2> SUFFICES ASSUME TypeInv, RoBInv, TypeInv', RoBInv', Undisturbed, Undisturbed',
                      OwnInv, FlowInv, FlagsInv, [Next]_vars
               PROVE  FlagsInv'
    OBVIOUS
  <2>1. Stays \/ Retires \/ Drops \/ \E i \in Instrs : Joins(i)
    BY FlowInvStep
  <2>2. NoCompare'
    BY <2>1, NoCompareStep
  <2>3. AllFlagsHeld(Window', freeCCFlagsRegList')
    BY <2>1, AllFlagsHeldStep DEF FlowInv, NoCompare
  <2>4. AllFlagsHeld(Window, freeCCFlagsRegList)'
    BY <2>3 DEF AllFlagsHeld, Setters, Elements
  <2> QED
    BY <2>2, <2>4
<1>3. TypeInv /\ RoBInv /\ FlowInv /\ FlagsInv => CCConserved
  <2> SUFFICES ASSUME TypeInv, RoBInv, FlowInv, FlagsInv PROVE CCConserved
    OBVIOUS
  <2> DEFINE setters == {k \in DOMAIN Renamed : Renamed[k].opcode \in FlagOps}
             held == {Renamed[k].flag : k \in setters}
             free == {freeCCFlagsRegList[k] : k \in DOMAIN freeCCFlagsRegList}
  <2>1. /\ DOMAIN Renamed = DOMAIN Window
        /\ \A k \in DOMAIN Renamed : /\ Window[k].opcode = Renamed[k].opcode
                                     /\ Window[k].flag = Renamed[k].flag
    BY DEF Window, NamesOf
  <2>2. /\ \A k \in setters : k \in Setters(Window) /\ Window[k].flag = Renamed[k].flag
        /\ \A k \in Setters(Window) : k \in setters /\ Window[k].flag = Renamed[k].flag
    BY <2>1 DEF Setters
  <2>3. freeCCFlagsRegList \in Seq(CCRegs) /\ Distinct(freeCCFlagsRegList)
    BY DEF FlowInv, FlagsOwned, TypeInv, RenameTypes, CCListType
  <2>4. free = Elements(freeCCFlagsRegList)
    BY DEF Elements
  <2>5. Cardinality(free) = Len(freeCCFlagsRegList) /\ free \subseteq CCRegs
    <3>1. Cardinality(Elements(freeCCFlagsRegList)) = Len(freeCCFlagsRegList)
      BY <2>3, DistinctCount
    <3>2. Elements(freeCCFlagsRegList) \subseteq CCRegs
      BY <2>3, ElementOfSeq, LenProperties DEF Elements
    <3> QED
      BY <2>4, <3>1, <3>2
  <2>6. held \subseteq CCRegs
    BY <2>1, RenamedIs, WindowTypes, InstrFields DEF WindowShape
  <2> HIDE DEF setters, free
  <2>7. \A j, k \in setters : j # k => Renamed[j].flag # Renamed[k].flag
    BY <2>2 DEF FlowInv, FlagsOwned
  <2>8. held \cap free = {}
    BY <2>2, <2>4 DEF FlowInv, FlagsOwned
  <2>9. CCRegs \subseteq held \cup free
    BY <2>2, <2>4 DEF AllFlagsHeld
  <2>10. held \cup free = CCRegs
    BY <2>5, <2>6, <2>9
  <2> QED
    BY <2>5, <2>7, <2>8, <2>10 DEF CCConserved, setters, free
<1> HIDE DEF FlagsInv
<1>4. Spec => []TypeInv /\ []RoBInv
  BY TypeInvAlways, RoBInvAlways, PTL
<1> QED
  BY <1>1, <1>2, <1>3, <1>4, FlowAlways, PTL DEF Spec
(***************************************************************************)
(* Programs that fit.  Without branches and with no more instructions than *)
(* the queues have slots, nothing ever disturbs the pipeline: each queue   *)
(* and each latch holds instructions that were fetched, each of them once, *)
(* so what they hold together is at most what has been fetched.            *)
(***************************************************************************)
HowMany(p, ops) == Cardinality({k \in DOMAIN p : p[k].opcode \in ops})

Fits ==
  \A p \in Programs :
    /\ Len(p) <= ROB_SIZE /\ Len(p) <= ISSUE_QUEUE_SIZE
    /\ HowMany(p, MemoryOps) <= LSQ_SIZE
    /\ HowMany(p, DestinationOps) + HowMany(p, PointerOps) <= PHYSICAL_REG_FILE_SIZE

\* The instructions of some kind that have been fetched, and those on their way.
SeenAt(ops, n) == {k \in DOMAIN code_memory : k <= n /\ code_memory[k].opcode \in ops}
Seen(ops) == Cardinality(SeenAt(ops, CodeIndex(pc)))
Held(latch, ops) == IF latch.has_insn /\ latch.instr.opcode \in ops THEN 1 ELSE 0
Behind(ops) == Held(rename2_dispatch, ops) + Held(issue_queue, ops)
OnTheWay(ops) == Behind(ops) + Held(decode_rename1, ops)

\* The registers taken, those that decode's instruction will take, and those that all the
\* fetched instructions need.
Taken == PHYSICAL_REG_FILE_SIZE - Len(freePhysicalRegList)
Taking == Held(decode_rename1, DestinationOps) + Held(decode_rename1, PointerOps)
SeenResults == Seen(DestinationOps) + Seen(PointerOps)

ValidSlots(iq) == {k \in IQSlots : iq[k].valid_bit}

\* What the queues and the latches in front of them hold has been fetched, and so has what
\* took a register off the free list.
BudgetInv ==
  /\ pc >= FIRST_PC
  /\ \A k \in BTBSlots : BTBEntry[k].branch_pc = 0
  /\ ROB_size + OnTheWay(Opcodes) <= Seen(Opcodes)
  /\ Cardinality(ValidSlots(issueQueue)) + OnTheWay(Opcodes) <= Seen(Opcodes)
  /\ LSQ_size + OnTheWay(MemoryOps) <= Seen(MemoryOps)
  /\ Taken + Taking <= SeenResults

\* Counts are natural numbers, bounded by what the whole program has of the kind.
LEMMA SeenBounds ==
  ASSUME TypeInv, NEW ops, NEW n \in Int
  PROVE  /\ IsFiniteSet(SeenAt(ops, n)) /\ Cardinality(SeenAt(ops, n)) \in Nat
         /\ Cardinality(SeenAt(ops, n)) <= HowMany(code_memory, ops)
         /\ HowMany(code_memory, ops) <= Len(code_memory)
         /\ HowMany(code_memory, ops) \in Nat
<1>1. Len(code_memory) \in Nat /\ DOMAIN code_memory = 1 .. Len(code_memory)
  BY DEF TypeInv, ProgramTypes
<1>2. IsFiniteSet(DOMAIN code_memory) /\ Cardinality(DOMAIN code_memory) = Len(code_memory)
  <2>1. ASSUME NEW m \in Nat PROVE IsFiniteSet(1 .. m) /\ Cardinality(1 .. m) = m
    BY FS_Interval
  <2> QED
    BY <1>1, <2>1
<1> DEFINE all == {k \in DOMAIN code_memory : code_memory[k].opcode \in ops}
<1>3. IsFiniteSet(all) /\ Cardinality(all) <= Len(code_memory)
  <2>1. all \in SUBSET DOMAIN code_memory
    OBVIOUS
  <2> QED
    BY <1>2, <2>1, FS_Subset
<1>4. IsFiniteSet(SeenAt(ops, n)) /\ Cardinality(SeenAt(ops, n)) <= Cardinality(all)
  <2>1. SeenAt(ops, n) \in SUBSET all
    BY DEF SeenAt
  <2> QED
    BY <1>3, <2>1, FS_Subset
<1> QED
  BY <1>3, <1>4, FS_CardinalityType DEF HowMany

\* One instruction more has been seen.
LEMMA SeenNext ==
  ASSUME TypeInv, NEW ops, NEW n \in Nat, n + 1 \in DOMAIN code_memory
  PROVE  Cardinality(SeenAt(ops, n + 1))
           = Cardinality(SeenAt(ops, n)) + (IF code_memory[n + 1].opcode \in ops THEN 1 ELSE 0)
<1>1. Len(code_memory) \in Nat /\ DOMAIN code_memory = 1 .. Len(code_memory)
  BY DEF TypeInv, ProgramTypes
<1>2. IsFiniteSet(SeenAt(ops, n)) /\ Cardinality(SeenAt(ops, n)) \in Nat
  BY SeenBounds
<1>3. \A k \in DOMAIN code_memory : k <= n + 1 <=> k <= n \/ k = n + 1
  BY <1>1
<1>4. CASE code_memory[n + 1].opcode \in ops
  <2>1. SeenAt(ops, n + 1) = SeenAt(ops, n) \cup {n + 1}
    BY <1>3, <1>4 DEF SeenAt
  <2>2. n + 1 \notin SeenAt(ops, n)
    BY DEF SeenAt
  <2> QED
    BY <1>2, <1>4, <2>1, <2>2, FS_AddElement
<1>5. CASE code_memory[n + 1].opcode \notin ops
  <2>1. SeenAt(ops, n + 1) = SeenAt(ops, n)
    BY <1>3, <1>5 DEF SeenAt
  <2> QED
    BY <1>2, <1>5, <2>1
<1> QED
  BY <1>4, <1>5

LEMMA HeldBit == \A latch, ops : Held(latch, ops) \in {0, 1}
BY DEF Held

\* An undisturbed state, from the counts.
LEMMA BudgetSuffices ==
  ASSUME TypeInv, RoBInv, LSQInv, QuietInv, OwnInv, BudgetInv, Fits, code_memory \in Programs
  PROVE  Undisturbed
<1>1. /\ Seen(Opcodes) <= ROB_SIZE /\ Seen(Opcodes) <= ISSUE_QUEUE_SIZE
      /\ Seen(MemoryOps) <= LSQ_SIZE
      /\ SeenResults <= PHYSICAL_REG_FILE_SIZE /\ SeenResults \in Nat
      /\ \A ops : Seen(ops) \in Nat
  <2>1. CodeIndex(pc) \in Int
    BY DEF CodeIndex, FIRST_PC, TypeInv, FrontTypes
  <2>2. \A ops : /\ Seen(ops) \in Nat /\ HowMany(code_memory, ops) \in Nat
                 /\ Seen(ops) <= HowMany(code_memory, ops)
                 /\ HowMany(code_memory, ops) <= Len(code_memory)
    BY <2>1, SeenBounds DEF Seen
  <2>3. Len(code_memory) \in Nat
    BY DEF TypeInv, ProgramTypes
  <2> QED
    BY <2>2, <2>3, SizesAssumption DEF Fits, SeenResults
<1>2. /\ ROB_size \in Nat /\ LSQ_size \in Int /\ Len(freePhysicalRegList) \in Nat
      /\ decode_rename1 \in StallLatches /\ rename2_dispatch \in StallLatches
  BY SlotSets, LenProperties DEF TypeInv, LSQTypes, RenameTypes, ListType, RoBInv, RoBContiguous,
     FrontTypes
<1>3. FindsRegisters
  <2> SUFFICES ASSUME stage = "decode", decode_rename1.has_insn
               PROVE  Len(freePhysicalRegList) >= RegistersNeeded(decode_rename1.instr.opcode)
    BY DEF FindsRegisters
  <2>1. Taking = RegistersNeeded(decode_rename1.instr.opcode)
    BY DEF Taking, Held, RegistersNeeded
  <2>2. RegistersNeeded(decode_rename1.instr.opcode) \in Nat
    BY DEF RegistersNeeded
  <2> QED
    BY <1>1, <1>2, <2>1, <2>2, SizesAssumption DEF BudgetInv, Taken
<1>4. FindsRoom
  <2> SUFFICES ASSUME stage = "dispatch", rename2_dispatch.has_insn
               PROVE  RoomFor(rename2_dispatch.instr.opcode, issueQueue, ROB_size, LSQ_size)
    BY DEF FindsRoom
  <2> DEFINE op == rename2_dispatch.instr.opcode
  <2>1. op \in Opcodes /\ op \notin BranchOps
    BY <1>2 DEF StallLatches, Instrs, QuietInv
  <2>2. /\ OnTheWay(Opcodes) >= 1 /\ OnTheWay(Opcodes) \in Nat
        /\ op \in MemoryOps => OnTheWay(MemoryOps) >= 1
        /\ OnTheWay(MemoryOps) \in Nat
    BY <2>1, HeldBit DEF OnTheWay, Behind, Held
  <2>3. ~IsROBFull(ROB_size)
    BY <1>1, <1>2, <2>2, SizesAssumption DEF BudgetInv, IsROBFull
  <2>4. op \in MemoryOps => ~IsLSQFull(LSQ_size)
    BY <1>1, <1>2, <2>2, SizesAssumption DEF BudgetInv, IsLSQFull
  <2>5. ~IsIssueQueueFull(issueQueue)
    <3>1. IsFiniteSet(IQSlots) /\ Cardinality(IQSlots) = ISSUE_QUEUE_SIZE
      BY FS_Interval, SizesAssumption DEF IQSlots
    <3>2. IsFiniteSet(ValidSlots(issueQueue)) /\ Cardinality(ValidSlots(issueQueue)) \in Nat
      BY <3>1, FS_Subset, FS_CardinalityType DEF ValidSlots
    <3>3. Cardinality(ValidSlots(issueQueue)) < ISSUE_QUEUE_SIZE
      BY <1>1, <2>2, <3>2, SizesAssumption DEF BudgetInv
    <3>4. ValidSlots(issueQueue) # IQSlots
      BY <3>1, <3>2, <3>3, SizesAssumption
    <3> QED
      BY <3>4 DEF ValidSlots, IsIssueQueueFull
  <2> QED
    BY <2>1, <2>3, <2>4, <2>5 DEF RoomFor
<1> QED
  BY <1>3, <1>4 DEF Undisturbed, QuietInv


\* Nothing is held, and nothing was seen.
LEMMA BudgetInvInit == TypeInv /\ Init => BudgetInv
<1> SUFFICES ASSUME TypeInv, Init PROVE BudgetInv
  OBVIOUS
<1>1. /\ pc = FIRST_PC /\ \A k \in BTBSlots : BTBEntry[k].branch_pc = 0
      /\ ROB_size = 0 /\ LSQ_size = 0
      /\ ~decode_rename1.has_insn /\ ~rename2_dispatch.has_insn /\ ~issue_queue.has_insn
      /\ \A k \in IQSlots : ~issueQueue[k].valid_bit
      /\ freePhysicalRegList = [k \in 1 .. PHYSICAL_REG_FILE_SIZE |-> k - 1]
  BY DEF Init, APEX_cpu_init, EmptyStallLatch, EmptyLatch, EmptyBTBEntry, EmptyIQEntry
<1>2. \A latch, ops : ~latch.has_insn => Held(latch, ops) = 0
  BY DEF Held
<1>3. (\A ops : OnTheWay(ops) = 0) /\ Taking = 0
  BY <1>1, <1>2 DEF OnTheWay, Behind, Taking
<1>4. Cardinality(ValidSlots(issueQueue)) = 0
  <2>1. ValidSlots(issueQueue) = {}
    BY <1>1 DEF ValidSlots
  <2> QED
    BY <2>1, FS_EmptySet
<1>5. Len(freePhysicalRegList) = PHYSICAL_REG_FILE_SIZE
  <2>1. freePhysicalRegList \in Seq(PhysicalRegs)
    BY DEF TypeInv, RenameTypes, ListType
  <2>2. DOMAIN freePhysicalRegList = 1 .. PHYSICAL_REG_FILE_SIZE
    BY <1>1
  <2> QED
    BY <2>1, <2>2, LenProperties, SizesAssumption
<1>6. \A ops : Seen(ops) \in Nat
  <2>1. CodeIndex(pc) \in Int
    BY DEF CodeIndex, FIRST_PC, TypeInv, FrontTypes
  <2> QED
    BY <2>1, SeenBounds DEF Seen
<1>7. /\ Seen(Opcodes) \in Nat /\ Seen(MemoryOps) \in Nat /\ SeenResults \in Nat
      /\ OnTheWay(Opcodes) = 0 /\ OnTheWay(MemoryOps) = 0
  BY <1>3, <1>6 DEF SeenResults
<1>8. pc >= FIRST_PC
  BY <1>1 DEF FIRST_PC
<1>9. /\ ROB_size + OnTheWay(Opcodes) <= Seen(Opcodes)
      /\ Cardinality(ValidSlots(issueQueue)) + OnTheWay(Opcodes) <= Seen(Opcodes)
      /\ LSQ_size + OnTheWay(MemoryOps) <= Seen(MemoryOps)
  BY <1>1, <1>4, <1>7
<1>10. Taken + Taking <= SeenResults
  BY <1>3, <1>5, <1>7, SizesAssumption DEF Taken
<1> QED
  BY <1>1, <1>8, <1>9, <1>10 DEF BudgetInv

\* Fetch: what enters decode's latch has just been seen.
LEMMA FetchCounts ==
  ASSUME TypeInv, QuietInv, FlowLatches, BudgetInv, FetchStage
  PROVE  /\ pc' >= FIRST_PC
         /\ \A ops : /\ Seen(ops) \in Nat /\ Seen(ops)' \in Nat
                     /\ Seen(ops) <= Seen(ops)'
                     /\ Held(decode_rename1', ops) - Seen(ops)'
                          <= Held(decode_rename1, ops) - Seen(ops)
<1>1. /\ pc \in Int /\ pc >= FIRST_PC /\ code_memory' = code_memory
      /\ decode_rename1 \in StallLatches /\ BFU_pc = -1
  BY DEF TypeInv, FrontTypes, FetchStage, BudgetInv, QuietInv
<1>2. \A n \in Int : \A ops : Cardinality(SeenAt(ops, n)) \in Nat
  BY SeenBounds
<1>3. CodeIndex(pc) \in Nat /\ CodeIndex(pc + 4) = CodeIndex(pc) + 1
  BY <1>1 DEF CodeIndex, FIRST_PC
<1>4. CASE UNCHANGED <<pc, decode_rename1>>
  <2>1. \A ops : Seen(ops)' = Seen(ops)
    BY <1>1, <1>4 DEF Seen, SeenAt, CodeIndex
  <2>2. \A ops : Seen(ops) \in Nat
    BY <1>2, <1>3 DEF Seen
  <2> QED
    BY <1>1, <1>4, <2>1, <2>2, HeldBit
<1>5. CASE ~UNCHANGED <<pc, decode_rename1>>
  <2>1. /\ fetch /\ InCode(pc) /\ decode_rename1' = DecodeAfterFetch
        /\ pc' = IF decode_rename1.stall THEN pc ELSE PredictedPc(FetchedInstr)
    BY <1>1, <1>5 DEF FetchStage, frontVars
  <2>2. ~decode_rename1.stall
    BY <1>5, <2>1 DEF DecodeAfterFetch
  <2>3. LookUp(BTBEntry, pc) = -1
    <3>1. {k \in BTBSlots : BTBEntry[k].branch_pc = pc} = {}
      BY <1>1 DEF BudgetInv, FIRST_PC
    <3> QED
      BY <3>1 DEF LookUp, FirstIndex
  <2>4. CodeIndex(pc) + 1 \in DOMAIN code_memory
    BY <2>1 DEF InCode, TypeInv, ProgramTypes
  <2>5. /\ FetchedInstr.opcode = code_memory[CodeIndex(pc) + 1].opcode
        /\ ~FetchedInstr.taken
    BY <2>3 DEF FetchedInstr, Fetched
  <2>6. pc' = pc + 4
    BY <2>1, <2>2, <2>5 DEF PredictedPc
  <2>7. decode_rename1'.has_insn /\ decode_rename1'.instr = FetchedInstr
    BY <2>1, <2>2 DEF DecodeAfterFetch
  <2>8. ASSUME NEW ops
        PROVE  /\ Seen(ops) \in Nat /\ Seen(ops)' \in Nat
               /\ Seen(ops)' = Seen(ops) + Held(decode_rename1', ops)
    <3>1. Seen(ops) = Cardinality(SeenAt(ops, CodeIndex(pc)))
      BY DEF Seen
    <3>2. Seen(ops)' = Cardinality(SeenAt(ops, CodeIndex(pc) + 1))
      BY <1>1, <1>3, <2>6 DEF Seen, SeenAt, CodeIndex
    <3>3. Held(decode_rename1', ops)
            = IF code_memory[CodeIndex(pc) + 1].opcode \in ops THEN 1 ELSE 0
      BY <2>5, <2>7 DEF Held
    <3>4. Cardinality(SeenAt(ops, CodeIndex(pc) + 1))
            = Cardinality(SeenAt(ops, CodeIndex(pc)))
                + (IF code_memory[CodeIndex(pc) + 1].opcode \in ops THEN 1 ELSE 0)
      BY <1>3, <2>4, SeenNext
    <3> QED
      BY <1>2, <1>3, <3>1, <3>2, <3>3, <3>4
  <2>9. ASSUME NEW ops
        PROVE  /\ Seen(ops) <= Seen(ops)'
               /\ Held(decode_rename1', ops) - Seen(ops)'
                    <= Held(decode_rename1, ops) - Seen(ops)
    <3>1. /\ Seen(ops) \in Nat /\ Seen(ops)' \in Nat
          /\ Seen(ops)' = Seen(ops) + Held(decode_rename1', ops)
      BY <2>8
    <3>2. Held(decode_rename1', ops) \in {0, 1} /\ Held(decode_rename1, ops) \in {0, 1}
      BY HeldBit
    <3> QED
      BY <3>1, <3>2
  <2>10. pc' >= FIRST_PC
    BY <1>1, <2>6 DEF FIRST_PC
  <2> QED
    BY <2>8, <2>9, <2>10
<1> QED
  BY <1>4, <1>5

\* Dispatch: what enters the issue latch was in the dispatch latch.
LEMMA DispatchCounts ==
  ASSUME TypeInv, LatchInv, DispatchStage
  PROVE  \A ops : Behind(ops)' <= Behind(ops)
<1> DEFINE i == ReadPRF(PickUp(rename2_dispatch.instr, bus), physicalRegFile)
<1>1. /\ rename2_dispatch \in StallLatches /\ issue_queue \in Latches
      /\ bus \in BusType /\ physicalRegFile \in PRFType
  BY DEF TypeInv, FrontTypes, FileTypes, ForwardingTypes
<1>2. NamesOf(i) = NamesOf(rename2_dispatch.instr)
  BY <1>1, NamesKept DEF StallLatches
<1>3. i.opcode = rename2_dispatch.instr.opcode
  BY <1>2 DEF NamesOf
<1>4. ~rename2_dispatch'.has_insn /\ ~issue_queue.has_insn
  BY <1>1 DEF DispatchStage, LatchInv, StallLatches
<1>5. \/ issue_queue' = issue_queue
      \/ rename2_dispatch.has_insn /\ issue_queue' = [has_insn |-> TRUE, instr |-> i]
  BY DEF DispatchStage
<1> HIDE DEF i
<1>6. \A ops : Held(issue_queue', ops) <= Held(rename2_dispatch, ops)
  BY <1>3, <1>4, <1>5 DEF Held
<1>7. \A ops : Held(issue_queue, ops) = 0 /\ Held(rename2_dispatch', ops) = 0
  BY <1>4 DEF Held
<1> QED
  BY <1>6, <1>7, HeldBit DEF Behind

\* Decode: what enters the dispatch latch was in decode's.
LEMMA DecodeCounts ==
  ASSUME TypeInv, LatchInv, FlowLatches, DecodeStage, decode_rename1.has_insn,
         NEW i \in Instrs, Enters(i)
  PROVE  /\ ~decode_rename1'.has_insn
         /\ \A ops : Behind(ops)' <= Behind(ops) + Held(decode_rename1, ops)
<1>1. ~rename2_dispatch.has_insn /\ ~rename2_dispatch.stall /\ issue_queue' = issue_queue
  BY DEF DecodeStage, LatchInv, FlowLatches
<1>2. /\ ~decode_rename1'.has_insn /\ rename2_dispatch'.has_insn
      /\ rename2_dispatch'.instr.opcode = decode_rename1.instr.opcode
  BY <1>1 DEF Enters
<1>3. \A ops : /\ Held(rename2_dispatch', ops) = Held(decode_rename1, ops)
               /\ Held(rename2_dispatch, ops) = 0
  BY <1>1, <1>2 DEF Held
<1> QED
  BY <1>1, <1>2, <1>3, HeldBit DEF Behind

\* Decode takes as many registers off the free list as the instruction needs.
LEMMA DecodeTakes ==
  ASSUME TypeInv, TypeInv', Distinct(freePhysicalRegList), decode_rename1.has_insn,
         NEW i \in Instrs, Enters(i)
  PROVE  Len(freePhysicalRegList') = Len(freePhysicalRegList)
           - Held(decode_rename1, DestinationOps) - Held(decode_rename1, PointerOps)
<1> DEFINE F == Elements(freePhysicalRegList)
<1>1. /\ freePhysicalRegList \in Seq(PhysicalRegs) /\ freePhysicalRegList' \in Seq(PhysicalRegs)
      /\ Len(freePhysicalRegList) \in Nat /\ Len(freePhysicalRegList') \in Nat
  BY LenProperties DEF TypeInv, RenameTypes, ListType
<1>2. /\ IsFiniteSet(F) /\ Cardinality(F) = Len(freePhysicalRegList)
  BY <1>1, DistinctCount
<1>3. Distinct(freePhysicalRegList') /\ Elements(freePhysicalRegList') = F \ Given(i)
  BY DEF Enters
<1>4. Cardinality(F \ Given(i)) = Len(freePhysicalRegList')
  BY <1>1, <1>3, DistinctCount
<1>5. /\ Given(i) \subseteq F /\ i.opcode = decode_rename1.instr.opcode
      /\ i.opcode = "LOADP" => i.phyrd # i.phyrs3
  BY DEF Enters
<1>6. i.opcode \in DestinationOps /\ i.opcode \in PointerOps => i.opcode = "LOADP"
  BY DEF DestinationOps, PointerOps, Alu2Ops, AluLiteralOps, LoadOps
<1> HIDE DEF F
<1>7. \A S, x : IsFiniteSet(S) /\ x \in S =>
        IsFiniteSet(S \ {x}) /\ Cardinality(S \ {x}) = Cardinality(S) - 1
  BY FS_RemoveElement
<1>8. CASE i.opcode \in DestinationOps /\ i.opcode \in PointerOps
  <2>1. Given(i) = {i.phyrd, i.phyrs3} /\ i.phyrd \in F /\ i.phyrs3 \in F \ {i.phyrd}
    BY <1>5, <1>6, <1>8 DEF Given
  <2>2. F \ Given(i) = (F \ {i.phyrd}) \ {i.phyrs3}
    BY <2>1
  <2>3. Held(decode_rename1, DestinationOps) = 1 /\ Held(decode_rename1, PointerOps) = 1
    BY <1>5, <1>8 DEF Held
  <2>4. IsFiniteSet(F \ {i.phyrd}) /\ Cardinality(F \ {i.phyrd}) = Cardinality(F) - 1
    BY <1>2, <1>7, <2>1
  <2>5. Cardinality(F \ Given(i)) = Cardinality(F) - 1 - 1
    BY <1>7, <2>1, <2>2, <2>4
  <2> QED
    BY <1>1, <1>2, <1>4, <2>3, <2>5
<1>9. CASE i.opcode \in DestinationOps /\ i.opcode \notin PointerOps
  <2>1. Given(i) = {i.phyrd} /\ i.phyrd \in F
    BY <1>5, <1>9 DEF Given
  <2>2. Held(decode_rename1, DestinationOps) = 1 /\ Held(decode_rename1, PointerOps) = 0
    BY <1>5, <1>9 DEF Held
  <2>3. Cardinality(F \ Given(i)) = Cardinality(F) - 1
    BY <1>2, <1>7, <2>1
  <2> QED
    BY <1>1, <1>2, <1>4, <2>2, <2>3
<1>10. CASE i.opcode \notin DestinationOps /\ i.opcode \in PointerOps
  <2>1. Given(i) = {i.phyrs3} /\ i.phyrs3 \in F
    BY <1>5, <1>10 DEF Given
  <2>2. Held(decode_rename1, DestinationOps) = 0 /\ Held(decode_rename1, PointerOps) = 1
    BY <1>5, <1>10 DEF Held
  <2>3. Cardinality(F \ Given(i)) = Cardinality(F) - 1
    BY <1>2, <1>7, <2>1
  <2> QED
    BY <1>1, <1>2, <1>4, <2>2, <2>3
<1>11. CASE i.opcode \notin DestinationOps /\ i.opcode \notin PointerOps
  <2>1. Given(i) = {} /\ F \ Given(i) = F
    BY <1>11 DEF Given
  <2>2. Held(decode_rename1, DestinationOps) = 0 /\ Held(decode_rename1, PointerOps) = 0
    BY <1>5, <1>11 DEF Held
  <2> QED
    BY <1>1, <1>2, <1>4, <2>1, <2>2
<1> QED
  BY <1>8, <1>9, <1>10, <1>11

\* The issue queue's valid slots: establishing makes one more, waking up and issuing none.
LEMMA IssueSlots ==
  ASSUME TypeInv, IssueStage
  PROVE  /\ Cardinality(ValidSlots(issueQueue)) \in Nat
         /\ Cardinality(ValidSlots(issueQueue')) \in Nat
         /\ Cardinality(ValidSlots(issueQueue'))
              <= Cardinality(ValidSlots(issueQueue)) + (IF issue_queue.has_insn THEN 1 ELSE 0)
<1> DEFINE est == IF issue_queue.has_insn
                  THEN EstablishIQ(issueQueue, issue_queue.instr, issue_counter)
                  ELSE issueQueue
           free == FreeIQSlot(issueQueue, issue_queue.instr.pc)
<1>1. /\ issueQueue \in IQType /\ bus \in BusType /\ WakeUp(est)
  BY DEF TypeInv, QueueTypes, ForwardingTypes, IssueStage
<1>2. ValidSlots(est) \subseteq ValidSlots(issueQueue)
        \cup (IF issue_queue.has_insn THEN {free} ELSE {})
  BY <1>1 DEF ValidSlots, EstablishIQ, IQType
<1>3. est \in IQType
  BY <1>1, EstablishIQType DEF TypeInv, QueueTypes, FrontTypes, Latches
<1> HIDE DEF est
<1>4. ASSUME NEW q \in IQType, NEW k \in IQSlots \cup {-1}
      PROVE  Issued(q, k) \in IQType /\ ValidSlots(Issued(q, k)) \subseteq ValidSlots(q)
  <2>1. Issued(q, k) \in IQType
    BY IssuedType
  <2>2. CASE k = -1
    BY <2>1, <2>2 DEF Issued
  <2>3. CASE k # -1
    <3>1. \A s \in IQSlots : s # k => Issued(q, k)[s] = q[s]
      BY <2>3 DEF Issued, IQType
    <3>2. ~Issued(q, k)[k].valid_bit
      BY <2>3, IssuedTimes
    <3> QED
      BY <2>1, <3>1, <3>2 DEF ValidSlots
  <2> QED
    BY <2>2, <2>3
<1>5. ValidSlots(issueQueue') \subseteq ValidSlots(est)
  <2> DEFINE woken == WokenIQ(est, bus)
             intSlot == SelectedSlot(woken, IntFUTimes(woken))
             afterInt == Issued(woken, intSlot)
             mulSlot == IF MulFUFree THEN SelectedSlot(afterInt, MulFUTimes(afterInt)) ELSE -1
             afterMul == Issued(afterInt, mulSlot)
             afuSlot == SelectedSlot(afterMul, AFUTimes(afterMul))
  <2>1. issueQueue' = Issued(afterMul, afuSlot)
    BY <1>1 DEF WakeUp
  <2>2. woken \in IQType /\ ValidSlots(woken) = ValidSlots(est)
    <3>1. woken \in IQType
      BY <1>1, <1>3, WokenIQType
    <3>2. \A k \in IQSlots : woken[k].valid_bit = est[k].valid_bit
      BY <1>3 DEF WokenIQ, IQType, IQEntries
    <3> QED
      BY <3>1, <3>2 DEF ValidSlots
  <2>3. intSlot \in IQSlots \cup {-1}
    BY <2>2, SelectedSlotType
  <2> HIDE DEF woken, intSlot
  <2>4. /\ afterInt \in IQType /\ ValidSlots(afterInt) \subseteq ValidSlots(woken)
        /\ mulSlot \in IQSlots \cup {-1}
    BY <1>4, <2>2, <2>3, SelectedSlotType
  <2> HIDE DEF afterInt, mulSlot
  <2>5. /\ afterMul \in IQType /\ ValidSlots(afterMul) \subseteq ValidSlots(afterInt)
        /\ afuSlot \in IQSlots \cup {-1}
    BY <1>4, <2>4, SelectedSlotType
  <2> HIDE DEF afterMul, afuSlot
  <2> QED
    BY <1>4, <2>1, <2>2, <2>4, <2>5
<1>6. IsFiniteSet(IQSlots)
  BY FS_Interval, SizesAssumption DEF IQSlots
<1>7. \A q : IsFiniteSet(ValidSlots(q)) /\ Cardinality(ValidSlots(q)) \in Nat
  BY <1>6, FS_Subset, FS_CardinalityType DEF ValidSlots
<1>8. CASE issue_queue.has_insn
  <2>1. /\ IsFiniteSet(ValidSlots(issueQueue) \cup {free})
        /\ Cardinality(ValidSlots(issueQueue) \cup {free}) <= Cardinality(ValidSlots(issueQueue)) + 1
    BY <1>7, FS_AddElement
  <2>2. ValidSlots(issueQueue') \in SUBSET (ValidSlots(issueQueue) \cup {free})
    BY <1>2, <1>5, <1>8
  <2>3. Cardinality(ValidSlots(issueQueue')) <= Cardinality(ValidSlots(issueQueue) \cup {free})
    BY <2>1, <2>2, FS_Subset
  <2>4. Cardinality(ValidSlots(issueQueue) \cup {free}) \in Nat
    BY <2>1, FS_CardinalityType
  <2> QED
    BY <1>7, <1>8, <2>1, <2>3, <2>4
<1>9. CASE ~issue_queue.has_insn
  <2>1. ValidSlots(issueQueue') \in SUBSET ValidSlots(issueQueue)
    BY <1>2, <1>5, <1>9
  <2> QED
    BY <1>7, <1>9, <2>1, FS_Subset
<1> QED
  BY <1>7, <1>8, <1>9

\* Commit gives back and never takes.
LEMMA CommitGivesBack ==
  ASSUME TypeInv, TypeInv', CommitStage
  PROVE  Len(freePhysicalRegList') >= Len(freePhysicalRegList)
<1>1. freePhysicalRegList \in ListType
  BY DEF TypeInv, RenameTypes
<1>2. ASSUME NEW list \in ListType, NEW r
      PROVE  Len(AddBack(list, r, PHYSICAL_REG_FILE_SIZE)) >= Len(list)
  <2>1. Len(list) \in Nat /\ Len(Append(list, r)) = Len(list) + 1
    BY DEF ListType
  <2> QED
    BY <2>1 DEF AddBack
<1>3. ASSUME NEW i \in Instrs
      PROVE  Len(FreedPhysicalRegs(i, freePhysicalRegList)) >= Len(freePhysicalRegList)
  <2> DEFINE one == AddBack(freePhysicalRegList, i.phyrd, PHYSICAL_REG_FILE_SIZE)
             afterRd == IF i.opcode \in DestinationOps THEN one ELSE freePhysicalRegList
  <2>1. one \in ListType /\ Len(one) >= Len(freePhysicalRegList)
    BY <1>1, <1>2, ListUpdates, InstrFields DEF Instrs, Tags
  <2>2. afterRd \in ListType /\ Len(afterRd) >= Len(freePhysicalRegList)
    BY <1>1, <2>1, LenProperties DEF ListType
  <2>3. FreedPhysicalRegs(i, freePhysicalRegList)
          = IF i.opcode \in PointerOps
            THEN AddBack(afterRd, i.phyrs3, PHYSICAL_REG_FILE_SIZE) ELSE afterRd
    BY DEF FreedPhysicalRegs
  <2> HIDE DEF afterRd
  <2>4. /\ Len(AddBack(afterRd, i.phyrs3, PHYSICAL_REG_FILE_SIZE)) >= Len(afterRd)
        /\ AddBack(afterRd, i.phyrs3, PHYSICAL_REG_FILE_SIZE) \in ListType
    BY <1>2, <2>2, ListUpdates, InstrFields DEF Instrs, Tags
  <2>5. \A list \in ListType : Len(list) \in Nat
    BY LenProperties DEF ListType
  <2> QED
    BY <1>1, <2>2, <2>3, <2>4, <2>5
<1>4. \/ freePhysicalRegList' = freePhysicalRegList
      \/ freePhysicalRegList' = FreedPhysicalRegs(RoBAtCommit[0].instr, freePhysicalRegList)
  BY DEF CommitStage, CommitHead, freeVars
<1>5. RoBAtCommit[0].instr \in Instrs
  <2>1. RoB' \in RoBType /\ RoB' = RoBAtCommit
    BY DEF CommitStage, TypeInv, RoBTypes
  <2> QED
    BY <2>1, SlotSets DEF RoBType, RoBEntries
<1>6. Len(freePhysicalRegList) \in Nat
  BY <1>1, LenProperties DEF ListType
<1> QED
  BY <1>3, <1>4, <1>5, <1>6


\* Decode enters nothing in the BTB: it holds no conditional branch.
LEMMA BTBStaysEmpty ==
  ASSUME TypeInv, QuietInv, BudgetInv, [Next]_vars
  PROVE  \A k \in BTBSlots : BTBEntry'[k].branch_pc = 0
<1>1. CASE DecodeStage
  <2>1. CASE ~decode_rename1.has_insn
    BY <1>1, <2>1 DEF DecodeStage, btbVars, BudgetInv
  <2>2. CASE decode_rename1.has_insn
    <3> DEFINE i == PickUp(LookedUp(decode_rename1.instr), bus)
    <3>1. i.opcode = decode_rename1.instr.opcode
      BY LookedUpNames DEF TypeInv, RenameTypes, ForwardingTypes, FrontTypes, StallLatches
    <3>2. i.opcode \notin ConditionalBranches
      BY <2>2, <3>1 DEF QuietInv, BranchOps
    <3>3. UNCHANGED btbVars
      BY <1>1, <2>2, <3>2 DEF DecodeStage, DecodeInstruction
    <3> QED
      BY <3>3 DEF btbVars, BudgetInv
  <2> QED
    BY <2>1, <2>2
<1>2. CASE ~DecodeStage
  <2>1. BFUStage => BTBEntry' = BTBEntry
    BY DEF BFUStage, QuietInv
  <2>2. BTBEntry' = BTBEntry
    BY <1>2, <2>1 DEF Next, vars, btbVars, CommitStage, CommitBelowZero, MAUStage, MAUOutOfBounds,
           MulFUStage, AFUStage, IntFUStage, IssueStage, DispatchStage, DecodeOutOfBounds,
           FetchStage, FetchOutOfBounds, SquashTail, SquashEnds, BecomesUndefined
  <2> QED
    BY <2>2 DEF BudgetInv
<1> QED
  BY <1>1, <1>2

\* Every step keeps within the budget.
LEMMA BudgetInvStep ==
  ASSUME TypeInv, RoBInv, LSQInv, QuietInv, TypeInv', RoBInv', OwnInv, FlowLatches, BudgetInv,
         Undisturbed, [Next]_vars
  PROVE  BudgetInv'
<1> DEFINE valid == Cardinality(ValidSlots(issueQueue))
<1>1. /\ ROB_size \in Nat /\ LSQ_size \in Int /\ Taken \in Int /\ valid \in Nat /\ pc \in Int
      /\ ROB_size' \in Nat /\ LSQ_size' \in Int /\ Taken' \in Int /\ valid' \in Nat
  <2>1. ROB_size \in Nat /\ ROB_size' \in Nat
    BY SlotSets DEF RoBInv, RoBContiguous
  <2>2. LSQ_size \in Int /\ LSQ_size' \in Int /\ pc \in Int
    BY DEF TypeInv, LSQTypes, FrontTypes
  <2>3. Taken \in Int /\ Taken' \in Int
    BY LenProperties, SizesAssumption DEF Taken, TypeInv, RenameTypes, ListType
  <2>4. valid \in Nat /\ valid' \in Nat
    <3>1. IsFiniteSet(IQSlots)
      BY FS_Interval, SizesAssumption DEF IQSlots
    <3>2. \A q : IsFiniteSet(ValidSlots(q)) /\ Cardinality(ValidSlots(q)) \in Nat
      BY <3>1, FS_Subset, FS_CardinalityType DEF ValidSlots
    <3>3. ValidSlots(issueQueue)' = ValidSlots(issueQueue')
      BY DEF ValidSlots
    <3> QED
      BY <3>2, <3>3
  <2> QED
    BY <2>1, <2>2, <2>3, <2>4, SizesAssumption
<1>2. \A ops : /\ Seen(ops) \in Nat
               /\ Held(decode_rename1, ops) \in {0, 1} /\ Held(decode_rename1, ops)' \in {0, 1}
               /\ Behind(ops) \in Nat /\ Behind(ops)' \in Nat
  <2>1. CodeIndex(pc) \in Int
    BY DEF CodeIndex, FIRST_PC, TypeInv, FrontTypes
  <2>2. \A ops : Seen(ops) \in Nat
    BY <2>1, SeenBounds DEF Seen
  <2>3. \A ops : Behind(ops) \in Nat /\ Behind(ops)' \in Nat
    BY HeldBit DEF Behind
  <2>4. \A ops : Held(decode_rename1, ops) \in {0, 1} /\ Held(decode_rename1, ops)' \in {0, 1}
    BY HeldBit
  <2> QED
    BY <2>2, <2>3, <2>4
<1>3. \A k \in BTBSlots : BTBEntry'[k].branch_pc = 0
  BY BTBStaysEmpty
<1>4. code_memory' = code_memory
  BY CodeUnchanged
<1>5. pc' = pc => \A ops : Seen(ops)' = Seen(ops)
  BY <1>4 DEF Seen, SeenAt, CodeIndex
<1>6. /\ ROB_size + OnTheWay(Opcodes) <= Seen(Opcodes)
      /\ valid + OnTheWay(Opcodes) <= Seen(Opcodes)
      /\ LSQ_size + OnTheWay(MemoryOps) <= Seen(MemoryOps)
      /\ Taken + Taking <= SeenResults
      /\ pc >= FIRST_PC
  BY DEF BudgetInv
<1>7. \A ops : OnTheWay(ops) \in Nat /\ OnTheWay(ops)' \in Nat
  BY <1>2 DEF OnTheWay
<1>8. Taking \in Nat /\ Taking' \in Nat /\ SeenResults \in Nat
  BY <1>2 DEF Taking, SeenResults
<1>9. ASSUME pc' >= FIRST_PC,
             ROB_size' + OnTheWay(Opcodes)' <= Seen(Opcodes)',
             valid' + OnTheWay(Opcodes)' <= Seen(Opcodes)',
             LSQ_size' + OnTheWay(MemoryOps)' <= Seen(MemoryOps)',
             Taken' + Taking' <= SeenResults'
      PROVE  BudgetInv'
  BY <1>3, <1>9 DEF BudgetInv
<1>10. CASE FetchStage
  <2>1. /\ pc' >= FIRST_PC
        /\ \A ops : /\ Seen(ops)' \in Nat
                    /\ Held(decode_rename1, ops)' - Seen(ops)'
                         <= Held(decode_rename1, ops) - Seen(ops)
    BY <1>10, FetchCounts
  <2>2. /\ UNCHANGED <<rename2_dispatch, issue_queue>>
        /\ UNCHANGED <<ROB_size, LSQ_size, issueQueue, freePhysicalRegList>>
    BY <1>10 DEF FetchStage, QuietInv, frontVars, robVars, lsqVars, iqVars, freeVars
  <2>3. \A ops : Behind(ops)' = Behind(ops)
    BY <2>2 DEF Behind
  <2>4. valid' = valid /\ Taken' = Taken
    BY <2>2 DEF ValidSlots, Taken
  <2>5. \A ops : OnTheWay(ops)' - Seen(ops)' <= OnTheWay(ops) - Seen(ops)
    BY <1>2, <2>1, <2>3 DEF OnTheWay
  <2>6. Taking' - SeenResults' <= Taking - SeenResults /\ SeenResults' \in Nat
    <3>1. \A ops : Held(decode_rename1, ops)' - Seen(ops)'
                    <= Held(decode_rename1, ops) - Seen(ops)
      BY <2>1
    <3>2. \A ops : Seen(ops)' \in Nat
      BY <2>1
    <3> QED
      BY <1>2, <3>1, <3>2 DEF Taking, SeenResults
  <2> HIDE DEF valid
  <2>7. /\ Seen(Opcodes)' \in Nat /\ Seen(Opcodes) \in Nat
        /\ OnTheWay(Opcodes) \in Nat /\ OnTheWay(Opcodes)' \in Nat
        /\ OnTheWay(Opcodes)' - Seen(Opcodes)' <= OnTheWay(Opcodes) - Seen(Opcodes)
    BY <1>2, <1>7, <2>1, <2>5
  <2>8. /\ Seen(MemoryOps)' \in Nat /\ Seen(MemoryOps) \in Nat
        /\ OnTheWay(MemoryOps) \in Nat /\ OnTheWay(MemoryOps)' \in Nat
        /\ OnTheWay(MemoryOps)' - Seen(MemoryOps)' <= OnTheWay(MemoryOps) - Seen(MemoryOps)
    BY <1>2, <1>7, <2>1, <2>5
  <2>9. /\ ROB_size' + OnTheWay(Opcodes)' <= Seen(Opcodes)'
        /\ valid' + OnTheWay(Opcodes)' <= Seen(Opcodes)'
        /\ LSQ_size' + OnTheWay(MemoryOps)' <= Seen(MemoryOps)'
    BY <1>1, <1>6, <2>2, <2>4, <2>7, <2>8
  <2>10. Taken' + Taking' <= SeenResults'
    <3>1. PICK n \in Nat : n = Taking'
      BY <1>8
    <3>2. PICK s \in Nat : s = SeenResults'
      BY <2>6
    <3>3. n - s <= Taking - SeenResults
      BY <2>6, <3>1, <3>2
    <3>4. Taken + n <= s
      BY <1>1, <1>6, <1>8, <3>3
    <3> QED
      BY <2>4, <3>1, <3>2, <3>4
  <2> QED
    BY <1>9, <2>1, <2>9, <2>10
<1>11. CASE DecodeStage /\ decode_rename1.has_insn
  <2>1. PICK i \in Instrs : Enters(i)
    BY <1>11, DecodeRenames DEF OwnInv, Undisturbed
  <2>2. /\ ~decode_rename1'.has_insn
        /\ \A ops : Behind(ops)' <= Behind(ops) + Held(decode_rename1, ops)
    BY <1>11, <2>1, DecodeCounts DEF OwnInv
  <2>3. Len(freePhysicalRegList') = Len(freePhysicalRegList)
          - Held(decode_rename1, DestinationOps) - Held(decode_rename1, PointerOps)
    BY <1>11, <2>1, DecodeTakes DEF OwnInv
  <2>4. UNCHANGED <<pc, ROB_size, LSQ_size, issueQueue>>
    BY <1>11 DEF DecodeStage, robVars, lsqVars, iqVars
  <2>5. valid' = valid
    BY <2>4 DEF ValidSlots
  <2>6. \A ops : Held(decode_rename1, ops)' = 0
    BY <2>2 DEF Held
  <2>7. \A ops : OnTheWay(ops)' <= OnTheWay(ops)
    BY <1>2, <2>2, <2>6 DEF OnTheWay
  <2>8. Taking' = 0 /\ Taken' = Taken + Taking
    <3>1. Len(freePhysicalRegList) \in Nat /\ Len(freePhysicalRegList)' \in Nat
      BY LenProperties DEF TypeInv, RenameTypes, ListType
    <3>2. Taking = Held(decode_rename1, DestinationOps) + Held(decode_rename1, PointerOps)
      BY DEF Taking
    <3>3. Held(decode_rename1, DestinationOps) \in Nat /\ Held(decode_rename1, PointerOps) \in Nat
      BY <1>2
    <3>4. Taken' = Taken + Taking
      BY <2>3, <3>1, <3>2, <3>3, SizesAssumption DEF Taken
    <3>5. Taking' = 0
      BY <2>6 DEF Taking
    <3> QED
      BY <3>4, <3>5
  <2>9. SeenResults' = SeenResults /\ \A ops : Seen(ops)' = Seen(ops)
    BY <1>5, <2>4 DEF SeenResults
  <2> HIDE DEF valid
  <2>20. /\ ROB_size' + OnTheWay(Opcodes)' <= Seen(Opcodes)'
         /\ valid' + OnTheWay(Opcodes)' <= Seen(Opcodes)'
    BY <1>1, <1>2, <1>6, <1>7, <2>4, <2>5, <2>7, <2>8, <2>9
  <2>21. LSQ_size' + OnTheWay(MemoryOps)' <= Seen(MemoryOps)'
    BY <1>1, <1>2, <1>6, <1>7, <2>4, <2>5, <2>7, <2>8, <2>9
  <2>22. Taken' + Taking' <= SeenResults'
    BY <1>1, <1>6, <1>8, <2>4, <2>5, <2>7, <2>8, <2>9
  <2> QED
    BY <1>6, <1>9, <2>1, <2>2, <2>4, <2>20, <2>21, <2>22
<1>12. CASE DispatchStage
  <2>1. \A ops : Behind(ops)' <= Behind(ops)
    BY <1>12, DispatchCounts DEF OwnInv
  <2>2. UNCHANGED <<pc, decode_rename1, ROB_size, LSQ_size, issueQueue, freePhysicalRegList>>
    BY <1>12 DEF DispatchStage, robVars, lsqVars, iqVars, freeVars
  <2>3. valid' = valid /\ Taken' = Taken
    BY <2>2 DEF ValidSlots, Taken
  <2>4. \A ops : OnTheWay(ops)' <= OnTheWay(ops)
    BY <1>2, <2>1, <2>2 DEF OnTheWay
  <2>5. Taking' = Taking /\ SeenResults' = SeenResults /\ \A ops : Seen(ops)' = Seen(ops)
    BY <1>5, <2>2 DEF Taking, SeenResults
  <2> HIDE DEF valid
  <2>20. /\ ROB_size' + OnTheWay(Opcodes)' <= Seen(Opcodes)'
         /\ valid' + OnTheWay(Opcodes)' <= Seen(Opcodes)'
    BY <1>1, <1>2, <1>6, <1>7, <2>2, <2>3, <2>4, <2>5
  <2>21. LSQ_size' + OnTheWay(MemoryOps)' <= Seen(MemoryOps)'
    BY <1>1, <1>2, <1>6, <1>7, <2>2, <2>3, <2>4, <2>5
  <2>22. Taken' + Taking' <= SeenResults'
    BY <1>1, <1>6, <1>8, <2>2, <2>3, <2>4, <2>5
  <2> QED
    BY <1>6, <1>9, <2>1, <2>2, <2>4, <2>20, <2>21, <2>22
<1>13. CASE IssueStage
  <2> DEFINE has == IF issue_queue.has_insn THEN 1 ELSE 0
  <2>1. /\ UNCHANGED <<pc, decode_rename1, rename2_dispatch, freePhysicalRegList>>
        /\ ROB_size' = IF issue_queue.has_insn THEN ROB_size + 1 ELSE ROB_size
        /\ LSQ_size' = IF issue_queue.has_insn /\ issue_queue.instr.opcode \in MemoryOps
                       THEN LSQ_size + 1 ELSE LSQ_size
    BY <1>13 DEF IssueStage, freeVars
  <2>2. issue_queue \in Latches /\ ~issue_queue'.has_insn
    BY <1>13 DEF TypeInv, FrontTypes, IssueStage, Latches
  <2>3. Held(issue_queue, Opcodes) = has
    BY <2>2 DEF Held, Latches, Instrs
  <2>4. \A ops : /\ Behind(ops)' = Behind(ops) - Held(issue_queue, ops)
                 /\ Held(issue_queue, ops) \in {0, 1}
    <3>1. \A ops : Held(issue_queue, ops)' = 0
      BY <2>2 DEF Held
    <3> QED
      BY <2>1, <3>1, HeldBit DEF Behind
  <2>5. LSQ_size' = LSQ_size + Held(issue_queue, MemoryOps)
    BY <1>1, <2>1 DEF Held
  <2>6. ROB_size' = ROB_size + has
    BY <1>1, <2>1
  <2>7. valid' <= valid + has
    <3>1. ValidSlots(issueQueue)' = ValidSlots(issueQueue')
      BY DEF ValidSlots
    <3> QED
      BY <1>13, <3>1, IssueSlots
  <2>8. Taken' = Taken
    BY <2>1 DEF Taken
  <2>9. \A ops : OnTheWay(ops)' = OnTheWay(ops) - Held(issue_queue, ops)
    BY <1>2, <2>1, <2>4 DEF OnTheWay
  <2>10. Taking' = Taking /\ SeenResults' = SeenResults /\ \A ops : Seen(ops)' = Seen(ops)
    BY <1>5, <2>1 DEF Taking, SeenResults
  <2>11. has \in {0, 1}
    OBVIOUS
  <2> HIDE DEF valid, has
  <2>12. /\ ROB_size' + OnTheWay(Opcodes)' <= Seen(Opcodes)'
         /\ valid' + OnTheWay(Opcodes)' <= Seen(Opcodes)'
    BY <1>1, <1>2, <1>6, <1>7, <2>3, <2>6, <2>7, <2>9, <2>10, <2>11
  <2>13. LSQ_size' + OnTheWay(MemoryOps)' <= Seen(MemoryOps)'
    BY <1>1, <1>2, <1>6, <1>7, <2>4, <2>5, <2>9, <2>10
  <2> QED
    BY <1>2, <1>6, <1>9, <2>1, <2>8, <2>10, <2>12, <2>13
<1>14. CASE CommitStage
  <2>1. UNCHANGED <<pc, decode_rename1, rename2_dispatch, issue_queue, issueQueue>>
    BY <1>14 DEF CommitStage, frontVars, iqVars
  <2>2. ROB_size' <= ROB_size /\ LSQ_size' <= LSQ_size
    BY <1>1, <1>14 DEF CommitStage
  <2>3. Taken' <= Taken
    <3>1. Len(freePhysicalRegList) \in Nat /\ Len(freePhysicalRegList)' \in Nat
      BY LenProperties DEF TypeInv, RenameTypes, ListType
    <3>2. Len(freePhysicalRegList') >= Len(freePhysicalRegList)
      BY <1>14, CommitGivesBack
    <3> QED
      BY <3>1, <3>2, SizesAssumption DEF Taken
  <2>4. valid' = valid
    BY <2>1 DEF ValidSlots
  <2>5. \A ops : OnTheWay(ops)' = OnTheWay(ops)
    BY <2>1 DEF OnTheWay, Behind
  <2>6. Taking' = Taking /\ SeenResults' = SeenResults /\ \A ops : Seen(ops)' = Seen(ops)
    BY <1>5, <2>1 DEF Taking, SeenResults
  <2> HIDE DEF valid
  <2>20. /\ ROB_size' + OnTheWay(Opcodes)' <= Seen(Opcodes)'
         /\ valid' + OnTheWay(Opcodes)' <= Seen(Opcodes)'
    BY <1>1, <1>2, <1>6, <1>7, <2>1, <2>2, <2>3, <2>4, <2>5, <2>6
  <2>21. LSQ_size' + OnTheWay(MemoryOps)' <= Seen(MemoryOps)'
    BY <1>1, <1>2, <1>6, <1>7, <2>1, <2>2, <2>3, <2>4, <2>5, <2>6
  <2>22. Taken' + Taking' <= SeenResults'
    <3>1. PICK left \in Int : left = Taken'
      BY <1>1
    <3>2. left <= Taken
      BY <2>3, <3>1
    <3>3. left + Taking <= SeenResults
      BY <1>1, <1>6, <1>8, <3>2
    <3> QED
      BY <2>6, <3>1, <3>3
  <2> QED
    BY <1>6, <1>9, <2>1, <2>2, <2>4, <2>20, <2>21, <2>22
<1>15. CASE UNCHANGED <<pc, decode_rename1, rename2_dispatch, issue_queue, issueQueue,
                        ROB_size, LSQ_size, freePhysicalRegList>>
  <2>1. valid' = valid /\ Taken' = Taken
    BY <1>15 DEF ValidSlots, Taken
  <2>2. \A ops : OnTheWay(ops)' = OnTheWay(ops)
    BY <1>15 DEF OnTheWay, Behind
  <2>3. Taking' = Taking /\ SeenResults' = SeenResults /\ \A ops : Seen(ops)' = Seen(ops)
    BY <1>5, <1>15 DEF Taking, SeenResults
  <2> HIDE DEF valid
  <2> QED
    BY <1>2, <1>6, <1>9, <1>15, <2>1, <2>2, <2>3
<1>16. DecodeStage /\ ~decode_rename1.has_insn
         => UNCHANGED <<pc, decode_rename1, rename2_dispatch, issue_queue, issueQueue,
                        ROB_size, LSQ_size, freePhysicalRegList>>
  BY DEF DecodeStage, iqVars, robVars, lsqVars, freeVars
<1>17. ~SquashTail /\ ~SquashEnds
  BY DEF SquashTail, SquashEnds, QuietInv
<1>18. \/ FetchStage \/ DecodeStage \/ DispatchStage \/ IssueStage \/ CommitStage
       \/ UNCHANGED <<pc, decode_rename1, rename2_dispatch, issue_queue, issueQueue,
                      ROB_size, LSQ_size, freePhysicalRegList>>
  BY <1>17 DEF Next, vars, CommitBelowZero, MAUStage, MAUOutOfBounds,
         MulFUStage, BFUStage, AFUStage, IntFUStage, DecodeOutOfBounds, FetchOutOfBounds,
         BecomesUndefined, frontVars, iqVars, robVars, lsqVars, freeVars
<1> QED
  BY <1>10, <1>11, <1>12, <1>13, <1>14, <1>15, <1>16, <1>18

\* A program without branches that fits runs undisturbed from its first instruction to its
\* last: decode always finds its registers and dispatch always finds room.
THEOREM FittingUndisturbed ==
  ASSUME BitwiseIsInt, StraightLine, Fits PROVE Spec => []Undisturbed
<1>1. Init => InPrograms
  BY DEF Init, InPrograms
<1>2. InPrograms /\ [Next]_vars => InPrograms'
  BY CodeUnchanged DEF InPrograms
<1>3. TypeInv /\ RoBInv /\ Init => OwnInv /\ FlowLatches /\ BudgetInv
  BY OwnInvInit, FlowLatchesInit, BudgetInvInit
<1>4. /\ TypeInv /\ RoBInv /\ LSQInv /\ QuietInv /\ TypeInv' /\ RoBInv'
      /\ InPrograms /\ OwnInv /\ FlowLatches /\ BudgetInv /\ [Next]_vars
      => OwnInv' /\ FlowLatches' /\ BudgetInv'
  <2> SUFFICES ASSUME TypeInv, RoBInv, LSQInv, QuietInv, TypeInv', RoBInv',
                      InPrograms, OwnInv, FlowLatches, BudgetInv, [Next]_vars
               PROVE  OwnInv' /\ FlowLatches' /\ BudgetInv'
    OBVIOUS
  <2>1. Undisturbed
    BY BudgetSuffices DEF InPrograms
  <2>2. FindsRegisters /\ SquashesItsOwn
    BY <2>1 DEF Undisturbed, SquashesItsOwn
  <2> QED
    BY <2>1, <2>2, OwnInvStep, FlowLatchesStep, BudgetInvStep
<1>5. /\ TypeInv /\ RoBInv /\ LSQInv /\ QuietInv /\ InPrograms
      /\ OwnInv /\ BudgetInv
      => Undisturbed
  BY BudgetSuffices DEF InPrograms
<1> QED
  BY <1>1, <1>2, <1>3, <1>4, <1>5, TypeInvAlways, RoBInvAlways, LSQInvAlways, QuietInvAlways,
     PTL DEF Spec

\* Such programs lose no register, name every producer and rename in order, with no further
\* condition on what happens while they run.
THEOREM FittingRenames ==
  ASSUME BitwiseIsInt, StraightLine, Fits
  PROVE  Spec => /\ []RegistersConserved /\ []TableNamesYoungest /\ []SourcesNameProducers
                 /\ RenamesInOrder
<1>1. /\ Spec /\ []Undisturbed => []RegistersConserved
      /\ Spec /\ []Undisturbed => []TableNamesYoungest
      /\ Spec /\ []Undisturbed => []SourcesNameProducers
      /\ Spec /\ []Undisturbed => RenamesInOrder
  BY Conservation, TableInOrder, SourcesInOrder, RenamingImplemented
<1> QED
  BY <1>1, FittingUndisturbed


(***************************************************************************)
(* The same count for the flags registers.                                 *)
(***************************************************************************)
FlagsFit == \A p \in Programs : HowMany(p, FlagOps) <= CC_REG_FILE_SIZE

FlagsTaken == CC_REG_FILE_SIZE - Len(freeCCFlagsRegList)

FlagsBudgetInv == FlagsTaken + Held(decode_rename1, FlagOps) <= Seen(FlagOps)

LEMMA FlagsBudgetInvInit == TypeInv /\ Init => FlagsBudgetInv
<1> SUFFICES ASSUME TypeInv, Init PROVE FlagsBudgetInv
  OBVIOUS
<1>1. ~decode_rename1.has_insn /\ freeCCFlagsRegList = [k \in 1 .. CC_REG_FILE_SIZE |-> k - 1]
  BY DEF Init, APEX_cpu_init, EmptyStallLatch
<1>2. Len(freeCCFlagsRegList) = CC_REG_FILE_SIZE
  <2>1. freeCCFlagsRegList \in Seq(CCRegs)
    BY DEF TypeInv, RenameTypes, CCListType
  <2> QED
    BY <1>1, <2>1, LenProperties, SizesAssumption
<1>3. Seen(FlagOps) \in Nat
  <2>1. CodeIndex(pc) \in Int
    BY DEF CodeIndex, FIRST_PC, TypeInv, FrontTypes
  <2> QED
    BY <2>1, SeenBounds DEF Seen
<1>4. Held(decode_rename1, FlagOps) = 0
  BY <1>1 DEF Held
<1> QED
  BY <1>2, <1>3, <1>4, SizesAssumption DEF FlagsBudgetInv, FlagsTaken

\* Decode takes one flags register for an instruction that sets flags; commit takes none.
LEMMA FlagsBudgetInvStep ==
  ASSUME TypeInv, TypeInv', QuietInv, OwnInv, FlowLatches, BudgetInv, FlagsBudgetInv,
         Undisturbed, [Next]_vars
  PROVE  FlagsBudgetInv'
<1>1. /\ freeCCFlagsRegList \in Seq(CCRegs) /\ freeCCFlagsRegList' \in Seq(CCRegs)
      /\ Len(freeCCFlagsRegList) \in Nat /\ Len(freeCCFlagsRegList)' \in Nat
  BY LenProperties DEF TypeInv, RenameTypes, CCListType
<1>2. FlagsTaken \in Int /\ FlagsTaken' \in Int
  BY <1>1, SizesAssumption DEF FlagsTaken
<1>3. /\ Seen(FlagOps) \in Nat
      /\ Held(decode_rename1, FlagOps) \in Nat /\ Held(decode_rename1, FlagOps)' \in Nat
  <2>1. CodeIndex(pc) \in Int
    BY DEF CodeIndex, FIRST_PC, TypeInv, FrontTypes
  <2> QED
    BY <2>1, SeenBounds, HeldBit DEF Seen
<1>4. FlagsTaken + Held(decode_rename1, FlagOps) <= Seen(FlagOps)
  BY DEF FlagsBudgetInv
<1>5. pc' = pc => Seen(FlagOps)' = Seen(FlagOps)
  BY CodeUnchanged DEF Seen, SeenAt, CodeIndex
<1>6. CASE FetchStage
  <2>1. /\ Seen(FlagOps)' \in Nat
        /\ Held(decode_rename1, FlagOps)' - Seen(FlagOps)'
             <= Held(decode_rename1, FlagOps) - Seen(FlagOps)
    BY <1>6, FetchCounts
  <2>2. FlagsTaken' = FlagsTaken
    BY <1>6 DEF FetchStage, freeVars, FlagsTaken
  <2>3. PICK held \in Nat : held = Held(decode_rename1, FlagOps)'
    BY <1>3
  <2>4. PICK seen \in Nat : seen = Seen(FlagOps)'
    BY <2>1
  <2>5. held - seen <= Held(decode_rename1, FlagOps) - Seen(FlagOps)
    BY <2>1, <2>3, <2>4
  <2>6. FlagsTaken + held <= seen
    BY <1>2, <1>3, <1>4, <2>5
  <2> QED
    BY <2>2, <2>3, <2>4, <2>6 DEF FlagsBudgetInv
<1>7. CASE DecodeStage /\ decode_rename1.has_insn
  <2>1. PICK i \in Instrs : Enters(i)
    BY <1>7, DecodeRenames DEF OwnInv, Undisturbed
  <2>2. ~decode_rename1'.has_insn
    BY <1>7, <2>1, DecodeCounts DEF OwnInv
  <2>3. Held(decode_rename1, FlagOps)' = 0
    BY <2>2 DEF Held
  <2>4. pc' = pc
    BY <1>7 DEF DecodeStage
  <2>5. i.opcode = decode_rename1.instr.opcode
    BY <2>1 DEF Enters
  <2>6. Len(freeCCFlagsRegList') = Len(freeCCFlagsRegList) - Held(decode_rename1, FlagOps)
    <3>1. CASE i.opcode \in FlagOps
      <4>1. freeCCFlagsRegList # << >> /\ freeCCFlagsRegList' = Tail(freeCCFlagsRegList)
        BY <2>1, <3>1 DEF Enters
      <4>2. Len(freeCCFlagsRegList') = Len(freeCCFlagsRegList) - 1
        BY <1>1, <4>1
      <4>3. Held(decode_rename1, FlagOps) = 1
        BY <1>7, <2>5, <3>1 DEF Held
      <4> QED
        BY <4>2, <4>3
    <3>2. CASE i.opcode \notin FlagOps
      <4>1. freeCCFlagsRegList' = freeCCFlagsRegList
        BY <2>1, <3>2 DEF Enters
      <4>2. Held(decode_rename1, FlagOps) = 0
        BY <2>5, <3>2 DEF Held
      <4> QED
        BY <1>1, <4>1, <4>2
    <3> QED
      BY <3>1, <3>2
  <2>7. FlagsTaken' = FlagsTaken + Held(decode_rename1, FlagOps)
    BY <1>1, <1>3, <2>6, SizesAssumption DEF FlagsTaken
  <2>8. FlagsTaken' + 0 <= Seen(FlagOps)'
    BY <1>2, <1>3, <1>4, <1>5, <2>4, <2>7
  <2> QED
    BY <2>3, <2>8 DEF FlagsBudgetInv
<1>8. CASE CommitStage
  <2>1. Len(freeCCFlagsRegList') >= Len(freeCCFlagsRegList)
    <3>1. \/ freeCCFlagsRegList' = freeCCFlagsRegList
          \/ freeCCFlagsRegList' = FreedCC(RoBAtCommit[0].instr, freeCCFlagsRegList)
      BY <1>8 DEF CommitStage, CommitHead, freeVars
    <3>2. ASSUME NEW r
          PROVE  Len(AddBack(freeCCFlagsRegList, r, CC_REG_FILE_SIZE)) >= Len(freeCCFlagsRegList)
      <4>1. Len(Append(freeCCFlagsRegList, r)) = Len(freeCCFlagsRegList) + 1
        BY <1>1
      <4> QED
        BY <1>1, <4>1 DEF AddBack
    <3> QED
      BY <1>1, <3>1, <3>2 DEF FreedCC
  <2>2. UNCHANGED <<pc, decode_rename1>>
    BY <1>8 DEF CommitStage, frontVars
  <2>3. PICK left \in Int : left = FlagsTaken'
    BY <1>2
  <2>4. left <= FlagsTaken
    BY <1>1, <2>1, <2>3, SizesAssumption DEF FlagsTaken
  <2>5. left + Held(decode_rename1, FlagOps) <= Seen(FlagOps)
    BY <1>2, <1>3, <1>4, <2>4
  <2> QED
    BY <1>5, <2>2, <2>3, <2>5 DEF FlagsBudgetInv
<1>9. CASE UNCHANGED <<pc, decode_rename1, freeCCFlagsRegList>>
  BY <1>4, <1>5, <1>9 DEF FlagsBudgetInv, FlagsTaken
<1>10. \/ FetchStage \/ (DecodeStage /\ decode_rename1.has_insn) \/ CommitStage
       \/ UNCHANGED <<pc, decode_rename1, freeCCFlagsRegList>>
  BY DEF Next, vars, CommitBelowZero, MAUStage, MAUOutOfBounds, MulFUStage, BFUStage, AFUStage,
         IntFUStage, IssueStage, DispatchStage, DecodeStage, DecodeOutOfBounds,
         FetchOutOfBounds, SquashTail, SquashEnds, QuietInv, BecomesUndefined, frontVars,
         freeVars
<1> QED
  BY <1>6, <1>7, <1>8, <1>9, <1>10

\* Decode finds a flags register, from the count.
LEMMA FlagsBudgetSuffices ==
  ASSUME TypeInv, InPrograms, FlagsFit, FlagsBudgetInv
  PROVE  FlagsRegisterGiven
<1> SUFFICES ASSUME decode_rename1.has_insn, decode_rename1.instr.opcode \in FlagOps
             PROVE  freeCCFlagsRegList # << >>
  BY DEF FlagsRegisterGiven, NoFreeCC
<1>1. CodeIndex(pc) \in Int
  BY DEF CodeIndex, FIRST_PC, TypeInv, FrontTypes
<1>2. /\ Seen(FlagOps) \in Nat /\ Seen(FlagOps) <= HowMany(code_memory, FlagOps)
      /\ HowMany(code_memory, FlagOps) \in Nat
  BY <1>1, SeenBounds DEF Seen
<1>3. HowMany(code_memory, FlagOps) <= CC_REG_FILE_SIZE
  BY DEF InPrograms, FlagsFit
<1>4. Held(decode_rename1, FlagOps) = 1
  BY DEF Held
<1>5. Len(freeCCFlagsRegList) \in Nat
  BY LenProperties DEF TypeInv, RenameTypes, CCListType
<1>6. CC_REG_FILE_SIZE - Len(freeCCFlagsRegList) + 1 <= Seen(FlagOps)
  BY <1>4 DEF FlagsBudgetInv, FlagsTaken
<1>7. Len(freeCCFlagsRegList) # 0
  BY <1>2, <1>3, <1>5, <1>6, SizesAssumption
<1> QED
  BY <1>7

\* With no more instructions that set flags than there are flags registers, decode never
\* writes outside the flags register file, although CMP keeps its register for ever.
THEOREM FittingFlags ==
  ASSUME BitwiseIsInt, StraightLine, Fits, FlagsFit PROVE Spec => []FlagsRegisterGiven
<1>1. Init => InPrograms
  BY DEF Init, InPrograms
<1>2. InPrograms /\ [Next]_vars => InPrograms'
  BY CodeUnchanged DEF InPrograms
<1>3. TypeInv /\ RoBInv /\ Init => OwnInv /\ FlowLatches /\ BudgetInv /\ FlagsBudgetInv
  BY OwnInvInit, FlowLatchesInit, BudgetInvInit, FlagsBudgetInvInit
<1>4. /\ TypeInv /\ RoBInv /\ LSQInv /\ QuietInv /\ TypeInv' /\ RoBInv' /\ Undisturbed
      /\ OwnInv /\ FlowLatches /\ BudgetInv /\ FlagsBudgetInv /\ [Next]_vars
      => OwnInv' /\ FlowLatches' /\ BudgetInv' /\ FlagsBudgetInv'
  <2> SUFFICES ASSUME TypeInv, RoBInv, LSQInv, QuietInv, TypeInv', RoBInv', Undisturbed,
                      OwnInv, FlowLatches, BudgetInv, FlagsBudgetInv, [Next]_vars
               PROVE  OwnInv' /\ FlowLatches' /\ BudgetInv' /\ FlagsBudgetInv'
    OBVIOUS
  <2>1. FindsRegisters /\ SquashesItsOwn
    BY DEF Undisturbed, SquashesItsOwn
  <2> QED
    BY <2>1, OwnInvStep, FlowLatchesStep, BudgetInvStep, FlagsBudgetInvStep
<1>5. TypeInv /\ InPrograms /\ FlagsBudgetInv => FlagsRegisterGiven
  BY FlagsBudgetSuffices
<1> QED
  BY <1>1, <1>2, <1>3, <1>4, <1>5, TypeInvAlways, RoBInvAlways, LSQInvAlways, QuietInvAlways,
     FittingUndisturbed, PTL DEF Spec
=============================================================================
