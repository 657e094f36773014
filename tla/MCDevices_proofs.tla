--------------------------- MODULE MCDevices_proofs ---------------------------
(***************************************************************************)
(* What holds of the registries of the sirens and the air-quality sensors  *)
(* for every number of devices, of addresses and of slots; and of a device *)
(* that joins, whatever becomes of its frames.                             *)
(***************************************************************************)
EXTENDS MCDevices, SequenceTheorems, FiniteSetTheorems, WellFoundedInduction, TLAPS

-----------------------------------------------------------------------------
(* Loops over an array. *)

\* A set of natural numbers has a smallest.
LEMMA SmallestExists ==
  ASSUME NEW is \in SUBSET Nat, is # {}
  PROVE  \E i \in is : \A j \in is : i <= j
<1>1. \E i \in is : \A j \in is : ~(<<j, i>> \in OpToRel(<, Nat))
  BY NatLessThanWellFounded, WFMin
<1>2. PICK i \in is : \A j \in is : ~(<<j, i>> \in OpToRel(<, Nat))
  BY <1>1
<1>3. ASSUME NEW j \in is
      PROVE  i <= j
  <2>1. i \in Nat /\ j \in Nat
    OBVIOUS
  <2>2. ~(j < i)
    BY <1>2, <2>1 DEF OpToRel
  <2>3. QED
    BY <2>1, <2>2
<1>4. QED
  BY <1>3

\* A loop that looks for an entry finds the first, or nothing.
LEMMA FirstIsFound ==
  ASSUME NEW is \in SUBSET (Nat \ {0})
  PROVE  /\ FirstOf(is) = 0 <=> is = {}
         /\ FirstOf(is) # 0 => FirstOf(is) \in is /\ \A j \in is : FirstOf(is) <= j
<1>1. is # {} => \E i \in is : \A j \in is : i <= j
  BY SmallestExists
<1>2. QED
  BY <1>1 DEF FirstOf

\* The entries that stay get the places 1, 2, ... in their order.
LEMMA PlacesInOrder ==
  ASSUME NEW n \in Nat, NEW is \in SUBSET (1 .. n)
  PROVE  /\ IsFiniteSet(is) /\ Cardinality(is) \in 0 .. n
         /\ \A i \in is : Place(is, i) \in 1 .. Cardinality(is)
         /\ \A i, j \in is : i < j => Place(is, i) < Place(is, j)
<1> \A i \in is : i \in Nat
  OBVIOUS
<1>1. IsFiniteSet(is) /\ Cardinality(is) \in 0 .. n
  <2>1. IsFiniteSet(1 .. n) /\ Cardinality(1 .. n) = n
    BY FS_Interval
  <2>2. IsFiniteSet(is) /\ Cardinality(is) <= n
    BY <2>1, FS_Subset
  <2>3. Cardinality(is) \in Nat
    BY <2>2, FS_CardinalityType
  <2>4. QED
    BY <2>2, <2>3
<1>2. ASSUME NEW i \in is
      PROVE  /\ IsFiniteSet({j \in is : j <= i}) /\ Place(is, i) \in Nat
             /\ Place(is, i) \in 1 .. Cardinality(is)
  <2>1. {j \in is : j <= i} \in SUBSET is /\ i \in {j \in is : j <= i}
    OBVIOUS
  <2>2. IsFiniteSet({j \in is : j <= i}) /\ Place(is, i) <= Cardinality(is)
    BY <1>1, <2>1, FS_Subset DEF Place
  <2>3. Place(is, i) \in Nat /\ Place(is, i) # 0
    BY <2>1, <2>2, FS_CardinalityType, FS_EmptySet DEF Place
  <2>4. QED
    BY <1>1, <2>2, <2>3
<1>3. ASSUME NEW i \in is, NEW j \in is, i < j
      PROVE  Place(is, i) < Place(is, j)
  <2>1. /\ {k \in is : k <= i} \in SUBSET {k \in is : k <= j}
        /\ j \in {k \in is : k <= j} /\ j \notin {k \in is : k <= i}
    <3>1. i \in Nat /\ j \in Nat
      OBVIOUS
    <3>2. \A k \in is : k \in Nat /\ (k <= i => k <= j)
      BY <1>3, <3>1
    <3>3. j <= j /\ ~(j <= i)
      BY <1>3, <3>1
    <3>4. QED
      BY <3>2, <3>3
  <2>2. Place(is, i) <= Place(is, j) /\ Place(is, i) # Place(is, j)
    BY <1>2, <2>1, FS_Subset DEF Place
  <2>3. Place(is, i) \in Nat /\ Place(is, j) \in Nat
    BY <1>2
  <2>4. QED
    BY <2>2, <2>3
<1>4. QED
  BY <1>1, <1>2, <1>3

\* Each place is taken, by one entry.
LEMMA PlacesTaken ==
  ASSUME NEW n \in Nat, NEW is \in SUBSET (1 .. n)
  PROVE  /\ \A k \in 1 .. Cardinality(is) :
              Entrant(is, k) \in is /\ Place(is, Entrant(is, k)) = k
         /\ \A i \in is : Entrant(is, Place(is, i)) = i
<1> DEFINE m == Cardinality(is)
           f == [i \in is |-> Place(is, i)]
<1>1. f \in Injection(is, 1 .. m)
  <2>1. \A i, j \in is : Place(is, i) = Place(is, j) => i = j
    BY PlacesInOrder
  <2>2. f \in [is -> 1 .. m]
    BY PlacesInOrder
  <2>3. QED
    BY <2>1, <2>2 DEF Injection, IsInjective
<1>2. IsFiniteSet(1 .. m) /\ Cardinality(1 .. m) = m
  <2>1. Cardinality(is) \in 0 .. n
    BY PlacesInOrder
  <2>2. m \in Nat
    BY <2>1
  <2>3. QED
    BY <2>2, FS_Interval
<1>3. f \in Surjection(is, 1 .. m)
  BY <1>1, <1>2, FS_Injection
<1>4. \A k \in 1 .. m : \E i \in is : Place(is, i) = k
  BY <1>3 DEF Surjection
<1>5. \A k \in 1 .. m : Entrant(is, k) \in is /\ Place(is, Entrant(is, k)) = k
  BY <1>4 DEF Entrant
<1>6. \A i, j \in is : Place(is, i) = Place(is, j) => i = j
  BY PlacesInOrder
<1>7. QED
  BY <1>5, <1>6, PlacesInOrder

\* What is left of an array: entries that stay, each once.
LEMMA KeepProperties ==
  ASSUME NEW T, NEW r \in Seq(T), NEW is \in SUBSET DOMAIN r
  PROVE  /\ Keep(r, is) \in Seq(T) /\ Len(Keep(r, is)) <= Len(r)
         /\ DOMAIN Keep(r, is) = 1 .. Cardinality(is)
         /\ \A k \in DOMAIN Keep(r, is) :
              Entrant(is, k) \in is /\ Keep(r, is)[k] = r[Entrant(is, k)]
         /\ \A k, l \in DOMAIN Keep(r, is) : k # l => Entrant(is, k) # Entrant(is, l)
         /\ \A i \in is : \E k \in DOMAIN Keep(r, is) : Entrant(is, k) = i
<1>1. Len(r) \in Nat /\ is \in SUBSET (1 .. Len(r)) /\ \A i \in is : r[i] \in T
  OBVIOUS
<1>2. /\ Cardinality(is) \in 0 .. Len(r)
      /\ \A i \in is : Place(is, i) \in 1 .. Cardinality(is)
  BY <1>1, PlacesInOrder
<1>3. \A k \in 1 .. Cardinality(is) : Entrant(is, k) \in is /\ Place(is, Entrant(is, k)) = k
  BY <1>1, PlacesTaken
<1>4. \A i \in is : Entrant(is, Place(is, i)) = i
  BY <1>1, PlacesTaken
<1>5. /\ DOMAIN Keep(r, is) = 1 .. Cardinality(is)
      /\ \A k \in DOMAIN Keep(r, is) : Keep(r, is)[k] = r[Entrant(is, k)]
  BY DEF Keep
<1>6. Keep(r, is) \in Seq(T) /\ Len(Keep(r, is)) = Cardinality(is)
  <2>1. Keep(r, is) \in [1 .. Cardinality(is) -> T]
    BY <1>1, <1>3 DEF Keep
  <2>2. Keep(r, is) \in Seq(T)
    BY <1>2, <2>1, SeqDef
  <2>3. QED
    BY <1>2, <1>5, <2>2
<1>7. QED
  BY <1>2, <1>3, <1>4, <1>5, <1>6

\* An array is left as it is when nothing is removed.
LEMMA KeepAll ==
  ASSUME NEW T, NEW r \in Seq(T)
  PROVE  Keep(r, DOMAIN r) = r
<1> DEFINE n == Len(r)
<1>1. n \in Nat /\ DOMAIN r = 1 .. n
  OBVIOUS
<1>2. ASSUME NEW i \in 1 .. n
      PROVE  Place(1 .. n, i) = i
  <2>1. {j \in 1 .. n : j <= i} = 1 .. i
    OBVIOUS
  <2>2. i \in Nat /\ i >= 1 /\ Cardinality(1 .. i) = i
    BY <1>1, FS_Interval
  <2>3. QED
    BY <2>1, <2>2 DEF Place
<1>3. Cardinality(1 .. n) = n
  BY <1>1, FS_Interval
<1>4. \A k \in 1 .. n : Entrant(1 .. n, k) = k
  BY <1>2, <1>1, PlacesTaken
<1>5. QED
  BY <1>1, <1>3, <1>4 DEF Keep

-----------------------------------------------------------------------------
(* The inductive invariant. *)

Begun == {d \in Devices : WasSetUp(d)}

\* Slots of a registry of the kind k that the program can have, when inh says whether
\* an entry took over old contents, and ds are the devices whose setup was begun.
SoundSlots(k, inh, ds, s, n) ==
  /\ s \in [1 .. Capacity -> Slot] /\ n \in 0 .. Capacity
  /\ \A i \in 1 .. n : s[i].addr \in Addrs
  /\ k # "tvoc" => \A i, j \in 1 .. n : i # j => s[i].addr # s[j].addr
  /\ ~(k = "tvoc" /\ inh) => \A i \in 1 .. n : s[i].ieee \in {NoIeee, OwnerOf[s[i].addr]}
  /\ ~(k = "okos" /\ inh) => \A i \in 1 .. n : s[i].configured => OwnerOf[s[i].addr] \in ds

\* The first entry of a device is the one that it got first.
IsOldest(s, d, i) == OwnerOf[s[i].addr] = d /\ \A j \in 1 .. i - 1 : OwnerOf[s[j].addr] # d

\* A siren's oldest entry has the volume it should have, while that is clear.
HasWanted(w, s, n, d) ==
  w[d] # NoVolume =>
    /\ \A i \in 1 .. n : IsOldest(s, d, i) => s[i].volume = w[d]
    /\ (\A i \in 1 .. n : OwnerOf[s[i].addr] # d) => w[d] = DefaultVolume
SoundWanted(k, w, s, n) == k # "tvoc" => \A d \in Devices : HasWanted(w, s, n, d)

\* A file that the program can have, whole or cut off when it is stopped.
SoundFile(k, inh, f) ==
  /\ f \in Seq(Saved) /\ Len(f) <= Capacity
  /\ k # "tvoc" => \A i, j \in DOMAIN f : i # j => f[i].addr # f[j].addr
  /\ ~(k = "tvoc" /\ inh) => \A i \in DOMAIN f : f[i].ieee = OwnerOf[f[i].addr]

DeviceIInv ==
  /\ TypeOK /\ FileIsCurrent
  /\ SoundSlots(kind, inherited, Begun, slots, num)
  /\ SoundWanted(kind, wanted, slots, num)
  /\ SoundFile(kind, inherited, file)
  /\ setting # NoAddr /\ ~IsSiren => slotSet # 0

LEMMA DeviceConstants ==
  /\ OwnerOf \in [Addrs -> Devices] /\ NoIeee \notin Devices /\ NoAddr \notin Addrs
  /\ Capacity \in Nat /\ Capacity # 0 /\ MaxRestarts \in Nat
  /\ DefaultVolume \in Volumes /\ NoVolume \notin Volumes
BY DeviceAssumption

\* The lookup of an entry by its address.
LEMMA EntryIsFound ==
  ASSUME NEW a, num \in Nat
  PROVE  /\ EntryOf(a) = 0 => \A i \in 1 .. num : slots[i].addr # a
         /\ EntryOf(a) # 0 => EntryOf(a) \in 1 .. num /\ slots[EntryOf(a)].addr = a
<1> DEFINE is == {i \in 1 .. num : slots[i].addr = a}
<1>1. is \in SUBSET (Nat \ {0})
  OBVIOUS
<1>2. \A i \in is : i \in 1 .. num /\ slots[i].addr = a
  OBVIOUS
<1>3. \A i \in 1 .. num : slots[i].addr = a => i \in is
  OBVIOUS
<1>4. EntryOf(a) = FirstOf(is)
  BY DEF EntryOf
<1> HIDE DEF is
<1>5. QED
  BY <1>1, <1>2, <1>3, <1>4, FirstIsFound

-----------------------------------------------------------------------------
(* Slots that change. *)

\* An entry changes, and keeps its address unless it is an air-quality sensor's.
LEMMA UpdatedSlot ==
  ASSUME NEW k, NEW inh, NEW ds, NEW es, NEW s, NEW n,
         SoundSlots(k, inh, ds, s, n), ds \subseteq es,
         NEW i \in 1 .. n, NEW e \in Slot, e.addr \in Addrs,
         k # "tvoc" => e.addr = s[i].addr,
         ~(k = "tvoc" /\ inh) => e.ieee \in {NoIeee, OwnerOf[e.addr]},
         ~(k = "okos" /\ inh) => (e.configured => OwnerOf[e.addr] \in es)
  PROVE  SoundSlots(k, inh, es, [s EXCEPT ![i] = e], n)
<1> DEFINE t == [s EXCEPT ![i] = e]
<1>1. s \in [1 .. Capacity -> Slot] /\ n \in 0 .. Capacity /\ i \in 1 .. Capacity
  BY DeviceConstants DEF SoundSlots
<1>2. t \in [1 .. Capacity -> Slot] /\ t[i] = e /\ \A j \in 1 .. n : j # i => t[j] = s[j]
  BY <1>1
<1> HIDE DEF t
<1>3. \A j \in 1 .. n : t[j].addr \in Addrs
  BY <1>2 DEF SoundSlots
<1>4. k # "tvoc" => \A j, l \in 1 .. n : j # l => t[j].addr # t[l].addr
  <2>1. k # "tvoc" => \A j \in 1 .. n : t[j].addr = s[j].addr
    BY <1>2
  <2>2. QED
    BY <2>1 DEF SoundSlots
<1>5. ~(k = "tvoc" /\ inh) => \A j \in 1 .. n : t[j].ieee \in {NoIeee, OwnerOf[t[j].addr]}
  BY <1>2 DEF SoundSlots
<1>6. ~(k = "okos" /\ inh) => \A j \in 1 .. n : t[j].configured => OwnerOf[t[j].addr] \in es
  BY <1>2 DEF SoundSlots
<1>7. SoundSlots(k, inh, es, t, n)
  BY <1>1, <1>2, <1>3, <1>4, <1>5, <1>6 DEF SoundSlots
<1>8. QED
  BY <1>7 DEF t

\* An entry is removed: each of the others is where it was, or one slot before.
LEMMA MovedSlots ==
  ASSUME NEW k, NEW inh, NEW ds, NEW s, NEW n,
         SoundSlots(k, inh, ds, s, n), NEW i \in 1 .. n
  PROVE  /\ SoundSlots(k, inh, ds, MoveDown(s, i, n), n - 1)
         /\ \A j \in 1 .. n - 1 :
              MoveDown(s, i, n)[j] = IF j < i THEN s[j] ELSE s[j + 1]
<1> DEFINE t == MoveDown(s, i, n)
           At(j) == IF j < i THEN j ELSE j + 1
<1>1. s \in [1 .. Capacity -> Slot] /\ n \in 0 .. Capacity /\ i \in Nat /\ n \in Nat
      /\ Capacity \in Nat
  BY DeviceConstants DEF SoundSlots
<1>2. t \in [1 .. Capacity -> Slot]
  BY <1>1 DEF MoveDown
<1>3. \A j \in 1 .. n - 1 : /\ At(j) \in 1 .. n /\ t[j] = s[At(j)]
                           /\ \A l \in 1 .. n - 1 : j # l => At(j) # At(l)
  BY <1>1 DEF MoveDown
<1>4. \A j \in 1 .. n - 1 : t[j] = IF j < i THEN s[j] ELSE s[j + 1]
  BY <1>3
<1>5. n - 1 \in 0 .. Capacity
  BY <1>1
<1> HIDE DEF t, At
<1>6. SoundSlots(k, inh, ds, t, n - 1)
  BY <1>2, <1>3, <1>5 DEF SoundSlots
<1>7. QED
  BY <1>4, <1>6 DEF t

-----------------------------------------------------------------------------
(* The volume that a siren should have. *)

\* An entry that changes, but for its volume, says what it said.
LEMMA UpdatedWanted ==
  ASSUME NEW k, NEW w, NEW s, NEW n \in 0 .. Capacity, s \in [1 .. Capacity -> Slot],
         SoundWanted(k, w, s, n),
         NEW i \in 1 .. n, NEW e, k # "tvoc" => e.addr = s[i].addr /\ e.volume = s[i].volume
  PROVE  SoundWanted(k, w, [s EXCEPT ![i] = e], n)
<1> DEFINE t == [s EXCEPT ![i] = e]
<1>1. n \in Nat /\ Capacity \in Nat /\ n <= Capacity
  BY DeviceConstants
<1>2. ASSUME k # "tvoc"
      PROVE  \A j \in 1 .. n : t[j].addr = s[j].addr /\ t[j].volume = s[j].volume
  BY <1>1, <1>2
<1> HIDE DEF t
<1>3. ASSUME k # "tvoc", NEW d \in Devices
      PROVE  HasWanted(w, t, n, d)
  <2>1. \A j \in 1 .. n : IsOldest(t, d, j) => IsOldest(s, d, j)
    BY <1>1, <1>2, <1>3 DEF IsOldest
  <2>2. HasWanted(w, s, n, d)
    BY <1>3 DEF SoundWanted
  <2>3. QED
    BY <1>2, <1>3, <2>1, <2>2 DEF HasWanted
<1>4. SoundWanted(k, w, t, n)
  BY <1>3 DEF SoundWanted
<1>5. QED
  BY <1>4 DEF t

\* What is removed says nothing of other devices.
LEMMA MovedWanted ==
  ASSUME NEW w, NEW s, NEW n \in Nat, NEW i \in 1 .. n, NEW t, NEW d,
         \A j \in 1 .. n - 1 : t[j] = IF j < i THEN s[j] ELSE s[j + 1],
         HasWanted(w, s, n, d), OwnerOf[s[i].addr] # d
  PROVE  HasWanted(w, t, n - 1, d)
<1>1. ASSUME NEW j \in 1 .. n - 1, IsOldest(t, d, j)
      PROVE  \E l \in 1 .. n : IsOldest(s, d, l) /\ s[l] = t[j]
  <2>1. CASE j < i
    <3>1. \A l \in 1 .. j : t[l] = s[l]
      BY <2>1
    <3>2. QED
      BY <1>1, <2>1, <3>1 DEF IsOldest
  <2>2. CASE ~(j < i)
    <3>1. t[j] = s[j + 1] /\ j + 1 \in 1 .. n
      BY <2>2
    <3>2. ASSUME NEW l \in 1 .. j
          PROVE  OwnerOf[s[l].addr] # d
      <4>1. CASE l < i
        <5>1. l \in 1 .. j - 1 /\ t[l] = s[l]
          BY <2>2, <4>1
        <5>2. QED
          BY <1>1, <5>1 DEF IsOldest
      <4>2. CASE l = i
        BY <4>2
      <4>3. CASE l > i
        <5>1. l - 1 \in 1 .. j - 1 /\ l - 1 \in 1 .. n - 1 /\ ~(l - 1 < i) /\ (l - 1) + 1 = l
          BY <4>3
        <5>2. t[l - 1] = s[l]
          BY <5>1
        <5>3. QED
          BY <1>1, <5>1, <5>2 DEF IsOldest
      <4>4. QED
        BY <4>1, <4>2, <4>3
    <3>3. IsOldest(s, d, j + 1)
      <4>1. (j + 1) - 1 = j
        OBVIOUS
      <4>2. QED
        BY <1>1, <3>1, <3>2, <4>1 DEF IsOldest
    <3>4. QED
      BY <3>1, <3>3
  <2>3. QED
    BY <2>1, <2>2
<1>2. ASSUME \A j \in 1 .. n - 1 : OwnerOf[t[j].addr] # d
      PROVE  \A l \in 1 .. n : OwnerOf[s[l].addr] # d
  <2>1. ASSUME NEW l \in 1 .. n
        PROVE  OwnerOf[s[l].addr] # d
    <3>1. CASE l < i
      <4>1. l \in 1 .. n - 1 /\ t[l] = s[l]
        BY <3>1
      <4>2. QED
        BY <1>2, <4>1
    <3>2. CASE l = i
      BY <3>2
    <3>3. CASE l > i
      <4>1. l - 1 \in 1 .. n - 1 /\ ~(l - 1 < i) /\ (l - 1) + 1 = l
        BY <3>3
      <4>2. t[l - 1] = s[l]
        BY <4>1
      <4>3. QED
        BY <1>2, <4>1, <4>2
    <3>4. QED
      BY <3>1, <3>2, <3>3
  <2>2. QED
    BY <2>1
<1>3. QED
  BY <1>1, <1>2 DEF HasWanted

\* A merge into entry t that has passed the entries of d from i on: t is the newest, and
\* the oldest stays, or all before i are removed.
IsClear(s, n, t, i, d) ==
  /\ \A j \in 1 .. n : OwnerOf[s[j].addr] = d => j <= t
  /\ \/ \E o \in 1 .. n : IsOldest(s, d, o) /\ s[o].ieee = NoIeee
     \/ \A j \in 1 .. n : OwnerOf[s[j].addr] = d /\ j # t => j < i /\ s[j].ieee # NoIeee

\* What is left in m when entry i is removed, and entry t has become x.
IsLeft(m, s, n, i, t, x) ==
  \A j \in 1 .. n - 1 : m[j] = IF j < i THEN s[j] ELSE IF j + 1 = t THEN x ELSE s[j + 1]

\* The entry that is merged into takes over the volume of entry i, which is removed.
LEMMA RemovalIsClear ==
  ASSUME NEW w, NEW s, NEW n \in Nat, NEW t \in 1 .. n, NEW i \in 1 .. n, NEW d,
         i # t, OwnerOf[s[i].addr] = d, s[i].ieee # NoIeee, OwnerOf[s[t].addr] = d,
         IsClear(s, n, t, i + 1, d), HasWanted(w, s, n, d),
         NEW x, x.addr = s[t].addr, x.volume = s[i].volume,
         NEW m, IsLeft(m, s, n, i, t, x)
  PROVE  i < t /\ IsClear(m, n - 1, t - 1, i, d) /\ HasWanted(w, m, n - 1, d)
<1>1. i < t /\ t - 1 \in 1 .. n - 1 /\ ~(t - 1 < i) /\ (t - 1) + 1 = t
  BY DEF IsClear
<1>2. m[t - 1] = x
  BY <1>1 DEF IsLeft
<1>3. \A j \in 1 .. i - 1 : m[j] = s[j] /\ j \in 1 .. n - 1
  BY <1>1 DEF IsLeft
<1>4. ASSUME NEW j \in 1 .. n - 1, ~(j < i)
      PROVE  j + 1 \in 1 .. n /\ m[j].addr = s[j + 1].addr
  BY <1>4 DEF IsLeft
<1>5. \A j \in 1 .. n - 1 : OwnerOf[m[j].addr] = d => j <= t - 1
  <2>1. ASSUME NEW j \in 1 .. n - 1, OwnerOf[m[j].addr] = d
        PROVE  j <= t - 1
    <3>1. CASE j < i
      BY <1>1, <3>1
    <3>2. CASE ~(j < i)
      <4>1. j + 1 <= t
        BY <1>4, <2>1, <3>2 DEF IsClear
      <4>2. QED
        BY <4>1
    <3>3. QED
      BY <3>1, <3>2
  <2>2. QED
    BY <2>1
<1>6. CASE \E o \in 1 .. n : IsOldest(s, d, o) /\ s[o].ieee = NoIeee
  <2>1. PICK o \in 1 .. n : IsOldest(s, d, o) /\ s[o].ieee = NoIeee
    BY <1>6
  <2>2. o < i /\ o \in 1 .. n - 1
    <3>1. ~(i \in 1 .. o - 1) /\ o # i
      BY <2>1 DEF IsOldest
    <3>2. QED
      BY <1>1, <3>1
  <2>3. \A j \in 1 .. o : m[j] = s[j] /\ j \in 1 .. i - 1
    BY <1>3, <2>2
  <2>4. IsOldest(m, d, o) /\ m[o] = s[o]
    BY <2>1, <2>3 DEF IsOldest
  <2>5. \A j \in 1 .. n - 1 : IsOldest(m, d, j) => j = o
    <3>1. ASSUME NEW j \in 1 .. n - 1, IsOldest(m, d, j)
          PROVE  ~(j < o) /\ ~(o < j)
      BY <2>2, <2>4, <3>1 DEF IsOldest
    <3>2. QED
      BY <2>2, <3>1
  <2>6. HasWanted(w, m, n - 1, d)
    BY <2>1, <2>2, <2>4, <2>5 DEF HasWanted, IsOldest
  <2>7. IsClear(m, n - 1, t - 1, i, d)
    BY <1>5, <2>1, <2>2, <2>4 DEF IsClear
  <2>8. QED
    BY <1>1, <2>6, <2>7
<1>7. CASE \A j \in 1 .. n : OwnerOf[s[j].addr] = d /\ j # t => j < i + 1 /\ s[j].ieee # NoIeee
  <2>1. \A j \in 1 .. n - 1 : OwnerOf[m[j].addr] = d /\ j # t - 1 => j < i /\ m[j].ieee # NoIeee
    <3>1. ASSUME NEW j \in 1 .. n - 1, OwnerOf[m[j].addr] = d, j # t - 1
          PROVE  j < i /\ m[j].ieee # NoIeee
      <4>1. CASE j < i
        <5>1. j \in 1 .. n /\ j # t /\ m[j] = s[j]
          BY <1>1, <1>3, <4>1
        <5>2. QED
          BY <1>7, <3>1, <4>1, <5>1
      <4>2. CASE ~(j < i)
        <5>1. j + 1 \in 1 .. n /\ OwnerOf[s[j + 1].addr] = d /\ j + 1 # t
          BY <1>1, <1>4, <3>1, <4>2
        <5>2. j + 1 < i + 1
          BY <1>7, <5>1
        <5>3. QED
          BY <4>2, <5>2
      <4>3. QED
        BY <4>1, <4>2
    <3>2. QED
      BY <3>1
  <2>2. ASSUME w[d] # NoVolume, NEW j \in 1 .. n - 1, IsOldest(m, d, j)
        PROVE  m[j].volume = w[d]
    <3>1. CASE j < i
      <4>1. \A l \in 1 .. j : m[l] = s[l] /\ l \in 1 .. n
        BY <1>3, <3>1
      <4>2. IsOldest(s, d, j) /\ m[j] = s[j] /\ j \in 1 .. n
        BY <2>2, <4>1 DEF IsOldest
      <4>3. QED
        BY <2>2, <4>2 DEF HasWanted
    <3>2. CASE ~(j < i)
      <4>1. j = t - 1
        BY <2>1, <2>2, <3>2 DEF IsOldest
      <4>2. \A l \in 1 .. i - 1 : l \in 1 .. j - 1 /\ m[l] = s[l]
        BY <1>3, <3>2
      <4>3. IsOldest(s, d, i)
        BY <2>2, <4>2 DEF IsOldest
      <4>4. QED
        BY <1>2, <2>2, <4>1, <4>3 DEF HasWanted
    <3>3. QED
      BY <3>1, <3>2
  <2>3. HasWanted(w, m, n - 1, d)
    BY <1>1, <1>2, <2>2 DEF HasWanted
  <2>4. IsClear(m, n - 1, t - 1, i, d)
    BY <1>5, <2>1 DEF IsClear
  <2>5. QED
    BY <1>1, <2>3, <2>4
<1>8. QED
  BY <1>6, <1>7 DEF IsClear

-----------------------------------------------------------------------------
(* Merges. *)

\* The passes of a merge: each does its round on what the one before has left.
LEMMA MergeIsPasses ==
  ASSUME NEW a, num \in Nat
  PROVE  \E p : /\ Merged(a) = p[1] /\ p[num + 1] = MergeStart(a)
                /\ \A i \in 1 .. num : p[i] = MergeStep(a, i, p[i + 1])
<1> DEFINE Goes(k, p) == p = [i \in k .. num + 1 |->
                                IF i = num + 1 THEN MergeStart(a) ELSE MergeStep(a, i, p[i + 1])]
           bad == {n \in 0 .. num : ~ \E p : Goes(num + 1 - n, p)}
<1>1. Merged(a) = (CHOOSE p : Goes(1, p))[1]
  BY DEF Merged
<1>2. \A n \in 0 .. num : n \notin bad => \E p : Goes(num + 1 - n, p)
  OBVIOUS
<1>3. bad = {}
  <2>1. SUFFICES ASSUME bad # {} PROVE FALSE
    OBVIOUS
  <2>2. bad \in SUBSET Nat
    OBVIOUS
  <2>3. PICK n \in bad : \A m \in bad : n <= m
    BY <2>1, <2>2, SmallestExists
  <2>4. n \in 0 .. num /\ ~ \E p : Goes(num + 1 - n, p)
    OBVIOUS
  <2>5. CASE n = 0
    <3> DEFINE p == [i \in {num + 1} |-> MergeStart(a)]
    <3>1. num + 1 - n = num + 1 /\ num + 1 .. num + 1 = {num + 1}
      BY <2>5
    <3>2. Goes(num + 1 - n, p)
      BY <3>1
    <3>3. QED
      BY <2>4, <3>2
  <2>6. CASE n # 0
    <3>1. n - 1 \in 0 .. num /\ n - 1 \notin bad
      <4>1. n - 1 \in 0 .. num /\ ~(n <= n - 1)
        BY <2>4, <2>6
      <4> HIDE DEF bad
      <4>2. QED
        BY <2>3, <4>1
    <3>2. PICK q : Goes(num + 1 - (n - 1), q)
      BY <1>2, <3>1
    <3> DEFINE k == num + 1 - n
               p == [i \in k .. num + 1 |-> IF i = k THEN MergeStep(a, k, q[k + 1]) ELSE q[i]]
    <3>3. k \in 1 .. num /\ num + 1 - (n - 1) = k + 1
      BY <2>4, <2>6
    <3>4. \A i \in k + 1 .. num + 1 :
            q[i] = IF i = num + 1 THEN MergeStart(a) ELSE MergeStep(a, i, q[i + 1])
      BY <3>2, <3>3
    <3>5. \A i \in k .. num + 1 :
            p[i] = IF i = num + 1 THEN MergeStart(a) ELSE MergeStep(a, i, p[i + 1])
      BY <3>3, <3>4
    <3>6. Goes(k, p)
      BY <3>5
    <3>7. QED
      BY <2>4, <3>6
  <2>7. QED
    BY <2>5, <2>6
<1>4. PICK p : p = (CHOOSE q : Goes(1, q)) /\ Goes(1, p)
  <2> HIDE DEF bad
  <2>1. num \in 0 .. num /\ num \notin bad /\ num + 1 - num = 1
    BY <1>3
  <2>2. \E q : Goes(num + 1 - num, q)
    BY <1>2, <2>1
  <2>3. QED
    BY <2>1, <2>2
<1>5. \A i \in 1 .. num + 1 :
        p[i] = IF i = num + 1 THEN MergeStart(a) ELSE MergeStep(a, i, p[i + 1])
  BY <1>4
<1>6. p[num + 1] = MergeStart(a) /\ \A i \in 1 .. num : p[i] = MergeStep(a, i, p[i + 1])
  BY <1>5
<1>7. QED
  BY <1>1, <1>4, <1>6

\* What r, a registry during the merge of a, is like when the entries from i on were passed.
Merging(a, i, r) ==
  /\ SoundSlots(kind, inherited, Begun, r.slots, r.num)
  /\ r.num \in i - 1 .. num /\ r.target \in 1 .. r.num /\ r.slots[r.target].addr = a
  /\ kind # "tvoc" => \A d \in Devices \ {OwnerOf[a]} : HasWanted(wanted, r.slots, r.num, d)
  /\ kind # "tvoc" /\ MergeIsClear(a) =>
       /\ IsClear(r.slots, r.num, r.target, i, OwnerOf[a])
       /\ HasWanted(wanted, r.slots, r.num, OwnerOf[a])

\* What the invariant says of the types.
LEMMA DeviceFacts ==
  ASSUME DeviceIInv
  PROVE  /\ slots \in [1 .. Capacity -> Slot] /\ num \in 0 .. Capacity /\ num \in Nat
         /\ \A i \in 1 .. num : i \in 1 .. Capacity /\ slots[i] \in Slot /\ slots[i].addr \in Addrs
         /\ kind \in Kinds /\ cached \subseteq Addrs /\ Capacity \in Nat
         /\ \A a \in Addrs : OwnerOf[a] \in Devices /\ OwnerOf[a] # NoIeee
BY DeviceConstants DEF DeviceIInv, TypeOK, SoundSlots

\* The entry of a gets its IEEE address.
LEMMA MergeStarts ==
  ASSUME DeviceIInv, NEW a \in Addrs, EntryOf(a) # 0
  PROVE  Merging(a, num + 1, MergeStart(a))
<1> DEFINE t == EntryOf(a)
           d == OwnerOf[a]
           x == [slots[t] EXCEPT !.ieee = d]
           s == [slots EXCEPT ![t] = x]
           r == MergeStart(a)
<1>1. t \in 1 .. num /\ slots[t].addr = a /\ slots[t] \in Slot
  BY DeviceFacts, EntryIsFound
<1>2. r = [slots |-> s, num |-> num, target |-> t]
  BY DEF MergeStart
<1>3. r.slots = s /\ r.num = num /\ r.target = t
  BY <1>2
<1> HIDE DEF r
<1>4. d \in Devices
  BY DeviceFacts
<1>5. /\ x \in Slot /\ x.addr = a /\ x.ieee = d /\ x.volume = slots[t].volume
      /\ x.configured = slots[t].configured
  BY <1>1, <1>4 DEF Slot
<1> HIDE DEF x, t
<1>6. SoundSlots(kind, inherited, Begun, s, num)
  <2>1. SoundSlots(kind, inherited, Begun, slots, num)
    BY DEF DeviceIInv
  <2>2. ~(kind = "okos" /\ inherited) => (x.configured => OwnerOf[x.addr] \in Begun)
    BY <1>1, <1>5, <2>1 DEF SoundSlots
  <2>3. QED
    BY <1>1, <1>5, <2>1, <2>2, UpdatedSlot
<1>7. SoundWanted(kind, wanted, s, num)
  BY <1>1, <1>5, DeviceFacts, UpdatedWanted DEF DeviceIInv
<1>8. num \in num + 1 - 1 .. num /\ t \in 1 .. num /\ s[t].addr = a
  BY <1>1, <1>5, DeviceFacts
<1>9. ASSUME kind # "tvoc", MergeIsClear(a)
      PROVE  IsClear(s, num, t, num + 1, d)
  <2>1. \A j \in 1 .. num : s[j].addr = slots[j].addr /\ (j # t => s[j] = slots[j])
    BY <1>1, <1>5, DeviceFacts
  <2>2. \A j \in 1 .. num : j \in EntriesOf(d) <=> OwnerOf[slots[j].addr] = d
    BY DeviceFacts DEF EntriesOf
  <2> DEFINE others == EntriesOf(d) \ {t}
  <2>3. others \in SUBSET (1 .. num) /\ \A j \in 1 .. num : j \in others <=> OwnerOf[slots[j].addr] = d /\ j # t
    BY <2>2 DEF EntriesOf
  <2>4. /\ \A j \in others : j < t
        /\ \/ \E o \in others : slots[o].ieee = NoIeee /\ \A j \in others : o <= j
           \/ \A j \in others : slots[j].ieee # NoIeee
    BY <1>9 DEF MergeIsClear, t
  <2> HIDE DEF others, s
  <2>5. \A j \in 1 .. num : OwnerOf[s[j].addr] = d => j <= t
    BY <1>1, <2>1, <2>3, <2>4
  <2>6. CASE \E o \in others : slots[o].ieee = NoIeee /\ \A j \in others : o <= j
    <3>1. PICK o \in others : slots[o].ieee = NoIeee /\ \A j \in others : o <= j
      BY <2>6
    <3>2. o \in 1 .. num /\ o # t /\ o < t /\ OwnerOf[slots[o].addr] = d
      BY <2>3, <2>4
    <3>3. \A j \in 1 .. o - 1 : j \in 1 .. num /\ j \notin others /\ j # t
      BY <1>1, <3>1, <3>2, DeviceFacts
    <3>4. IsOldest(s, d, o)
      BY <2>1, <2>3, <3>2, <3>3 DEF IsOldest
    <3>5. QED
      BY <2>1, <2>5, <3>1, <3>2, <3>4 DEF IsClear
  <2>7. CASE \A j \in others : slots[j].ieee # NoIeee
    <3>1. \A j \in 1 .. num : j < num + 1
      BY DeviceFacts
    <3>2. QED
      BY <2>1, <2>3, <2>5, <2>7, <3>1 DEF IsClear
  <2>8. QED
    BY <2>4, <2>6, <2>7
<1> HIDE DEF s
<1>10. kind # "tvoc" => \A e \in Devices : HasWanted(wanted, s, num, e)
  BY <1>7 DEF SoundWanted
<1>11. Merging(a, num + 1, r)
  BY <1>3, <1>4, <1>6, <1>8, <1>9, <1>10 DEF Merging
<1>12. QED
  BY <1>11 DEF r

\* A round of the loop, which removes entry i or leaves it.
LEMMA MergeGoesOn ==
  ASSUME DeviceIInv, NEW a \in Addrs, NEW i \in 1 .. num, NEW r, Merging(a, i + 1, r)
  PROVE  Merging(a, i, MergeStep(a, i, r))
<1> DEFINE e == r.slots[i]
           d == OwnerOf[a]
           t == r.target
           n == r.num
           s == r.slots
<1>1. /\ SoundSlots(kind, inherited, Begun, s, n) /\ s \in [1 .. Capacity -> Slot]
      /\ n \in i .. num /\ n \in Nat /\ i \in 1 .. n /\ t \in 1 .. n /\ s[t].addr = a
      /\ \A j \in 1 .. n : j \in 1 .. Capacity /\ s[j] \in Slot
  <2>1. n \in (i + 1) - 1 .. num /\ num \in Nat /\ i \in Nat /\ num <= Capacity /\ Capacity \in Nat
    BY DeviceFacts DEF Merging
  <2>2. SoundSlots(kind, inherited, Begun, s, n)
    BY DEF Merging
  <2>3. s \in [1 .. Capacity -> Slot]
    BY <2>2 DEF SoundSlots
  <2>4. QED
    BY <2>1, <2>2, <2>3 DEF Merging
<1>2. d \in Devices /\ d # NoIeee
  BY DeviceFacts
<1>3. CASE e.addr = a \/ e.ieee # d
  <2>1. MergeStep(a, i, r) = r
    BY <1>3 DEF MergeStep
  <2>2. ASSUME kind # "tvoc", MergeIsClear(a)
        PROVE  IsClear(s, n, t, i, d)
    <3>1. IsClear(s, n, t, i + 1, d)
      BY <2>2 DEF Merging
    <3>2. e.addr = a => i = t
      BY <1>1, <2>2 DEF SoundSlots
    <3>3. OwnerOf[e.addr] = d => e.ieee \in {NoIeee, d}
      BY <1>1, <2>2 DEF SoundSlots
    <3>4. OwnerOf[s[i].addr] = d /\ i # t => s[i].ieee = NoIeee
      BY <1>3, <3>2, <3>3
    <3>5. \A j \in 1 .. n : j < i + 1 /\ j # i => j < i
      BY <1>1
    <3>6. CASE \A j \in 1 .. n : OwnerOf[s[j].addr] = d /\ j # t => j < i + 1 /\ s[j].ieee # NoIeee
      <4>1. \A j \in 1 .. n : OwnerOf[s[j].addr] = d /\ j # t => j < i /\ s[j].ieee # NoIeee
        BY <1>1, <3>4, <3>5, <3>6
      <4>2. QED
        BY <3>1, <4>1 DEF IsClear
    <3>7. CASE \E o \in 1 .. n : IsOldest(s, d, o) /\ s[o].ieee = NoIeee
      BY <3>1, <3>7 DEF IsClear
    <3>8. QED
      BY <3>1, <3>6, <3>7 DEF IsClear
  <2>3. n \in i - 1 .. num
    BY <1>1, DeviceFacts
  <2>4. QED
    BY <1>1, <2>1, <2>2, <2>3 DEF Merging
<1>4. CASE e.addr # a /\ e.ieee = d
  <2> DEFINE x == TakeOver(e, s[t])
             kept == [s EXCEPT ![t] = x]
             m == MoveDown(kept, i, n)
             u == IF t > i THEN t - 1 ELSE t
  <2>1. MergeStep(a, i, r) = [slots |-> m, num |-> n - 1, target |-> u]
    BY <1>4 DEF MergeStep
  <2>2. /\ x \in Slot /\ x.addr = a /\ x.ieee = s[t].ieee
        /\ kind # "tvoc" => x.volume = e.volume /\ x.configured = e.configured
        /\ kind = "tvoc" => x = s[t]
    <3>1. e \in Slot /\ s[t] \in Slot
      BY <1>1
    <3>2. CASE kind # "tvoc"
      <4>1. x = [s[t] EXCEPT !.configured = e.configured, !.volume = e.volume]
        BY <3>2 DEF TakeOver, IsSiren
      <4>2. QED
        BY <1>1, <3>1, <3>2, <4>1 DEF Slot
    <3>3. CASE kind = "tvoc"
      BY <1>1, <3>1, <3>3 DEF TakeOver, IsSiren
    <3>4. QED
      BY <3>2, <3>3
  <2>3. i # t
    BY <1>1, <1>4
  <2>4. kind # "tvoc" => OwnerOf[e.addr] = d
    BY <1>1, <1>2, <1>4 DEF SoundSlots
  <2> HIDE DEF x
  <2>5. SoundSlots(kind, inherited, Begun, kept, n)
    <3>1. ~(kind = "tvoc" /\ inherited) => x.ieee \in {NoIeee, OwnerOf[x.addr]}
      BY <1>1, <2>2 DEF SoundSlots
    <3>2. ~(kind = "okos" /\ inherited) => (x.configured => OwnerOf[x.addr] \in Begun)
      <4>1. CASE kind = "tvoc"
        BY <1>1, <2>2, <4>1 DEF SoundSlots
      <4>2. CASE kind # "tvoc"
        BY <1>1, <2>2, <2>4, <4>2 DEF SoundSlots
      <4>3. QED
        BY <4>1, <4>2
    <3>3. QED
      BY <1>1, <2>2, <3>1, <3>2, UpdatedSlot
  <2>6. /\ DOMAIN kept = 1 .. Capacity /\ kept[t] = x
        /\ \A j \in 1 .. n : j # t => kept[j] = s[j]
    BY <1>1
  <2> HIDE DEF kept
  <2>7. /\ SoundSlots(kind, inherited, Begun, m, n - 1)
        /\ \A j \in 1 .. n - 1 : m[j] = IF j < i THEN kept[j] ELSE kept[j + 1]
    BY <1>1, <2>5, MovedSlots
  <2> HIDE DEF m
  <2>8. n - 1 \in i - 1 .. num /\ u \in 1 .. n - 1 /\ m[u].addr = a
    <3>1. n - 1 \in i - 1 .. num
      BY <1>1, DeviceFacts
    <3>2. CASE t > i
      <4>1. u = t - 1 /\ u \in 1 .. n - 1 /\ ~(u < i) /\ u + 1 = t
        BY <1>1, <3>2
      <4>2. m[u] = x
        BY <2>6, <2>7, <4>1
      <4>3. QED
        BY <2>2, <3>1, <4>1, <4>2
    <3>3. CASE ~(t > i)
      <4>1. u = t /\ u < i /\ u \in 1 .. n - 1
        BY <1>1, <2>3, <3>3
      <4>2. m[u] = x
        BY <2>6, <2>7, <4>1
      <4>3. QED
        BY <2>2, <3>1, <4>1, <4>2
    <3>4. QED
      BY <3>2, <3>3
  <2>9. ASSUME kind # "tvoc", NEW f \in Devices \ {d}
        PROVE  HasWanted(wanted, m, n - 1, f)
    <3>1. HasWanted(wanted, s, n, f)
      BY <2>9 DEF Merging
    <3>2. \A j \in 1 .. n : OwnerOf[kept[j].addr] = OwnerOf[s[j].addr]
                            /\ (OwnerOf[s[j].addr] = f => kept[j] = s[j])
      BY <1>1, <2>2, <2>6, <2>9
    <3>3. HasWanted(wanted, kept, n, f)
      <4>1. \A j \in 1 .. n : IsOldest(kept, f, j) => IsOldest(s, f, j)
        BY <1>1, <3>2 DEF IsOldest
      <4>2. \A j \in 1 .. n : IsOldest(kept, f, j) => kept[j] = s[j]
        BY <3>2 DEF IsOldest
      <4>3. QED
        BY <3>1, <3>2, <4>1, <4>2 DEF HasWanted
    <3>4. OwnerOf[kept[i].addr] # f
      BY <1>1, <2>3, <2>4, <2>6, <2>9
    <3>5. QED
      BY <1>1, <2>7, <3>3, <3>4, MovedWanted
  <2>10. ASSUME kind # "tvoc", MergeIsClear(a)
         PROVE  IsClear(m, n - 1, u, i, d) /\ HasWanted(wanted, m, n - 1, d)
    <3>1. IsClear(s, n, t, i + 1, d) /\ HasWanted(wanted, s, n, d)
      BY <2>10 DEF Merging
    <3>2. IsLeft(m, s, n, i, t, x)
      <4>1. i < t
        BY <1>1, <2>3, <2>4, <2>10, <3>1 DEF IsClear
      <4>2. ASSUME NEW j \in 1 .. n - 1, ~(j < i)
            PROVE  j + 1 \in 1 .. n
        BY <1>1
      <4>3. \A j \in 1 .. n - 1 : j < i => j \in 1 .. n /\ j # t
        BY <1>1, <4>1
      <4>4. QED
        BY <2>6, <2>7, <4>2, <4>3 DEF IsLeft
    <3>3. OwnerOf[s[i].addr] = d /\ s[i].ieee # NoIeee /\ OwnerOf[s[t].addr] = d
      BY <1>1, <1>2, <1>4, <2>4, <2>10
    <3>4. x.addr = s[t].addr /\ x.volume = s[i].volume
      BY <1>1, <2>2, <2>10
    <3> HIDE DEF s, n, t, d, u, e
    <3>5. i < t /\ IsClear(m, n - 1, t - 1, i, d) /\ HasWanted(wanted, m, n - 1, d)
      <4>1. n \in Nat /\ t \in 1 .. n /\ i \in 1 .. n
        BY <1>1
      <4>2. QED
        BY ONLY <4>1, <2>3, <3>1, <3>2, <3>3, <3>4, RemovalIsClear
    <3>6. u = t - 1
      BY <1>1, <3>5 DEF u
    <3>7. QED
      BY <3>5, <3>6
  <2> HIDE DEF u
  <2>11. QED
    BY <2>1, <2>7, <2>8, <2>9, <2>10 DEF Merging
<1>5. QED
  BY <1>3, <1>4

\* What the loop leaves.
LEMMA MergedIsSound ==
  ASSUME DeviceIInv, NEW a \in Addrs, EntryOf(a) # 0
  PROVE  Merging(a, 1, Merged(a))
<1>1. PICK p : /\ Merged(a) = p[1] /\ p[num + 1] = MergeStart(a)
               /\ \A i \in 1 .. num : p[i] = MergeStep(a, i, p[i + 1])
  BY DeviceFacts, MergeIsPasses
<1> DEFINE Holds(i) == Merging(a, i, p[i])
           bad == {n \in 0 .. num : ~ Holds(num + 1 - n)}
<1>2. \A n \in 0 .. num : n \notin bad => Holds(num + 1 - n)
  OBVIOUS
<1>3. bad = {}
  <2>1. SUFFICES ASSUME bad # {} PROVE FALSE
    OBVIOUS
  <2>2. bad \in SUBSET Nat
    OBVIOUS
  <2>3. PICK n \in bad : \A m \in bad : n <= m
    BY <2>1, <2>2, SmallestExists
  <2>4. n \in 0 .. num /\ ~ Holds(num + 1 - n) /\ num \in Nat
    BY DeviceFacts
  <2>5. CASE n = 0
    <3>1. num + 1 - n = num + 1
      BY <2>4, <2>5
    <3>2. QED
      BY <1>1, <2>4, <3>1, MergeStarts
  <2>6. CASE n # 0
    <3> DEFINE k == num + 1 - n
    <3>1. n - 1 \in 0 .. num /\ n - 1 \notin bad
      <4>1. n - 1 \in 0 .. num /\ ~(n <= n - 1)
        BY <2>4, <2>6
      <4> HIDE DEF bad
      <4>2. QED
        BY <2>3, <4>1
    <3>2. k \in 1 .. num /\ num + 1 - (n - 1) = k + 1
      BY <2>4, <2>6
    <3>3. Merging(a, k + 1, p[k + 1])
      <4> HIDE DEF bad
      <4>1. Holds(num + 1 - (n - 1))
        BY <1>2, <3>1
      <4>2. QED
        BY <3>2, <4>1
    <3> HIDE DEF k
    <3>4. Merging(a, k, MergeStep(a, k, p[k + 1]))
      BY <3>2, <3>3, MergeGoesOn
    <3>5. Holds(k)
      BY <1>1, <3>2, <3>4
    <3>6. QED
      BY <2>4, <3>5 DEF k
  <2>7. QED
    BY <2>5, <2>6
<1>4. num \in 0 .. num /\ num + 1 - num = 1
  BY DeviceFacts
<1> HIDE DEF bad
<1>5. Holds(num + 1 - num)
  BY <1>2, <1>3, <1>4
<1>6. QED
  BY <1>1, <1>4, <1>5

-----------------------------------------------------------------------------
(* devices.txt. *)

Lines(s, n) == Keep([i \in 1 .. n |-> Line(s[i])], {i \in 1 .. n : s[i].ieee # NoIeee})

\* What is written of sound slots is a sound file.
LEMMA LinesAreSound ==
  ASSUME NEW k, NEW inh, NEW ds, NEW s, NEW n, SoundSlots(k, inh, ds, s, n)
  PROVE  SoundFile(k, inh, Lines(s, n))
<1> DEFINE T == {Line(e) : e \in Slot}
           r == [i \in 1 .. n |-> Line(s[i])]
           is == {i \in 1 .. n : s[i].ieee # NoIeee}
           f == Lines(s, n)
<1>1. n \in Nat /\ n <= Capacity /\ Capacity \in Nat /\ \A i \in 1 .. n : s[i] \in Slot
  BY DeviceConstants DEF SoundSlots
<1>2. r \in Seq(T) /\ Len(r) = n /\ DOMAIN r = 1 .. n
  <2>1. r \in [1 .. n -> T]
    BY <1>1
  <2> HIDE DEF r, T
  <2>2. QED
    BY <1>1, <2>1, SeqDef
<1>3. /\ f \in Seq(T) /\ Len(f) <= n
      /\ \A l \in DOMAIN f : Entrant(is, l) \in is /\ f[l] = r[Entrant(is, l)]
      /\ \A l, m \in DOMAIN f : l # m => Entrant(is, l) # Entrant(is, m)
  <2>1. is \in SUBSET DOMAIN r /\ f = Keep(r, is)
    BY DEF Lines
  <2> HIDE DEF f, is, r, T
  <2>2. QED
    BY <1>2, <2>1, KeepProperties
<1> DEFINE At(l) == Entrant(is, l)
<1> HIDE DEF f
<1>4. ASSUME NEW l \in DOMAIN f
      PROVE  /\ At(l) \in 1 .. n /\ f[l] = Line(s[At(l)]) /\ f[l] \in Saved
             /\ f[l].addr = s[At(l)].addr /\ f[l].ieee = s[At(l)].ieee /\ f[l].ieee # NoIeee
  <2>1. At(l) \in is /\ f[l] = r[At(l)]
    BY <1>3
  <2>2. At(l) \in 1 .. n /\ s[At(l)].ieee # NoIeee
    BY <2>1
  <2> HIDE DEF At
  <2>3. f[l] = Line(s[At(l)])
    BY <2>1, <2>2
  <2>4. s[At(l)] \in Slot /\ s[At(l)].addr \in Addrs
    BY <1>1, <2>2 DEF SoundSlots
  <2>5. QED
    BY <2>2, <2>3, <2>4 DEF Line, Slot, Saved
<1>5. f \in Seq(Saved) /\ Len(f) <= Capacity
  <2>1. Len(f) \in Nat /\ DOMAIN f = 1 .. Len(f) /\ f = [l \in 1 .. Len(f) |-> f[l]]
    BY <1>3
  <2>2. f \in [1 .. Len(f) -> Saved]
    BY <1>4, <2>1
  <2>3. QED
    BY <1>1, <1>3, <2>1, <2>2, SeqDef
<1>6. \A l, m \in DOMAIN f : l # m => At(l) # At(m)
  BY <1>3
<1> HIDE DEF At, is, r
<1>7. k # "tvoc" => \A l, m \in DOMAIN f : l # m => f[l].addr # f[m].addr
  BY <1>4, <1>6 DEF SoundSlots
<1>8. ~(k = "tvoc" /\ inh) => \A l \in DOMAIN f : f[l].ieee = OwnerOf[f[l].addr]
  BY <1>4 DEF SoundSlots
<1>9. SoundFile(k, inh, f)
  BY <1>5, <1>7, <1>8 DEF SoundFile
<1>10. QED
  BY <1>9 DEF f

\* Nothing but addresses and volumes is written.
LEMMA LinesAgree ==
  ASSUME NEW s, NEW t, NEW n, \A i \in 1 .. n : Line(s[i]) = Line(t[i])
  PROVE  Lines(s, n) = Lines(t, n)
<1>1. [i \in 1 .. n |-> Line(s[i])] = [i \in 1 .. n |-> Line(t[i])]
  OBVIOUS
<1>2. \A i \in 1 .. n : s[i].ieee = t[i].ieee
  BY DEF Line
<1>3. {i \in 1 .. n : s[i].ieee # NoIeee} = {i \in 1 .. n : t[i].ieee # NoIeee}
  BY <1>2
<1>4. QED
  BY <1>1, <1>3 DEF Lines

\* What is loaded from a sound file is sound, and would be written just so.
LEMMA LoadedIsSound ==
  ASSUME NEW inh, NEW ds, NEW f, SoundFile(kind, inh, f),
         \A i \in DOMAIN f : OwnerOf[f[i].addr] \in ds
  PROVE  /\ SoundSlots(kind, inh, ds, Load(f), Len(f))
         /\ Lines(Load(f), Len(f)) = f
<1> DEFINE s == Load(f)
           n == Len(f)
<1>1. /\ f \in Seq(Saved) /\ n \in Nat /\ DOMAIN f = 1 .. n /\ n <= Capacity
      /\ Capacity \in Nat
  BY DeviceConstants DEF SoundFile
<1>2. \A i \in 1 .. n : /\ f[i] = [addr |-> f[i].addr, ieee |-> f[i].ieee, volume |-> f[i].volume]
                        /\ f[i].addr \in Addrs /\ f[i].ieee \in Devices /\ f[i].volume \in Volumes
  <2>1. \A i \in 1 .. n : f[i] \in Saved
    BY <1>1
  <2>2. QED
    BY <2>1 DEF Saved
<1>3. \A i \in 1 .. n : /\ s[i] \in Slot /\ s[i].addr = f[i].addr /\ s[i].ieee = f[i].ieee
                        /\ s[i].volume = f[i].volume
  <2>1. \A i \in 1 .. n : s[i] = [addr |-> f[i].addr, ieee |-> f[i].ieee,
                                  configured |-> IsSiren, volume |-> f[i].volume]
    BY <1>1 DEF Load
  <2>2. IsSiren \in BOOLEAN
    BY DEF IsSiren
  <2>3. \A i \in 1 .. n : \E c \in BOOLEAN :
          s[i] = [addr |-> f[i].addr, ieee |-> f[i].ieee, configured |-> c, volume |-> f[i].volume]
    BY <2>1, <2>2
  <2> HIDE DEF s
  <2>4. ASSUME NEW i \in 1 .. n
        PROVE  /\ s[i] \in Slot /\ s[i].addr = f[i].addr /\ s[i].ieee = f[i].ieee
               /\ s[i].volume = f[i].volume
    <3>1. PICK c \in BOOLEAN :
            s[i] = [addr |-> f[i].addr, ieee |-> f[i].ieee, configured |-> c, volume |-> f[i].volume]
      BY <2>3
    <3>2. f[i].addr \in Addrs /\ f[i].ieee \in Devices /\ f[i].volume \in Volumes
      BY <1>2
    <3>3. QED
      BY <3>1, <3>2 DEF Slot
  <2>5. QED
    BY <2>4
<1>4. s \in [1 .. Capacity -> Slot]
  <2>1. NoSlot \in Slot
    BY DeviceConstants DEF NoSlot, Slot
  <2>2. ASSUME NEW i \in 1 .. Capacity
        PROVE  s[i] \in Slot
    <3>1. CASE i \in DOMAIN f
      BY <1>1, <1>3, <3>1
    <3>2. CASE i \notin DOMAIN f
      BY <2>1, <3>2 DEF Load
    <3>3. QED
      BY <3>1, <3>2
  <2>3. QED
    BY <2>2 DEF Load
<1> HIDE DEF s
<1>5. n \in 0 .. Capacity
  BY <1>1
<1>6. \A i \in 1 .. n : Line(s[i]) = f[i] /\ s[i].ieee # NoIeee
  BY <1>2, <1>3, DeviceConstants DEF Line
<1>7. SoundSlots(kind, inh, ds, s, n)
  <2>1. kind # "tvoc" => \A i, j \in 1 .. n : i # j => s[i].addr # s[j].addr
    BY <1>1, <1>3 DEF SoundFile
  <2>2. ~(kind = "tvoc" /\ inh) => \A i \in 1 .. n : s[i].ieee \in {NoIeee, OwnerOf[s[i].addr]}
    BY <1>1, <1>3 DEF SoundFile
  <2>3. \A i \in 1 .. n : s[i].addr \in Addrs /\ OwnerOf[s[i].addr] \in ds
    BY <1>1, <1>2, <1>3
  <2>4. QED
    BY <1>4, <1>5, <2>1, <2>2, <2>3 DEF SoundSlots
<1>8. Lines(s, n) = f
  <2>1. [i \in 1 .. n |-> Line(s[i])] = f
    BY <1>1, <1>6
  <2>2. {i \in 1 .. n : s[i].ieee # NoIeee} = DOMAIN f
    BY <1>1, <1>6
  <2>3. QED
    BY <1>1, <2>1, <2>2, KeepAll DEF Lines
<1>9. QED
  BY <1>7, <1>8 DEF s

\* A file that is cut off is sound.
LEMMA PrefixIsSound ==
  ASSUME NEW k, NEW inh, NEW f, SoundFile(k, inh, f), NEW g \in Prefixes(f)
  PROVE  SoundFile(k, inh, g)
<1>1. PICK l \in 0 .. Len(f) : g = SubSeq(f, 1, l)
  BY DEF Prefixes
<1>2. f \in Seq(Saved) /\ Len(f) \in Nat /\ Len(f) <= Capacity /\ DOMAIN f = 1 .. Len(f)
  BY DEF SoundFile
<1>3. /\ g \in Seq(Saved) /\ Len(g) = l /\ DOMAIN g = 1 .. l
      /\ \A i \in 1 .. l : i \in DOMAIN f /\ g[i] = f[i]
  BY <1>1, <1>2
<1>4. Len(g) <= Capacity
  BY <1>2, <1>3, DeviceConstants
<1>5. QED
  BY <1>3, <1>4 DEF SoundFile

-----------------------------------------------------------------------------
(* A new entry. *)

\* An address is registered in the slot after the last entry.
LEMMA RegisteredSlot ==
  ASSUME NEW k, NEW inh, NEW jnh, NEW ds, NEW s, NEW n,
         SoundSlots(k, inh, ds, s, n), inh => jnh, n < Capacity,
         NEW e \in Slot, e.addr \in Addrs,
         k # "tvoc" => \A j \in 1 .. n : s[j].addr # e.addr,
         ~(k = "tvoc" /\ jnh) => e.ieee \in {NoIeee, OwnerOf[e.addr]},
         ~(k = "okos" /\ jnh) => (e.configured => OwnerOf[e.addr] \in ds)
  PROVE  SoundSlots(k, jnh, ds, [s EXCEPT ![n + 1] = e], n + 1)
<1> DEFINE t == [s EXCEPT ![n + 1] = e]
<1>1. s \in [1 .. Capacity -> Slot] /\ n \in Nat /\ Capacity \in Nat /\ n + 1 \in 1 .. Capacity
  BY DeviceConstants DEF SoundSlots
<1>2. /\ t \in [1 .. Capacity -> Slot] /\ t[n + 1] = e
      /\ \A j \in 1 .. n + 1 : j # n + 1 => j \in 1 .. n /\ t[j] = s[j]
  BY <1>1
<1>3. n + 1 \in 0 .. Capacity
  BY <1>1
<1> HIDE DEF t
<1>4. \A j \in 1 .. n + 1 : t[j].addr \in Addrs
  BY <1>2 DEF SoundSlots
<1>5. k # "tvoc" => \A j, l \in 1 .. n + 1 : j # l => t[j].addr # t[l].addr
  BY <1>2 DEF SoundSlots
<1>6. ~(k = "tvoc" /\ jnh) => \A j \in 1 .. n + 1 : t[j].ieee \in {NoIeee, OwnerOf[t[j].addr]}
  BY <1>2 DEF SoundSlots
<1>7. ~(k = "okos" /\ jnh) => \A j \in 1 .. n + 1 : t[j].configured => OwnerOf[t[j].addr] \in ds
  BY <1>2 DEF SoundSlots
<1>8. SoundSlots(k, jnh, ds, t, n + 1)
  BY <1>2, <1>3, <1>4, <1>5, <1>6, <1>7 DEF SoundSlots
<1>9. QED
  BY <1>8 DEF t

\* A new entry has the default volume, which a siren without an entry should have.
LEMMA RegisteredWanted ==
  ASSUME NEW k, NEW w, NEW s, NEW n \in Nat, n < Capacity, s \in [1 .. Capacity -> Slot],
         SoundWanted(k, w, s, n),
         NEW e, k # "tvoc" => e.volume = DefaultVolume
  PROVE  SoundWanted(k, w, [s EXCEPT ![n + 1] = e], n + 1)
<1> DEFINE t == [s EXCEPT ![n + 1] = e]
<1>1. /\ t[n + 1] = e
      /\ \A j \in 1 .. n : j \in 1 .. n + 1 /\ t[j] = s[j]
      /\ \A j \in 1 .. n + 1 : j # n + 1 => j \in 1 .. n
  BY DeviceConstants
<1> HIDE DEF t
<1>2. ASSUME k # "tvoc", NEW d \in Devices
      PROVE  HasWanted(w, t, n + 1, d)
  <2>1. HasWanted(w, s, n, d)
    BY <1>2 DEF SoundWanted
  <2>2. ASSUME NEW j \in 1 .. n, IsOldest(t, d, j)
        PROVE  IsOldest(s, d, j) /\ t[j] = s[j]
    <3>1. \A l \in 1 .. j - 1 : t[l] = s[l]
      BY <1>1
    <3>2. QED
      BY <1>1, <2>2, <3>1 DEF IsOldest
  <2>3. ASSUME IsOldest(t, d, n + 1)
        PROVE  \A l \in 1 .. n : OwnerOf[s[l].addr] # d
    <3>1. (n + 1) - 1 = n
      OBVIOUS
    <3>2. QED
      BY <1>1, <2>3, <3>1 DEF IsOldest
  <2>4. (\A j \in 1 .. n + 1 : OwnerOf[t[j].addr] # d) => \A j \in 1 .. n : OwnerOf[s[j].addr] # d
    BY <1>1
  <2>5. QED
    BY <1>1, <1>2, <2>1, <2>2, <2>3, <2>4 DEF HasWanted
<1>3. SoundWanted(k, w, t, n + 1)
  BY <1>2 DEF SoundWanted
<1>4. QED
  BY <1>3 DEF t

-----------------------------------------------------------------------------
(* The steps. *)

\* The registries are empty at first.
LEMMA DeviceInit == Init => DeviceIInv
<1> SUFFICES ASSUME Init PROVE DeviceIInv
  OBVIOUS
<1>1. NoSlot \in Slot
  BY DeviceConstants DEF NoSlot, Slot
<1>2. slots \in [1 .. Capacity -> Slot] /\ num = 0 /\ num \in 0 .. Capacity
  BY <1>1, DeviceConstants DEF Init
<1>3. file = <<>> /\ file \in Seq(Saved) /\ Len(file) = 0 /\ DOMAIN file = {}
  BY DEF Init
<1>4. wanted \in [Devices -> Volumes \cup {NoVolume}]
  BY DeviceConstants DEF Init
<1>5. TypeOK
  <2>1. /\ kind \in Kinds /\ cached \subseteq Addrs /\ inherited \in BOOLEAN /\ unsaved \in BOOLEAN
        /\ assigned \subseteq Addrs /\ setting \in Addrs \cup {NoAddr} /\ setUp \subseteq Devices
        /\ saving \subseteq {"main", "worker", "cli"}
    BY DEF Init
  <2>2. slotSet \in 0 .. Capacity /\ restarts \in 0 .. MaxRestarts
    BY DeviceConstants DEF Init
  <2>3. QED
    BY <1>2, <1>3, <1>4, <2>1, <2>2 DEF TypeOK
<1>6. FileIsCurrent
  <2>1. Persisted = Lines(slots, 0)
    BY <1>2 DEF Persisted, Lines
  <2>2. SoundSlots(kind, inherited, Begun, slots, 0)
    BY <1>2, DeviceConstants DEF SoundSlots
  <2>3. Lines(slots, 0) \in Seq({Line(slots[i]) : i \in {}}) /\ Len(Lines(slots, 0)) <= 0
    <3> DEFINE r == [i \in 1 .. 0 |-> Line(slots[i])]
               is == {i \in 1 .. 0 : slots[i].ieee # NoIeee}
               T == {Line(slots[i]) : i \in {}}
    <3>1. r = <<>> /\ r \in Seq(T) /\ Len(r) = 0 /\ is \in SUBSET DOMAIN r
      OBVIOUS
    <3>2. Lines(slots, 0) = Keep(r, is)
      BY DEF Lines
    <3> HIDE DEF r, is, T
    <3>3. Keep(r, is) \in Seq(T) /\ Len(Keep(r, is)) <= Len(r)
      BY <3>1, KeepProperties
    <3>4. QED
      BY <3>1, <3>2, <3>3 DEF T
  <2> HIDE DEF Lines
  <2>4. Lines(slots, 0) = <<>>
    BY <2>3
  <2>5. QED
    BY <1>3, <2>1, <2>4 DEF FileIsCurrent
<1>7. SoundSlots(kind, inherited, Begun, slots, num)
  BY <1>2, DeviceConstants DEF SoundSlots
<1>8. SoundWanted(kind, wanted, slots, num)
  BY <1>2 DEF Init, SoundWanted, HasWanted
<1>9. SoundFile(kind, inherited, file)
  BY <1>3, DeviceConstants DEF SoundFile
<1>10. QED
  BY <1>5, <1>6, <1>7, <1>8, <1>9 DEF Init, DeviceIInv

\* What would be written depends on the slots alone.
LEMMA PersistedIsLines ==
  Persisted = Lines(slots, num) /\ Persisted' = Lines(slots', num')
BY DEF Persisted, Lines

\* A device announces itself.
LEMMA AnnounceKeeps ==
  ASSUME DeviceIInv, NEW a \in Addrs, Announce(a)
  PROVE  DeviceIInv'
<1>1. /\ cached' = cached \cup {a}
      /\ UNCHANGED <<kind, slots, num, inherited, assigned, setting, slotSet, setUp, saving,
                     file, restarts, unsaved, wanted>>
  BY DEF Announce, slotVars, setupVars, fileVars
<1>2. TypeOK'
  BY <1>1 DEF DeviceIInv, TypeOK
<1>3. Begun' = Begun
  BY <1>1 DEF Begun, WasSetUp
<1>4. FileIsCurrent'
  BY <1>1, PersistedIsLines DEF DeviceIInv, FileIsCurrent
<1>5. QED
  BY <1>1, <1>2, <1>3, <1>4 DEF DeviceIInv, IsSiren

\* What a slot holds once an address is registered in it.
LEMMA NewEntryIsSound ==
  ASSUME DeviceIInv, NEW a \in Addrs, NEW old \in Slot
  PROVE  /\ NewEntry(old, a) \in Slot /\ NewEntry(old, a).addr = a
         /\ kind # "tvoc" => NewEntry(old, a).volume = DefaultVolume
         /\ kind # "tvoc" => NewEntry(old, a).ieee \in {NoIeee, OwnerOf[a]}
         /\ old.ieee = NoIeee => NewEntry(old, a).ieee \in {NoIeee, OwnerOf[a]}
         /\ kind # "okos" => ~NewEntry(old, a).configured
         /\ ~old.configured => ~NewEntry(old, a).configured
<1> DEFINE d == IF a \in cached THEN OwnerOf[a] ELSE NoIeee
           x == NewEntry(old, a)
<1>1. /\ d \in Devices \cup {NoIeee} /\ d \in {NoIeee, OwnerOf[a]}
      /\ old.ieee \in Devices \cup {NoIeee} /\ old.configured \in BOOLEAN
      /\ old.volume \in Volumes /\ DefaultVolume \in Volumes
      /\ old = [addr |-> old.addr, ieee |-> old.ieee, configured |-> old.configured,
                volume |-> old.volume]
  BY DeviceFacts, DeviceConstants DEF Slot
<1>2. CASE kind = "siren"
  <2>1. x = [addr |-> a, ieee |-> d, configured |-> FALSE, volume |-> DefaultVolume]
    BY <1>2 DEF NewEntry
  <2> HIDE DEF d, x
  <2>2. QED
    BY <1>1, <1>2, <2>1 DEF Slot, x
<1>3. CASE kind = "okos"
  <2>1. x = [old EXCEPT !.addr = a, !.ieee = d, !.volume = DefaultVolume]
    BY <1>3 DEF NewEntry
  <2> HIDE DEF d, x
  <2>2. x = [addr |-> a, ieee |-> d, configured |-> old.configured, volume |-> DefaultVolume]
    BY <1>1, <2>1
  <2>3. QED
    BY <1>1, <1>3, <2>2 DEF Slot, x
<1>4. CASE kind = "tvoc"
  <2> DEFINE f == IF d = NoIeee THEN old.ieee ELSE d
  <2>1. x = [old EXCEPT !.addr = a, !.configured = FALSE, !.ieee = f]
    BY <1>4 DEF NewEntry
  <2>2. f \in Devices \cup {NoIeee} /\ (old.ieee = NoIeee => f \in {NoIeee, OwnerOf[a]})
    BY <1>1
  <2> HIDE DEF d, x, f
  <2>3. x = [addr |-> a, ieee |-> f, configured |-> FALSE, volume |-> old.volume]
    BY <1>1, <2>1
  <2>4. QED
    BY <1>1, <1>4, <2>2, <2>3 DEF Slot, x
<1>5. QED
  BY <1>2, <1>3, <1>4, DeviceFacts DEF Kinds

\* A simple descriptor response of a device that is not registered.
LEMMA RegisterKeeps ==
  ASSUME DeviceIInv, NEW a \in Addrs, Discover(a), Register(a),
         kind # "tvoc" => \A j \in 1 .. num : slots[j].addr # a
  PROVE  DeviceIInv'
<1>1. /\ assigned' = assigned \cup {a}
      /\ UNCHANGED <<kind, cached, setting, slotSet, setUp, file, restarts, unsaved, wanted>>
  BY DEF Discover, fileVars
<1>2. Begun' = Begun
  BY <1>1 DEF Begun, WasSetUp
<1>3. /\ TypeOK /\ FileIsCurrent /\ SoundSlots(kind, inherited, Begun, slots, num)
      /\ SoundWanted(kind, wanted, slots, num) /\ SoundFile(kind, inherited, file)
      /\ (setting # NoAddr /\ ~IsSiren => slotSet # 0)
  BY DEF DeviceIInv
<1>4. CASE num < Capacity
  <2> DEFINE e == NewEntry(slots[num + 1], a)
             f == NewEntry(NoSlot, a)
  <2>1. /\ slots' = [slots EXCEPT ![num + 1] = e] /\ num' = num + 1
        /\ inherited' = (inherited \/ e # f) /\ saving' = saving \cup {"main"}
    BY <1>4, DeviceFacts DEF Register
  <2>2. slots[num + 1] \in Slot /\ NoSlot \in Slot /\ NoSlot.ieee = NoIeee /\ ~NoSlot.configured
    BY <1>4, DeviceFacts, DeviceConstants DEF NoSlot, Slot
  <2>3. /\ e \in Slot /\ e.addr = a
        /\ kind # "tvoc" => e.volume = DefaultVolume
        /\ kind # "tvoc" => e.ieee \in {NoIeee, OwnerOf[a]}
        /\ kind # "okos" => ~e.configured
    BY <2>2, NewEntryIsSound
  <2>4. f.ieee \in {NoIeee, OwnerOf[a]} /\ ~f.configured
    BY <2>2, NewEntryIsSound
  <2> HIDE DEF e, f
  <2>5. SoundSlots(kind, inherited', Begun, slots', num')
    <3>1. ~(kind = "tvoc" /\ inherited') => e.ieee \in {NoIeee, OwnerOf[e.addr]}
      BY <2>1, <2>3, <2>4
    <3>2. ~(kind = "okos" /\ inherited') => (e.configured => OwnerOf[e.addr] \in Begun)
      BY <2>1, <2>3, <2>4
    <3>3. inherited => inherited'
      BY <2>1
    <3>4. SoundSlots(kind, inherited', Begun, [slots EXCEPT ![num + 1] = e], num + 1)
      BY <1>3, <1>4, <2>3, <3>1, <3>2, <3>3, RegisteredSlot
    <3>5. QED
      BY <2>1, <3>4
  <2>6. SoundWanted(kind, wanted, slots', num')
    BY <1>3, <1>4, <2>1, <2>3, DeviceFacts, RegisteredWanted
  <2>7. SoundFile(kind, inherited', file)
    BY <1>3, <2>1 DEF SoundFile
  <2>8. TypeOK'
    <3>1. slots' \in [1 .. Capacity -> Slot] /\ num' \in 0 .. Capacity
      BY <2>5 DEF SoundSlots
    <3>2. inherited' \in BOOLEAN /\ saving' \subseteq {"main", "worker", "cli"}
      BY <1>3, <2>1 DEF TypeOK
    <3>3. QED
      BY <1>1, <1>3, <3>1, <3>2 DEF TypeOK
  <2>9. FileIsCurrent'
    BY <2>1 DEF FileIsCurrent
  <2>10. QED
    BY <1>1, <1>2, <1>3, <2>5, <2>6, <2>7, <2>8, <2>9 DEF DeviceIInv, IsSiren
<1>5. CASE ~(num < Capacity)
  <2>1. UNCHANGED <<slots, num, inherited, saving>>
    BY <1>5 DEF Register, slotVars
  <2>2. TypeOK'
    BY <1>1, <1>3, <2>1 DEF TypeOK
  <2>3. FileIsCurrent'
    BY <1>1, <1>3, <2>1, PersistedIsLines DEF FileIsCurrent
  <2>4. QED
    BY <1>1, <1>2, <1>3, <2>1, <2>2, <2>3 DEF DeviceIInv, IsSiren
<1>6. QED
  BY <1>4, <1>5

\* A simple descriptor response of a device with an entry.
LEMMA RefreshKeeps ==
  ASSUME DeviceIInv, NEW a \in Addrs, Discover(a), NEW i \in 1 .. num, Refresh(i, a),
         kind # "tvoc" => slots[i].addr = a,
         ~(kind = "tvoc" /\ inherited) => slots[i].ieee \in {NoIeee, OwnerOf[a]}
  PROVE  DeviceIInv'
<1> DEFINE e == slots[i]
           filled == IF e.ieee = NoIeee /\ a \in cached THEN OwnerOf[a] ELSE e.ieee
           x == CASE kind = "siren" -> [e EXCEPT !.ieee = filled]
                  [] kind = "okos" -> e
                  [] kind = "tvoc" -> [e EXCEPT !.addr = a, !.ieee = filled,
                                                !.configured = @ /\ e.addr = a]
<1>1. /\ assigned' = assigned \cup {a}
      /\ UNCHANGED <<kind, cached, setting, slotSet, setUp, file, restarts, unsaved, wanted>>
  BY DEF Discover, fileVars
<1>2. Begun' = Begun
  BY <1>1 DEF Begun, WasSetUp
<1>3. /\ TypeOK /\ FileIsCurrent /\ SoundSlots(kind, inherited, Begun, slots, num)
      /\ SoundWanted(kind, wanted, slots, num) /\ SoundFile(kind, inherited, file)
      /\ (setting # NoAddr /\ ~IsSiren => slotSet # 0)
  BY DEF DeviceIInv
<1>4. /\ slots' = [slots EXCEPT ![i] = x] /\ UNCHANGED <<num, inherited>>
      /\ saving' = IF x # e THEN saving \cup {"main"} ELSE saving
  BY DEF Refresh
<1>5. /\ e \in Slot /\ e.addr \in Addrs /\ e.configured \in BOOLEAN /\ e.volume \in Volumes
      /\ e = [addr |-> e.addr, ieee |-> e.ieee, configured |-> e.configured, volume |-> e.volume]
      /\ filled \in Devices \cup {NoIeee}
      /\ ~(kind = "tvoc" /\ inherited) => filled \in {NoIeee, OwnerOf[a]}
  BY DeviceFacts DEF Slot
<1>6. /\ x \in Slot /\ x.addr = a /\ (x.configured => e.configured /\ e.addr = a)
      /\ kind # "tvoc" => x.volume = e.volume
      /\ ~(kind = "tvoc" /\ inherited) => x.ieee \in {NoIeee, OwnerOf[a]}
  <2>1. CASE kind = "siren"
    <3>1. x = [e EXCEPT !.ieee = filled]
      BY <2>1
    <3> HIDE DEF x, filled, e
    <3>2. x = [addr |-> e.addr, ieee |-> filled, configured |-> e.configured, volume |-> e.volume]
      BY <1>5, <3>1
    <3>3. e.addr = a
      BY <2>1 DEF e
    <3>4. QED
      BY <1>5, <2>1, <3>2, <3>3 DEF Slot
  <2>2. CASE kind = "okos"
    <3>1. x = e
      BY <2>2
    <3> HIDE DEF x
    <3>2. QED
      BY <1>5, <2>2, <3>1
  <2>3. CASE kind = "tvoc"
    <3> DEFINE c == e.configured /\ e.addr = a
    <3>1. x = [e EXCEPT !.addr = a, !.ieee = filled, !.configured = c]
      BY <2>3
    <3>2. c \in BOOLEAN /\ (c => e.configured /\ e.addr = a)
      OBVIOUS
    <3> HIDE DEF x, filled, e, c
    <3>3. x = [addr |-> a, ieee |-> filled, configured |-> c, volume |-> e.volume]
      BY <1>5, <3>1
    <3>4. QED
      BY <1>5, <2>3, <3>2, <3>3 DEF Slot
  <2>4. QED
    BY <2>1, <2>2, <2>3, DeviceFacts DEF Kinds
<1> HIDE DEF x
<1>7. SoundSlots(kind, inherited, Begun, slots', num)
  <2>1. ~(kind = "okos" /\ inherited) => (x.configured => OwnerOf[x.addr] \in Begun)
    BY <1>3, <1>6 DEF SoundSlots
  <2>2. x.addr \in Addrs /\ (kind # "tvoc" => x.addr = slots[i].addr)
    BY <1>6
  <2>3. ~(kind = "tvoc" /\ inherited) => x.ieee \in {NoIeee, OwnerOf[x.addr]}
    BY <1>6
  <2>4. SoundSlots(kind, inherited, Begun, [slots EXCEPT ![i] = x], num)
    BY <1>3, <1>6, <2>1, <2>2, <2>3, UpdatedSlot
  <2>5. QED
    BY <1>4, <2>4
<1>8. SoundWanted(kind, wanted, slots', num)
  BY <1>3, <1>4, <1>6, DeviceFacts, UpdatedWanted
<1>9. TypeOK'
  <2>1. slots' \in [1 .. Capacity -> Slot] /\ saving' \subseteq {"main", "worker", "cli"}
    BY <1>3, <1>4, <1>7 DEF SoundSlots, TypeOK
  <2>2. QED
    BY <1>1, <1>3, <1>4, <2>1 DEF TypeOK
<1>10. FileIsCurrent'
  <2>1. CASE x = e
    <3>1. slots' = slots /\ saving' = saving
      BY <1>4, <2>1, DeviceFacts
    <3>2. QED
      BY <1>1, <1>3, <1>4, <3>1, PersistedIsLines DEF FileIsCurrent
  <2>2. CASE x # e
    BY <1>4, <2>2 DEF FileIsCurrent
  <2>3. QED
    BY <2>1, <2>2
<1>11. QED
  BY <1>1, <1>2, <1>3, <1>4, <1>7, <1>8, <1>9, <1>10 DEF DeviceIInv, IsSiren

\* A simple descriptor response.
LEMMA DiscoverKeeps ==
  ASSUME DeviceIInv, NEW a \in Addrs, Discover(a)
  PROVE  DeviceIInv'
<1> DEFINE is == {i \in 1 .. num : kind = "tvoc" /\ a \in cached /\ slots[i].ieee = OwnerOf[a]}
           found == FirstOf(is)
<1>1. found # 0 => found \in 1 .. num /\ kind = "tvoc" /\ slots[found].ieee = OwnerOf[a]
  <2>1. is \in SUBSET (Nat \ {0})
    BY DeviceFacts
  <2>2. found # 0 => found \in is
    <3> HIDE DEF is
    <3>1. QED
      BY <2>1, FirstIsFound
  <2>3. QED
    BY <2>2
<1>2. IF found # 0 THEN Refresh(found, a)
      ELSE IF EntryOf(a) = 0 THEN Register(a) ELSE Refresh(EntryOf(a), a)
  <2>1. LET i == IF found # 0 THEN found ELSE EntryOf(a)
        IN IF i = 0 THEN Register(a) ELSE Refresh(i, a)
    BY DEF Discover
  <2> HIDE DEF found
  <2>2. QED
    BY <2>1
<1> HIDE DEF found
<1>3. CASE found # 0
  BY <1>1, <1>2, <1>3, RefreshKeeps
<1>4. CASE found = 0 /\ EntryOf(a) = 0
  BY <1>2, <1>4, DeviceFacts, EntryIsFound, RegisterKeeps
<1>5. CASE found = 0 /\ EntryOf(a) # 0
  <2>1. EntryOf(a) \in 1 .. num /\ slots[EntryOf(a)].addr = a /\ Refresh(EntryOf(a), a)
    BY <1>2, <1>5, DeviceFacts, EntryIsFound
  <2>2. ~(kind = "tvoc" /\ inherited) => slots[EntryOf(a)].ieee \in {NoIeee, OwnerOf[a]}
    BY <2>1 DEF DeviceIInv, SoundSlots
  <2>3. QED
    BY <2>1, <2>2, RefreshKeeps
<1>6. QED
  BY <1>3, <1>4, <1>5

\* An IEEE address response.
LEMMA IeeeResponseKeeps ==
  ASSUME DeviceIInv, NEW a \in Addrs, IeeeResponse(a)
  PROVE  DeviceIInv'
<1>1. /\ cached' = cached \cup {a}
      /\ UNCHANGED <<kind, inherited, setting, slotSet, setUp, file, restarts, unsaved>>
  BY DEF IeeeResponse, fileVars
<1>2. Begun' = Begun
  BY <1>1 DEF Begun, WasSetUp
<1>3. /\ TypeOK /\ FileIsCurrent /\ SoundSlots(kind, inherited, Begun, slots, num)
      /\ SoundWanted(kind, wanted, slots, num) /\ SoundFile(kind, inherited, file)
      /\ (setting # NoAddr /\ ~IsSiren => slotSet # 0)
  BY DEF DeviceIInv
<1>4. CASE ~Registered(a)
  <2>1. UNCHANGED <<slots, num, assigned, saving, wanted>>
    BY <1>4 DEF IeeeResponse
  <2>2. TypeOK'
    BY <1>1, <1>3, <2>1 DEF TypeOK
  <2>3. FileIsCurrent'
    BY <1>1, <1>3, <2>1, PersistedIsLines DEF FileIsCurrent
  <2>4. QED
    BY <1>1, <1>2, <1>3, <2>1, <2>2, <2>3 DEF DeviceIInv, IsSiren
<1>5. CASE Registered(a)
  <2>1. /\ slots' = Merged(a).slots /\ num' = Merged(a).num
        /\ assigned' = assigned \cup {a} /\ saving' = saving \cup {"main"}
        /\ wanted' = IF MergeIsClear(a) THEN wanted ELSE [wanted EXCEPT ![OwnerOf[a]] = NoVolume]
    BY <1>5 DEF IeeeResponse
  <2>2. Merging(a, 1, Merged(a))
    BY <1>5, MergedIsSound DEF Registered
  <2>3. SoundSlots(kind, inherited, Begun, slots', num')
    BY <2>1, <2>2 DEF Merging
  <2>4. wanted \in [Devices -> Volumes \cup {NoVolume}] /\ OwnerOf[a] \in Devices
    BY <1>3, DeviceFacts DEF TypeOK
  <2>5. wanted' \in [Devices -> Volumes \cup {NoVolume}]
    BY <2>1, <2>4
  <2>6. ASSUME kind # "tvoc", NEW d \in Devices
        PROVE  HasWanted(wanted', slots', num', d)
    <3>1. CASE d # OwnerOf[a]
      <4>1. HasWanted(wanted, slots', num', d)
        BY <2>1, <2>2, <2>6, <3>1 DEF Merging
      <4>2. wanted'[d] = wanted[d]
        BY <2>1, <2>4, <3>1
      <4>3. QED
        BY <4>1, <4>2 DEF HasWanted
    <3>2. CASE d = OwnerOf[a] /\ MergeIsClear(a)
      BY <2>1, <2>2, <2>6, <3>2 DEF Merging
    <3>3. CASE d = OwnerOf[a] /\ ~MergeIsClear(a)
      <4>1. wanted'[d] = NoVolume
        BY <2>1, <2>4, <3>3
      <4>2. QED
        BY <4>1 DEF HasWanted
    <3>4. QED
      BY <3>1, <3>2, <3>3
  <2>7. SoundWanted(kind, wanted', slots', num')
    BY <2>6 DEF SoundWanted
  <2>8. TypeOK'
    <3>1. slots' \in [1 .. Capacity -> Slot] /\ num' \in 0 .. Capacity
      BY <2>3 DEF SoundSlots
    <3>2. saving' \subseteq {"main", "worker", "cli"} /\ assigned' \subseteq Addrs
          /\ cached' \subseteq Addrs
      BY <1>1, <1>3, <2>1 DEF TypeOK
    <3>3. QED
      BY <1>1, <1>3, <2>5, <3>1, <3>2 DEF TypeOK
  <2>9. FileIsCurrent'
    BY <2>1 DEF FileIsCurrent
  <2>10. QED
    BY <1>1, <1>2, <1>3, <2>3, <2>7, <2>8, <2>9 DEF DeviceIInv, IsSiren
<1>6. QED
  BY <1>4, <1>5

\* The setup of a device goes up to its requests.
LEMMA SetupBeginsKeeps ==
  ASSUME DeviceIInv, NEW a \in Addrs, SetupBegins(a)
  PROVE  DeviceIInv'
<1> DEFINE i == EntryOf(a)
           ieee == IF slots[i].ieee = NoIeee /\ a \in cached THEN OwnerOf[a] ELSE slots[i].ieee
<1>1. /\ assigned' = assigned \ {a} /\ setting = NoAddr
      /\ UNCHANGED <<kind, cached, num, inherited, setUp, saving, file, restarts, wanted>>
  BY DEF SetupBegins, WorkerIdle, fileVars
<1>2. /\ TypeOK /\ FileIsCurrent /\ SoundSlots(kind, inherited, Begun, slots, num)
      /\ SoundWanted(kind, wanted, slots, num) /\ SoundFile(kind, inherited, file)
  BY DEF DeviceIInv
<1>3. CASE i = 0 \/ slots[i].configured \/ ieee = NoIeee
  <2>1. UNCHANGED <<slots, setting, slotSet, unsaved>>
    BY <1>3 DEF SetupBegins
  <2>2. TypeOK'
    BY <1>1, <1>2, <2>1 DEF TypeOK
  <2>3. FileIsCurrent'
    BY <1>1, <1>2, <2>1, PersistedIsLines DEF FileIsCurrent
  <2>4. Begun' = Begun
    BY <1>1, <2>1 DEF Begun, WasSetUp
  <2>5. QED
    BY <1>1, <1>2, <2>1, <2>2, <2>3, <2>4 DEF DeviceIInv, IsSiren
<1>4. CASE ~(i = 0 \/ slots[i].configured \/ ieee = NoIeee)
  <2> DEFINE c == IsSiren
             e == slots[i]
             x == [e EXCEPT !.ieee = ieee, !.configured = c]
  <2>1. /\ slots' = [slots EXCEPT ![i].ieee = ieee, ![i].configured = IsSiren]
        /\ unsaved' = (unsaved \/ slots[i].ieee = NoIeee)
        /\ setting' = a /\ slotSet' = IF IsSiren THEN 0 ELSE i
    BY <1>4 DEF SetupBegins
  <2>2. i \in 1 .. num /\ i \in 1 .. Capacity /\ e \in Slot /\ e.addr = a
        /\ slots \in [1 .. Capacity -> Slot]
    BY <1>4, DeviceFacts, EntryIsFound
  <2>3. slots' = [slots EXCEPT ![i] = x]
    BY <2>1, <2>2
  <2>4. /\ ieee \in Devices \cup {NoIeee} /\ (e.ieee # NoIeee => ieee = e.ieee)
        /\ c \in BOOLEAN
        /\ ~(kind = "tvoc" /\ inherited) => ieee \in {NoIeee, OwnerOf[a]}
    <3>1. ~(kind = "tvoc" /\ inherited) => e.ieee \in {NoIeee, OwnerOf[a]}
      BY <1>2, <2>2 DEF SoundSlots
    <3>2. e.ieee \in Devices \cup {NoIeee} /\ OwnerOf[a] \in Devices
      BY <2>2, DeviceFacts DEF Slot
    <3>3. QED
      BY <3>1, <3>2 DEF IsSiren
  <2>5. /\ x \in Slot /\ x.addr = a /\ x.ieee = ieee /\ x.volume = e.volume
    <3> HIDE DEF e, c, ieee
    <3>1. QED
      BY <2>2, <2>4 DEF Slot
  <2> HIDE DEF x, ieee
  <2>6. Begun \subseteq Begun' /\ OwnerOf[a] \in Begun'
    BY <1>1, <2>1, DeviceFacts, DeviceConstants DEF Begun, WasSetUp
  <2>7. SoundSlots(kind, inherited, Begun', slots', num)
    <3>1. ~(kind = "tvoc" /\ inherited) => x.ieee \in {NoIeee, OwnerOf[x.addr]}
      BY <2>4, <2>5
    <3>2. SoundSlots(kind, inherited, Begun', [slots EXCEPT ![i] = x], num)
      BY <1>2, <2>2, <2>5, <2>6, <3>1, UpdatedSlot
    <3>3. QED
      BY <2>3, <3>2
  <2>8. SoundWanted(kind, wanted, slots', num)
    BY <1>2, <2>2, <2>3, <2>5, DeviceFacts, UpdatedWanted
  <2>9. TypeOK'
    <3>1. slots' \in [1 .. Capacity -> Slot]
      BY <2>7 DEF SoundSlots
    <3>2. slotSet' \in 0 .. Capacity
      BY <2>1, <2>2, DeviceConstants
    <3>3. unsaved' \in BOOLEAN /\ setting' \in Addrs \cup {NoAddr} /\ assigned' \subseteq Addrs
      BY <1>1, <1>2, <2>1 DEF TypeOK
    <3>4. QED
      BY <1>1, <1>2, <3>1, <3>2, <3>3 DEF TypeOK
  <2>10. FileIsCurrent'
    <3>1. SUFFICES ASSUME saving = {}, ~unsaved' PROVE file = Persisted'
      BY <1>1 DEF FileIsCurrent
    <3>2. e.ieee # NoIeee /\ ~unsaved
      BY <2>1, <3>1
    <3>3. x.ieee = e.ieee
      BY <2>4, <2>5, <3>2
    <3>4. \A j \in 1 .. num : slots'[j] = IF j = i THEN x ELSE slots[j]
      BY <2>2, <2>3, DeviceFacts
    <3>5. Line(x) = Line(e)
      BY <2>2, <2>5, <3>3 DEF Line
    <3>6. \A j \in 1 .. num : Line(slots[j]) = Line(slots'[j])
      BY <3>4, <3>5
    <3>7. Lines(slots, num) = Lines(slots', num)
      BY <3>6, LinesAgree
    <3>8. QED
      BY <1>1, <1>2, <3>1, <3>2, <3>7, PersistedIsLines DEF FileIsCurrent
  <2>11. ~IsSiren => slotSet' # 0
    BY <1>4, <2>1
  <2>12. QED
    BY <1>1, <1>2, <2>7, <2>8, <2>9, <2>10, <2>11 DEF DeviceIInv, IsSiren
<1>5. QED
  BY <1>3, <1>4

\* The requests of a setup are sent.
LEMMA SetupEndsKeeps ==
  ASSUME DeviceIInv, SetupEnds
  PROVE  DeviceIInv'
<1>1. /\ setting # NoAddr /\ setUp' = setUp \cup {OwnerOf[setting]}
      /\ setting' = NoAddr /\ slotSet' = 0
      /\ saving' = IF IsSiren THEN saving ELSE saving \cup {"worker"}
      /\ UNCHANGED <<kind, cached, num, inherited, assigned, file, restarts, unsaved, wanted>>
  BY DEF SetupEnds, fileVars
<1>2. /\ TypeOK /\ FileIsCurrent /\ SoundSlots(kind, inherited, Begun, slots, num)
      /\ SoundWanted(kind, wanted, slots, num) /\ SoundFile(kind, inherited, file)
      /\ (setting # NoAddr /\ ~IsSiren => slotSet # 0)
  BY DEF DeviceIInv
<1>3. setting \in Addrs /\ OwnerOf[setting] \in Devices /\ OwnerOf[setting] \in Begun
  BY <1>1, <1>2, DeviceFacts DEF TypeOK, Begun, WasSetUp
<1>4. Begun' = Begun
  BY <1>1 DEF Begun, WasSetUp
<1>5. CASE ~IsSiren /\ slotSet <= num /\ slots[slotSet].addr = setting
  <2> DEFINE x == [slots[slotSet] EXCEPT !.configured = TRUE]
  <2>1. slotSet \in 1 .. num
    BY <1>1, <1>2, <1>5, DeviceFacts DEF TypeOK
  <2>2. slots' = [slots EXCEPT ![slotSet] = x]
    BY <1>5, <2>1, DeviceFacts DEF SetupEnds
  <2>3. /\ x \in Slot /\ x.addr = setting /\ x.ieee = slots[slotSet].ieee
        /\ x.volume = slots[slotSet].volume
    BY <1>5, <2>1, DeviceFacts DEF Slot
  <2> HIDE DEF x
  <2>4. SoundSlots(kind, inherited, Begun, slots', num)
    <3>1. ~(kind = "tvoc" /\ inherited) => x.ieee \in {NoIeee, OwnerOf[x.addr]}
      BY <1>2, <1>5, <2>1, <2>3 DEF SoundSlots
    <3>2. x.addr \in Addrs /\ (kind # "tvoc" => x.addr = slots[slotSet].addr)
          /\ OwnerOf[x.addr] \in Begun
      BY <1>3, <1>5, <2>3
    <3>3. SoundSlots(kind, inherited, Begun, [slots EXCEPT ![slotSet] = x], num)
      BY <1>2, <2>1, <2>3, <3>1, <3>2, UpdatedSlot
    <3>4. QED
      BY <2>2, <3>3
  <2>5. SoundWanted(kind, wanted, slots', num)
    BY <1>2, <1>5 DEF SoundWanted, IsSiren
  <2>6. slots' \in [1 .. Capacity -> Slot] /\ saving' \subseteq {"main", "worker", "cli"}
    BY <1>1, <1>2, <2>4 DEF SoundSlots, TypeOK
  <2>7. TypeOK'
    <3>1. setUp' \subseteq Devices /\ slotSet' \in 0 .. Capacity
      BY <1>1, <1>2, <1>3, DeviceConstants DEF TypeOK
    <3>2. QED
      BY <1>1, <1>2, <2>6, <3>1 DEF TypeOK
  <2>8. FileIsCurrent'
    BY <1>1, <1>5 DEF FileIsCurrent
  <2>9. QED
    BY <1>1, <1>2, <1>4, <2>4, <2>5, <2>7, <2>8 DEF DeviceIInv
<1>6. CASE ~(~IsSiren /\ slotSet <= num /\ slots[slotSet].addr = setting)
  <2>1. slots' = slots
    BY <1>6 DEF SetupEnds
  <2>2. TypeOK'
    <3>1. setUp' \subseteq Devices /\ slotSet' \in 0 .. Capacity
      BY <1>1, <1>2, <1>3, DeviceConstants DEF TypeOK
    <3>2. saving' \subseteq {"main", "worker", "cli"}
      BY <1>1, <1>2 DEF TypeOK
    <3>3. QED
      BY <1>1, <1>2, <2>1, <3>1, <3>2 DEF TypeOK
  <2>3. FileIsCurrent'
    BY <1>1, <1>2, <2>1, PersistedIsLines DEF FileIsCurrent
  <2>4. QED
    BY <1>1, <1>2, <1>4, <2>1, <2>2, <2>3 DEF DeviceIInv
<1>7. QED
  BY <1>5, <1>6

\* A volume is stored, by a report or by the operator.
LEMMA StoreIsSound ==
  ASSUME DeviceIInv, NEW a \in Addrs, NEW v \in Volumes, Store(a, v)
  PROVE  /\ SoundSlots(kind, inherited, Begun, slots', num)
         /\ SoundWanted(kind, wanted', slots', num)
         /\ slots' \in [1 .. Capacity -> Slot]
         /\ wanted' \in [Devices -> Volumes \cup {NoVolume}]
         /\ Begun' = Begun
         /\ UNCHANGED <<kind, cached, num, inherited, assigned, setting, slotSet, setUp,
                        file, restarts>>
<1> DEFINE i == EntryOf(a)
           x == [slots[i] EXCEPT !.volume = v]
           d == OwnerOf[a]
<1>1. /\ UNCHANGED <<kind, cached, num, inherited, assigned, setting, slotSet, setUp,
                     file, restarts>>
      /\ slots' = [slots EXCEPT ![i].volume = v]
      /\ wanted' = [wanted EXCEPT ![d] = IF EntriesOf(d) = {i} THEN v ELSE NoVolume]
      /\ i # 0
  BY DEF Store, Registered, setupVars, fileVars
<1>2. i \in 1 .. num /\ i \in 1 .. Capacity /\ slots[i] \in Slot /\ slots[i].addr = a
  BY <1>1, DeviceFacts, EntryIsFound
<1>3. /\ SoundSlots(kind, inherited, Begun, slots, num) /\ SoundWanted(kind, wanted, slots, num)
      /\ wanted \in [Devices -> Volumes \cup {NoVolume}] /\ d \in Devices
  BY DeviceFacts DEF DeviceIInv, TypeOK
<1>4. slots' = [slots EXCEPT ![i] = x]
  BY <1>1, <1>2, DeviceFacts
<1>5. /\ x \in Slot /\ x.addr = a /\ x.ieee = slots[i].ieee
      /\ x.configured = slots[i].configured /\ x.volume = v
  BY <1>2 DEF Slot
<1> HIDE DEF x
<1>6. SoundSlots(kind, inherited, Begun, slots', num)
  <2>1. /\ ~(kind = "tvoc" /\ inherited) => x.ieee \in {NoIeee, OwnerOf[x.addr]}
        /\ ~(kind = "okos" /\ inherited) => (x.configured => OwnerOf[x.addr] \in Begun)
    BY <1>2, <1>3, <1>5 DEF SoundSlots
  <2>2. SoundSlots(kind, inherited, Begun, [slots EXCEPT ![i] = x], num)
    BY <1>2, <1>3, <1>5, <2>1, UpdatedSlot
  <2>3. QED
    BY <1>4, <2>2
<1>7. slots' \in [1 .. Capacity -> Slot]
  BY <1>6 DEF SoundSlots
<1>8. wanted' \in [Devices -> Volumes \cup {NoVolume}]
  <2> HIDE DEF i, d
  <2>1. QED
    BY <1>1, <1>3
<1>9. Begun' = Begun
  BY <1>1 DEF Begun, WasSetUp
<1>10. \A j \in 1 .. num : slots'[j].addr = slots[j].addr /\ (j # i => slots'[j] = slots[j])
  BY <1>2, <1>4, <1>5, DeviceFacts
<1>11. ASSUME kind # "tvoc", NEW f \in Devices
       PROVE  HasWanted(wanted', slots', num, f)
  <2>1. HasWanted(wanted, slots, num, f)
    BY <1>3, <1>11 DEF SoundWanted
  <2>2. CASE f # d
    <3>1. wanted'[f] = wanted[f]
      BY <1>1, <1>3, <2>2
    <3>2. \A j \in 1 .. num : IsOldest(slots', f, j) => IsOldest(slots, f, j)
      BY <1>10, DeviceFacts DEF IsOldest
    <3>3. \A j \in 1 .. num : IsOldest(slots', f, j) => j # i
      BY <1>2, <1>10, <2>2 DEF IsOldest
    <3>4. QED
      BY <1>10, <2>1, <3>1, <3>2, <3>3 DEF HasWanted
  <2>3. CASE f = d /\ EntriesOf(d) # {i}
    <3>1. wanted'[f] = NoVolume
      <4> HIDE DEF i, d
      <4>1. QED
        BY <1>1, <1>3, <2>3
    <3>2. QED
      BY <3>1 DEF HasWanted
  <2>4. CASE f = d /\ EntriesOf(d) = {i}
    <3>1. \A j \in 1 .. num : OwnerOf[slots[j].addr] = d => j = i
      <4>1. \A j \in 1 .. num : OwnerOf[slots[j].addr] = d => j \in EntriesOf(d)
        BY DeviceFacts DEF EntriesOf
      <4>2. QED
        BY <2>4, <4>1
    <3>2. slots'[i].volume = v /\ OwnerOf[slots'[i].addr] = d
      BY <1>2, <1>4, <1>5, DeviceFacts
    <3>3. wanted'[f] = v
      <4> HIDE DEF i, d
      <4>1. QED
        BY <1>1, <1>3, <2>4
    <3>4. \A j \in 1 .. num : IsOldest(slots', f, j) => j = i
      BY <1>10, <2>4, <3>1 DEF IsOldest
    <3>5. QED
      BY <1>2, <2>4, <3>2, <3>3, <3>4 DEF HasWanted
  <2>5. QED
    BY <2>2, <2>3, <2>4
<1>12. SoundWanted(kind, wanted', slots', num)
  BY <1>11 DEF SoundWanted
<1>13. QED
  BY <1>1, <1>6, <1>7, <1>8, <1>9, <1>12

\* A volume is reported, or set by the operator.
LEMMA VolumeKeeps ==
  ASSUME DeviceIInv, NEW a \in Addrs, NEW v \in Volumes, ReportVolume(a, v) \/ SetVolume(a, v)
  PROVE  DeviceIInv'
<1>1. /\ Store(a, v)
      /\ \/ unsaved' = TRUE /\ saving' = saving
         \/ unsaved' = unsaved /\ saving' = saving \cup {"cli"}
  <2>1. ReportVolume(a, v) => Store(a, v) /\ unsaved' = TRUE /\ saving' = saving
    BY DEF ReportVolume
  <2>2. SetVolume(a, v) => Store(a, v) /\ unsaved' = unsaved /\ saving' = saving \cup {"cli"}
    BY DEF SetVolume
  <2>3. QED
    BY <2>1, <2>2
<1>2. /\ SoundSlots(kind, inherited, Begun, slots', num)
      /\ SoundWanted(kind, wanted', slots', num)
      /\ slots' \in [1 .. Capacity -> Slot]
      /\ wanted' \in [Devices -> Volumes \cup {NoVolume}]
      /\ Begun' = Begun
      /\ UNCHANGED <<kind, cached, num, inherited, assigned, setting, slotSet, setUp,
                     file, restarts>>
  BY <1>1, StoreIsSound
<1>3. TypeOK'
  <2>1. unsaved' \in BOOLEAN /\ saving' \subseteq {"main", "worker", "cli"}
    BY <1>1 DEF DeviceIInv, TypeOK
  <2>2. QED
    BY <1>2, <2>1 DEF DeviceIInv, TypeOK
<1>4. FileIsCurrent'
  BY <1>1 DEF FileIsCurrent
<1>5. QED
  BY <1>2, <1>3, <1>4 DEF DeviceIInv, IsSiren

\* The operator has a siren set up again.
LEMMA RebindKeeps ==
  ASSUME DeviceIInv, NEW a \in Addrs, Rebind(a)
  PROVE  DeviceIInv'
<1> DEFINE i == EntryOf(a)
           x == [slots[i] EXCEPT !.configured = FALSE]
<1>1. /\ slots' = [slots EXCEPT ![i].configured = FALSE] /\ i # 0
      /\ assigned' = assigned \cup {a}
      /\ UNCHANGED <<kind, cached, num, inherited, setting, slotSet, setUp, saving, file, restarts,
                     unsaved, wanted>>
  BY DEF Rebind, Registered, fileVars
<1>2. i \in 1 .. num /\ i \in 1 .. Capacity /\ slots[i] \in Slot /\ slots[i].addr = a
  BY <1>1, DeviceFacts, EntryIsFound
<1>3. slots' = [slots EXCEPT ![i] = x]
  BY <1>1, <1>2, DeviceFacts
<1>4. /\ x \in Slot /\ x.addr = a /\ x.ieee = slots[i].ieee /\ ~x.configured
      /\ x.volume = slots[i].volume /\ Line(x) = Line(slots[i])
  BY <1>2 DEF Slot, Line
<1> HIDE DEF x
<1>5. Begun' = Begun
  BY <1>1 DEF Begun, WasSetUp
<1>6. SoundSlots(kind, inherited, Begun, slots', num)
  <2>1. SoundSlots(kind, inherited, Begun, slots, num)
    BY DEF DeviceIInv
  <2>2. ~(kind = "tvoc" /\ inherited) => x.ieee \in {NoIeee, OwnerOf[x.addr]}
    BY <1>2, <1>4, <2>1 DEF SoundSlots
  <2>3. SoundSlots(kind, inherited, Begun, [slots EXCEPT ![i] = x], num)
    BY <1>2, <1>4, <2>1, <2>2, UpdatedSlot
  <2>4. QED
    BY <1>3, <2>3
<1>7. SoundWanted(kind, wanted, slots', num)
  BY <1>2, <1>3, <1>4, DeviceFacts, UpdatedWanted DEF DeviceIInv
<1>8. TypeOK'
  <2>1. slots' \in [1 .. Capacity -> Slot] /\ assigned' \subseteq Addrs
    BY <1>1, <1>6 DEF SoundSlots, DeviceIInv, TypeOK
  <2>2. QED
    BY <1>1, <2>1 DEF DeviceIInv, TypeOK
<1>9. FileIsCurrent'
  <2>1. \A j \in 1 .. num : Line(slots[j]) = Line(slots'[j])
    BY <1>2, <1>3, <1>4, DeviceFacts
  <2>2. Lines(slots, num) = Lines(slots', num)
    BY <2>1, LinesAgree
  <2>3. QED
    BY <1>1, <2>2, PersistedIsLines DEF DeviceIInv, FileIsCurrent
<1>10. QED
  BY <1>1, <1>5, <1>6, <1>7, <1>8, <1>9 DEF DeviceIInv, IsSiren

\* The registry is written to devices.txt.
LEMMA SaveKeeps ==
  ASSUME DeviceIInv, file' = Persisted, unsaved' = FALSE, saving' \subseteq saving,
         UNCHANGED <<kind, cached, slotVars, setupVars, restarts, wanted>>
  PROVE  DeviceIInv'
<1>1. UNCHANGED <<kind, cached, slots, num, inherited, assigned, setting, slotSet, setUp,
                  restarts, wanted>>
  BY DEF slotVars, setupVars
<1>2. Begun' = Begun
  BY <1>1 DEF Begun, WasSetUp
<1>3. SoundFile(kind, inherited, file')
  BY PersistedIsLines, LinesAreSound DEF DeviceIInv
<1>4. TypeOK'
  BY <1>1, <1>3 DEF DeviceIInv, TypeOK, SoundFile
<1>5. FileIsCurrent'
  BY <1>1, PersistedIsLines DEF FileIsCurrent
<1>6. QED
  BY <1>1, <1>2, <1>3, <1>4, <1>5 DEF DeviceIInv, IsSiren

\* The program is started again, with the file as it is or was cut off.
LEMMA RestartKeeps ==
  ASSUME DeviceIInv, Restart
  PROVE  DeviceIInv'
<1> DEFINE First(f, d) == FirstOf({j \in DOMAIN f : OwnerOf[f[j].addr] = d})
<1>1. PICK f \in {file} \cup Prefixes(Persisted) :
        /\ file' = f /\ slots' = Load(f) /\ num' = Len(f)
        /\ cached' = {f[i].addr : i \in DOMAIN f}
        /\ setUp' = {OwnerOf[f[i].addr] : i \in DOMAIN f}
        /\ wanted' = [d \in Devices |-> IF First(f, d) = 0 THEN DefaultVolume
                                        ELSE f[First(f, d)].volume]
  BY DEF Restart
<1>2. /\ restarts' = restarts + 1 /\ restarts < MaxRestarts
      /\ assigned' = {} /\ setting' = NoAddr /\ slotSet' = 0 /\ saving' = {}
      /\ unsaved' = FALSE /\ UNCHANGED <<kind, inherited>>
  BY DEF Restart
<1>3. SoundFile(kind, inherited, f)
  <2>1. SoundFile(kind, inherited, Persisted)
    BY PersistedIsLines, LinesAreSound DEF DeviceIInv
  <2>2. QED
    BY <2>1, PrefixIsSound DEF DeviceIInv
<1>4. /\ f \in Seq(Saved) /\ DOMAIN f = 1 .. Len(f) /\ Len(f) \in Nat
      /\ \A i \in DOMAIN f : /\ f[i].addr \in Addrs /\ f[i].volume \in Volumes
                             /\ OwnerOf[f[i].addr] \in Devices
  <2>1. f \in Seq(Saved)
    BY <1>3 DEF SoundFile
  <2>2. \A i \in DOMAIN f : f[i] \in Saved
    BY <2>1
  <2>3. QED
    BY <2>1, <2>2, DeviceFacts DEF Saved
<1>5. Begun' = setUp'
  BY <1>1, <1>2, <1>4 DEF Begun, WasSetUp
<1>6. SoundSlots(kind, inherited, Begun', slots', num') /\ Lines(slots', num') = f
  <2>1. \A i \in DOMAIN f : OwnerOf[f[i].addr] \in Begun'
    BY <1>1, <1>5
  <2>2. QED
    BY <1>1, <1>3, <2>1, LoadedIsSound
<1>7. ASSUME NEW d \in Devices
      PROVE  /\ First(f, d) = 0 => \A i \in 1 .. Len(f) : OwnerOf[f[i].addr] # d
             /\ First(f, d) # 0 => /\ First(f, d) \in 1 .. Len(f)
                                   /\ OwnerOf[f[First(f, d)].addr] = d
                                   /\ \A i \in 1 .. Len(f) : OwnerOf[f[i].addr] = d => First(f, d) <= i
  <2> DEFINE is == {j \in DOMAIN f : OwnerOf[f[j].addr] = d}
  <2>1. /\ is \in SUBSET (Nat \ {0}) /\ First(f, d) = FirstOf(is)
        /\ \A i \in is : i \in 1 .. Len(f) /\ OwnerOf[f[i].addr] = d
        /\ \A i \in 1 .. Len(f) : OwnerOf[f[i].addr] = d => i \in is
    BY <1>4
  <2> HIDE DEF is, First
  <2>2. /\ FirstOf(is) = 0 <=> is = {}
        /\ FirstOf(is) # 0 => FirstOf(is) \in is /\ \A j \in is : FirstOf(is) <= j
    BY <2>1, FirstIsFound
  <2>3. QED
    BY <2>1, <2>2
<1> HIDE DEF First
<1>8. wanted' \in [Devices -> Volumes \cup {NoVolume}]
  <2>1. ASSUME NEW d \in Devices, First(f, d) # 0
        PROVE  f[First(f, d)].volume \in Volumes
    BY <1>4, <1>7, <2>1
  <2>2. QED
    BY <1>1, <2>1, DeviceConstants
<1>9. \A i \in 1 .. Len(f) : slots'[i].addr = f[i].addr /\ slots'[i].volume = f[i].volume
  <2>1. Len(f) <= Capacity /\ Capacity \in Nat
    BY <1>3, DeviceConstants DEF SoundFile
  <2>2. \A i \in 1 .. Len(f) :
          slots'[i] = [addr |-> f[i].addr, ieee |-> f[i].ieee,
                       configured |-> IsSiren, volume |-> f[i].volume]
    BY <1>1, <1>4, <2>1 DEF Load
  <2>3. \A i \in 1 .. Len(f) : \E c :
          slots'[i] = [addr |-> f[i].addr, ieee |-> f[i].ieee,
                       configured |-> c, volume |-> f[i].volume]
    BY <2>2
  <2>4. ASSUME NEW i \in 1 .. Len(f)
        PROVE  slots'[i].addr = f[i].addr /\ slots'[i].volume = f[i].volume
    <3>1. PICK c : slots'[i] = [addr |-> f[i].addr, ieee |-> f[i].ieee,
                                configured |-> c, volume |-> f[i].volume]
      BY <2>3
    <3>2. QED
      BY <3>1
  <2>5. QED
    BY <2>4
<1>10. ASSUME NEW d \in Devices
       PROVE  HasWanted(wanted', slots', num', d)
  <2>1. wanted'[d] = IF First(f, d) = 0 THEN DefaultVolume ELSE f[First(f, d)].volume
    BY <1>1
  <2>2. num' = Len(f)
    BY <1>1
  <2>3. CASE First(f, d) = 0
    BY <1>7, <1>9, <2>1, <2>2, <2>3 DEF HasWanted, IsOldest
  <2>4. CASE First(f, d) # 0
    <3>1. ASSUME NEW i \in 1 .. Len(f), IsOldest(slots', d, i)
          PROVE  i = First(f, d)
      <4>1. OwnerOf[f[i].addr] = d /\ First(f, d) <= i
        BY <1>7, <1>9, <2>4, <3>1 DEF IsOldest
      <4>2. ~(First(f, d) \in 1 .. i - 1)
        BY <1>7, <1>9, <2>4, <3>1 DEF IsOldest
      <4>3. QED
        BY <1>7, <2>4, <4>1, <4>2
    <3>2. ~ \A i \in 1 .. Len(f) : OwnerOf[slots'[i].addr] # d
      BY <1>7, <1>9, <2>4
    <3>3. QED
      BY <1>9, <2>1, <2>2, <2>4, <3>1, <3>2 DEF HasWanted
  <2>5. QED
    BY <2>3, <2>4
<1>11. SoundWanted(kind, wanted', slots', num')
  BY <1>10 DEF SoundWanted
<1>12. TypeOK'
  <2>1. slots' \in [1 .. Capacity -> Slot] /\ num' \in 0 .. Capacity
    BY <1>6 DEF SoundSlots
  <2>2. cached' \subseteq Addrs /\ setUp' \subseteq Devices /\ file' \in Seq(Saved)
    BY <1>1, <1>4
  <2>3. restarts' \in 0 .. MaxRestarts /\ slotSet' \in 0 .. Capacity
    BY <1>2, DeviceConstants DEF DeviceIInv, TypeOK
  <2>4. QED
    BY <1>2, <1>8, <2>1, <2>2, <2>3 DEF DeviceIInv, TypeOK
<1>13. FileIsCurrent'
  BY <1>1, <1>6, PersistedIsLines DEF FileIsCurrent
<1>14. SoundFile(kind', inherited', file')
  BY <1>1, <1>2, <1>3
<1>15. QED
  BY <1>2, <1>6, <1>11, <1>12, <1>13, <1>14 DEF DeviceIInv

\* The invariant is kept.
LEMMA DeviceStep == DeviceIInv /\ [Next]_vars => DeviceIInv'
<1> SUFFICES ASSUME DeviceIInv, [Next]_vars PROVE DeviceIInv'
  OBVIOUS
<1>1. ASSUME NEW a \in Addrs,
             \/ Announce(a) \/ Discover(a) \/ IeeeResponse(a)
             \/ SetupBegins(a) \/ Rebind(a)
             \/ \E v \in Volumes : ReportVolume(a, v) \/ SetVolume(a, v)
      PROVE  DeviceIInv'
  <2>1. CASE Announce(a)
    BY <2>1, AnnounceKeeps
  <2>2. CASE Discover(a)
    BY <2>2, DiscoverKeeps
  <2>3. CASE IeeeResponse(a)
    BY <2>3, IeeeResponseKeeps
  <2>4. CASE SetupBegins(a)
    BY <2>4, SetupBeginsKeeps
  <2>5. CASE Rebind(a)
    BY <2>5, RebindKeeps
  <2>6. CASE \E v \in Volumes : ReportVolume(a, v) \/ SetVolume(a, v)
    BY <2>6, VolumeKeeps
  <2>7. QED
    BY <1>1, <2>1, <2>2, <2>3, <2>4, <2>5, <2>6
<1>2. CASE SetupEnds
  BY <1>2, SetupEndsKeeps
<1>3. ASSUME NEW t \in {"main", "worker", "cli"}, Save(t)
      PROVE  DeviceIInv'
  <2>1. /\ file' = Persisted /\ unsaved' = FALSE /\ saving' \subseteq saving
        /\ UNCHANGED <<kind, cached, slotVars, setupVars, restarts, wanted>>
    BY <1>3 DEF Save
  <2>2. QED
    BY <2>1, SaveKeeps
<1>4. CASE Enroll
  <2>1. /\ file' = Persisted /\ unsaved' = FALSE /\ saving' \subseteq saving
        /\ UNCHANGED <<kind, cached, slotVars, setupVars, restarts, wanted>>
    BY <1>4 DEF Enroll
  <2>2. QED
    BY <2>1, SaveKeeps
<1>5. CASE Restart
  BY <1>5, RestartKeeps
<1>6. CASE UNCHANGED vars
  <2>1. UNCHANGED <<kind, cached, slots, num, inherited, assigned, setting, slotSet, setUp,
                    saving, file, restarts, unsaved, wanted>>
    BY <1>6 DEF vars, slotVars, setupVars, fileVars
  <2>2. TypeOK'
    BY <2>1 DEF DeviceIInv, TypeOK
  <2>3. Begun' = Begun
    BY <2>1 DEF Begun, WasSetUp
  <2>4. FileIsCurrent'
    BY <2>1, PersistedIsLines DEF DeviceIInv, FileIsCurrent
  <2>5. QED
    BY <2>1, <2>2, <2>3, <2>4 DEF DeviceIInv, IsSiren
<1>7. QED
  BY <1>1, <1>2, <1>3, <1>4, <1>5, <1>6 DEF Next

-----------------------------------------------------------------------------
(* The theorems. *)

\* What the arrays hold is of the device it is kept for, however many entries are
\* merged, moved down or written over: a siren has one entry for each address, an
\* entry has the IEEE address of its device, a device that counts as configured was
\* set up, and devices.txt is what was last changed.
THEOREM DeviceSafety == Spec => []DeviceInv
<1>1. DeviceIInv => DeviceInv
  <2> SUFFICES ASSUME DeviceIInv PROVE DeviceInv
    OBVIOUS
  <2>1. SoundSlots(kind, inherited, Begun, slots, num)
    BY DEF DeviceIInv
  <2>2. AddrsAreDistinct /\ IeeeIsOwn
    BY <2>1 DEF SoundSlots, AddrsAreDistinct, IeeeIsOwn, IsSiren
  <2>3. ConfiguredWasSetUp
    BY <2>1 DEF SoundSlots, ConfiguredWasSetUp, Begun
  <2>4. QED
    BY <2>2, <2>3 DEF DeviceIInv, DeviceInv
<1>2. QED
  BY <1>1, DeviceInit, DeviceStep, PTL DEF Spec

\* A siren that rejoined under new addresses, however often and in whatever order
\* its IEEE addresses arrive, keeps the volume that was set for it (siren.c:287).
THEOREM SettingSafety == Spec => []SettingIsKept
<1>1. DeviceIInv => SettingIsKept
  <2> SUFFICES ASSUME DeviceIInv, NEW d \in Devices, NEW i \in 1 .. num,
                      IsSiren, EntriesOf(d) = {i}, wanted[d] # NoVolume
               PROVE  wanted[d] = slots[i].volume
    BY DEF SettingIsKept
  <2>1. HasWanted(wanted, slots, num, d)
    BY DEF DeviceIInv, SoundWanted, IsSiren
  <2>2. \A j \in 1 .. num : j \in EntriesOf(d) <=> OwnerOf[slots[j].addr] = d
    BY DeviceFacts DEF EntriesOf
  <2>3. \A j \in 1 .. i - 1 : j \in 1 .. num /\ j # i
    BY DeviceFacts
  <2>4. IsOldest(slots, d, i)
    BY <2>2, <2>3 DEF IsOldest
  <2>5. QED
    BY <2>1, <2>4 DEF HasWanted
<1>2. QED
  BY <1>1, DeviceInit, DeviceStep, PTL DEF Spec

-----------------------------------------------------------------------------
(* A device joins: Dispatcher. *)

Joiners == J!ShortAddrs
FrameKinds ==
  {"annce", "annceCb", "ieeeRsp", "activeEpRsp", "matchDescRsp", "simpleDescRsp",
   "model", "report", "writeRsp", "enrollReq", "panic", "clear"}
ButtonEntries == [addr : Joiners, ieee : {None, Ieee}, configured : BOOLEAN, isPanic : BOOLEAN]
Messages == [kind : FrameKinds \cup {"assign", "rebind"}, addr : Joiners]
Commands == {"bindOnOff", "activate", "bindZone", "writeCie", "enroll"}
DeviceStates(m) ==
  [addr : {None} \cup 1 .. m + 1, active : BOOLEAN, bound : SUBSET {"onOff", "zone"},
   cie : BOOLEAN, enrolled : BOOLEAN, resets : BOOLEAN, pressed : BOOLEAN]

\* The frames of a device of profile p: a simple descriptor is of an endpoint it has.
Frames(p) ==
  {f \in [kind : FrameKinds, addr : Joiners, eps : SUBSET DOMAIN p.descriptors] :
     f.kind = "simpleDescRsp" => \E ep \in DOMAIN p.descriptors : f.eps = {ep}}

\* The part of the program and of the worker of the panic buttons.
ProgramTypes ==
  /\ cache \in [Joiners -> {None, Ieee}]
  /\ asked \in [Joiners -> {"never", "recently", "before"}]
  /\ inbox \in Seq(Messages)
  /\ job \in [addr : {None} \cup Joiners, todo : Seq(Commands)]
  /\ job.todo # <<>> => job.addr \in Joiners
  /\ known \in [J!Others -> SUBSET Joiners]

\* An array of panic buttons: an entry for an address at most, and one that was
\* set up has an IEEE address.
SoundButtons(bs) ==
  /\ bs \in Seq(ButtonEntries) /\ Len(bs) <= MaxButtons
  /\ \A i, j \in DOMAIN bs : i # j => bs[i].addr # bs[j].addr
  /\ \A i \in DOMAIN bs : bs[i].configured => bs[i].ieee # None

\* The part of the device and of the network.
NetworkTypes ==
  /\ profile \in Profiles
  /\ mishaps \in 0 .. MaxMishaps
  /\ device \in DeviceStates(mishaps)
  /\ device.resets => device.addr \in Joiners
  /\ air \in Seq(Frames(profile))

JoinIInv == ProgramTypes /\ SoundButtons(buttons) /\ NetworkTypes /\ J!OwnersAreCandidates

\* The operators of Compaction are those of the module that is instantiated.
LEMMA SameCardinality == \A S : J!Cardinality(S) = Cardinality(S)
  BY Zenon DEF Cardinality, J!Cardinality

LEMMA SameEntrant == \A is, k : J!Entrant(is, k) = Entrant(is, k)
<1>1. \A is, i : J!Place(is, i) = Place(is, i)
  BY SameCardinality DEF Place, J!Place
<1>2. QED
  BY <1>1 DEF Entrant, J!Entrant

LEMMA SameKeep == \A r, is : J!Keep(r, is) = Keep(r, is)
  BY SameCardinality, SameEntrant DEF Keep, J!Keep

\* The bounds, and the addresses.
LEMMA JoinConstants ==
  /\ MaxMishaps \in Nat /\ MaxButtons \in Nat
  /\ Joiners = 1 .. MaxMishaps + 1 /\ 1 \in Joiners
  BY JoiningAssumption DEF Joiners, J!ShortAddrs

\* A queue is its head and the rest.
LEMMA HeadAndRest ==
  ASSUME NEW S, NEW q \in Seq(S), q # <<>>
  PROVE  Head(q) \in S /\ Tail(q) \in Seq(S)
  BY HeadTailProperties

-----------------------------------------------------------------------------
(* The frames that a query brings on. *)

\* What is sent from the device is of its profile.
LEMMA FrameIsOfProfile ==
  ASSUME NetworkTypes, NEW a \in Joiners, NEW k \in FrameKinds \ {"simpleDescRsp"},
         NEW eps \in SUBSET DOMAIN profile.descriptors
  PROVE  J!Frame(k, a, eps) \in Frames(profile)
  BY DEF J!Frame, Frames

\* The answers to the queries for an address.
LEMMA AnswersAreOfProfile ==
  ASSUME NetworkTypes, NEW a \in Joiners
  PROVE  /\ J!IeeeRsp(a) \in Seq(Frames(profile))
         /\ J!ActiveEpRsp(a) \in Seq(Frames(profile))
         /\ J!ModelRsp(a) \in Seq(Frames(profile))
         /\ \A eps : J!SimpleDescRsp(a, eps) \in Seq(Frames(profile))
         /\ J!Burst(a) \in Seq(Frames(profile))
<1> DEFINE ds == DOMAIN profile.descriptors
           fs == Frames(profile)
<1>1. J!Endpoints \in SUBSET ds /\ {} \in SUBSET ds
  BY DEF J!Endpoints
<1>2. /\ J!Frame("ieeeRsp", a, {}) \in fs /\ J!Frame("model", a, {}) \in fs
      /\ J!Frame("activeEpRsp", a, J!Endpoints) \in fs
  <2> HIDE DEF ds, fs
  <2>1. {"ieeeRsp", "model", "activeEpRsp"} \subseteq FrameKinds \ {"simpleDescRsp"}
    BY DEF FrameKinds
  <2>2. \A k \in {"ieeeRsp", "model", "activeEpRsp"}, eps \in SUBSET ds : J!Frame(k, a, eps) \in fs
    BY <2>1, FrameIsOfProfile DEF ds, fs
  <2>3. QED
    BY <1>1, <2>2
<1>3. J!IeeeRsp(a) \in Seq(fs)
  <2> HIDE DEF fs
  <2>1. QED
    BY <1>2 DEF J!IeeeRsp, J!From
<1>4. J!ActiveEpRsp(a) \in Seq(fs)
  <2> HIDE DEF fs
  <2>1. QED
    BY <1>2 DEF J!ActiveEpRsp, J!From
<1>5. J!ModelRsp(a) \in Seq(fs)
  <2> HIDE DEF fs
  <2>1. QED
    BY <1>2 DEF J!ModelRsp, J!From
<1>6. ASSUME NEW eps
      PROVE  J!SimpleDescRsp(a, eps) \in Seq(fs)
  <2> DEFINE as == eps \cap J!Endpoints
             qs == [k \in 1 .. Cardinality(as) |-> J!Frame("simpleDescRsp", a, {Entrant(as, k)})]
  <2>1. ds \in SUBSET (1 .. 240)
    BY JoiningAssumption DEF NetworkTypes, J!ProfilesAreDevices
  <2>2. as \in SUBSET (1 .. 240) /\ as \in SUBSET ds
    BY <1>1, <2>1
  <2>3. Cardinality(as) \in Nat /\ \A k \in 1 .. Cardinality(as) : Entrant(as, k) \in as
    <3> HIDE DEF as, ds
    <3>1. 240 \in Nat
      OBVIOUS
    <3>2. Cardinality(as) \in 0 .. 240
      BY <2>2, <3>1, PlacesInOrder
    <3>3. \A k \in 1 .. Cardinality(as) : Entrant(as, k) \in as
      BY <2>2, <3>1, PlacesTaken
    <3>4. 0 .. 240 \subseteq Nat
      OBVIOUS
    <3>5. QED
      BY <3>2, <3>3, <3>4, Zenon
  <2>4. ASSUME NEW ep \in ds
        PROVE  J!Frame("simpleDescRsp", a, {ep}) \in fs
    <3>1. {ep} \in SUBSET ds /\ "simpleDescRsp" \in FrameKinds
      BY DEF FrameKinds
    <3> DEFINE f == [kind |-> "simpleDescRsp", addr |-> a, eps |-> {ep}]
    <3>2. f \in [kind : FrameKinds, addr : Joiners, eps : SUBSET ds]
      BY <3>1
    <3>3. \E e \in ds : f.eps = {e}
      OBVIOUS
    <3> HIDE DEF f
    <3>4. f \in fs
      BY <3>2, <3>3 DEF Frames
    <3>5. QED
      BY <3>4 DEF J!Frame, f
  <2>5. qs \in Seq(fs)
    <3> HIDE DEF as, ds, fs
    <3>1. \A k \in 1 .. Cardinality(as) : J!Frame("simpleDescRsp", a, {Entrant(as, k)}) \in fs
      BY <2>2, <2>3, <2>4
    <3>2. qs \in [1 .. Cardinality(as) -> fs]
      BY <3>1
    <3>3. QED
      BY <2>3, <3>2, SeqDef
  <2>6. J!SimpleDescRsp(a, eps) = J!From(a, qs)
    BY SameCardinality, SameEntrant DEF J!SimpleDescRsp
  <2> HIDE DEF qs, fs
  <2>7. QED
    BY <2>5, <2>6 DEF J!From
<1>7. J!Burst(a) \in Seq(fs)
  <2> HIDE DEF fs
  <2>1. QED
    BY <1>3, <1>4, <1>6 DEF J!Burst
<1>8. QED
  BY <1>3, <1>4, <1>5, <1>6, <1>7
-----------------------------------------------------------------------------
(* The registry of the panic buttons. *)

\* A known address is found where it is.
LEMMA ButtonIsFound ==
  ASSUME SoundButtons(buttons), NEW a, J!IsKnown(a)
  PROVE  J!IndexOf(a) \in DOMAIN buttons /\ buttons[J!IndexOf(a)].addr = a
<1> DEFINE is == {i \in DOMAIN buttons : buttons[i].addr = a}
<1>1. is \in SUBSET Nat /\ is # {}
  BY DEF SoundButtons, J!IsKnown
<1>2. PICK i \in is : \A j \in is : i <= j
  <2> HIDE DEF is
  <2>1. QED
    BY <1>1, SmallestExists
<1>3. \A j \in 1 .. i - 1 : j \in DOMAIN buttons /\ ~(i <= j)
  BY <1>2 DEF SoundButtons
<1>4. \A j \in 1 .. i - 1 : buttons[j].addr # a
  BY <1>2, <1>3
<1>5. i \in DOMAIN buttons /\ buttons[i].addr = a
  BY <1>2
<1> HIDE DEF is
<1>6. QED
  BY <1>4, <1>5 DEF J!IndexOf

\* What the cache may add to an entry.
LEMMA LearntIsSound ==
  ASSUME ProgramTypes, NEW b \in ButtonEntries, b.configured => b.ieee # None
  PROVE  /\ J!Learnt(b) \in ButtonEntries /\ J!Learnt(b).addr = b.addr
         /\ J!Learnt(b).configured => J!Learnt(b).ieee # None
<1>1. PICK c \in {None, Ieee} : c = cache[b.addr]
  BY DEF ProgramTypes, ButtonEntries
<1>2. J!Learnt(b) = IF b.ieee = None THEN [b EXCEPT !.ieee = c] ELSE b
  BY <1>1 DEF J!Learnt
<1>3. QED
  BY <1>2 DEF ButtonEntries

\* An entry that keeps its address may change.
LEMMA ChangedButton ==
  ASSUME NEW bs, SoundButtons(bs), NEW i \in DOMAIN bs, NEW b \in ButtonEntries,
         b.addr = bs[i].addr, b.configured => b.ieee # None
  PROVE  SoundButtons([bs EXCEPT ![i] = b]) /\ bs # <<>>
<1> DEFINE cs == [bs EXCEPT ![i] = b]
<1>1. cs \in Seq(ButtonEntries) /\ Len(cs) = Len(bs) /\ DOMAIN cs = DOMAIN bs
  BY DEF SoundButtons
<1>2. \A j \in DOMAIN bs : cs[j] = IF j = i THEN b ELSE bs[j]
  OBVIOUS
<1> HIDE DEF cs
<1>3. \A j, k \in DOMAIN cs : j # k => cs[j].addr # cs[k].addr
  BY <1>1, <1>2 DEF SoundButtons
<1>4. \A j \in DOMAIN cs : cs[j].configured => cs[j].ieee # None
  BY <1>1, <1>2 DEF SoundButtons
<1>5. bs # <<>>
  OBVIOUS
<1>6. QED
  BY <1>1, <1>3, <1>4, <1>5 DEF SoundButtons, cs

\* An address that is new gets an entry of its own.
LEMMA NewButton ==
  ASSUME SoundButtons(buttons), Len(buttons) < MaxButtons, NEW b \in ButtonEntries,
         ~J!IsKnown(b.addr), ~b.configured
  PROVE  SoundButtons(Append(buttons, b))
<1> DEFINE cs == Append(buttons, b)
           n == Len(buttons)
<1>1. n \in Nat /\ DOMAIN buttons = 1 .. n /\ DOMAIN cs = 1 .. n + 1 /\ Len(cs) = n + 1
  BY DEF SoundButtons
<1>2. cs \in Seq(ButtonEntries) /\ \A i \in 1 .. n + 1 : cs[i] = IF i = n + 1 THEN b ELSE buttons[i]
  BY DEF SoundButtons
<1>3. n + 1 <= MaxButtons
  BY <1>1, JoinConstants
<1> HIDE DEF cs, n
<1>4. \A i \in 1 .. n + 1 : i # n + 1 => i \in DOMAIN buttons
  BY <1>1
<1>5. \A i \in DOMAIN buttons : buttons[i].addr # b.addr
  BY DEF J!IsKnown
<1>6. \A i, j \in DOMAIN cs : i # j => cs[i].addr # cs[j].addr
  BY <1>1, <1>2, <1>4, <1>5 DEF SoundButtons
<1>7. \A i \in DOMAIN cs : cs[i].configured => cs[i].ieee # None
  BY <1>1, <1>2, <1>4 DEF SoundButtons
<1>8. QED
  BY <1>1, <1>2, <1>3, <1>6, <1>7 DEF SoundButtons, cs

\* A message for the worker.
LEMMA PostedMessage ==
  ASSUME inbox \in Seq(Messages), NEW k \in FrameKinds \cup {"assign", "rebind"},
         NEW a \in Joiners, J!Post(k, a)
  PROVE  inbox' \in Seq(Messages)
<1>1. [kind |-> k, addr |-> a] \in Messages
  BY DEF Messages
<1>2. QED
  BY <1>1 DEF J!Post

\* OnicsButton_Discover.
LEMMA ButtonDiscoverKeeps ==
  ASSUME ProgramTypes, SoundButtons(buttons), NEW a \in Joiners, J!Discover(a)
  PROVE  SoundButtons(buttons') /\ inbox' \in Seq(Messages)
<1>1. inbox' \in Seq(Messages)
  BY PostedMessage DEF J!Discover, ProgramTypes
<1>2. CASE J!IsKnown(a)
  <2> DEFINE i == J!IndexOf(a)
             b == J!Learnt(buttons[i])
  <2>1. buttons' = [buttons EXCEPT ![i] = b]
    BY <1>2 DEF J!Discover
  <2>2. i \in DOMAIN buttons
    BY <1>2, ButtonIsFound
  <2>3. buttons[i] \in ButtonEntries /\ (buttons[i].configured => buttons[i].ieee # None)
    BY <2>2 DEF SoundButtons
  <2>4. b \in ButtonEntries /\ b.addr = buttons[i].addr /\ (b.configured => b.ieee # None)
    BY <2>3, LearntIsSound
  <2> HIDE DEF i, b
  <2>5. QED
    BY <1>1, <2>1, <2>2, <2>4, ChangedButton
<1>3. CASE ~J!IsKnown(a) /\ Len(buttons) < MaxButtons
  <2>1. PICK b : b = [addr |-> a, ieee |-> cache[a], configured |-> FALSE, isPanic |-> FALSE]
    OBVIOUS
  <2>2. buttons' = Append(buttons, b)
    BY <1>3, <2>1 DEF J!Discover
  <2>3. b \in ButtonEntries /\ b.addr = a /\ ~b.configured
    BY <2>1 DEF ProgramTypes, ButtonEntries
  <2>4. QED
    BY <1>1, <1>3, <2>2, <2>3, NewButton
<1>4. CASE ~J!IsKnown(a) /\ ~(Len(buttons) < MaxButtons)
  <2>1. buttons' = buttons
    BY <1>4 DEF J!Discover
  <2>2. QED
    BY <1>1, <2>1
<1>5. QED
  BY <1>2, <1>3, <1>4

\* OnicsButton_UpdateIeee.
LEMMA ButtonUpdateKeeps ==
  ASSUME ProgramTypes, SoundButtons(buttons), NEW a \in Joiners, NEW ieee \in {None, Ieee},
         ieee # None, J!UpdateIeee(a, ieee)
  PROVE  /\ SoundButtons(buttons') /\ inbox' \in Seq(Messages)
         /\ buttons' # <<>> => buttons # <<>>
<1>1. CASE ~J!IsKnown(a)
  BY <1>1 DEF J!UpdateIeee, ProgramTypes
<1>2. CASE J!IsKnown(a)
  <2> DEFINE stale == {i \in DOMAIN buttons : buttons[i].addr # a /\ buttons[i].ieee = ieee}
             is == DOMAIN buttons \ stale
             others == Keep(buttons, is)
             Kept(b) == IF b.addr # a THEN b
                        ELSE [b EXCEPT !.ieee = ieee,
                               !.configured = IF stale = {} THEN @
                                              ELSE buttons[Entrant(stale, 1)].configured]
  <2>1. /\ buttons' = [i \in DOMAIN others |-> Kept(others[i])]
        /\ J!Post("assign", a)
    BY <1>2, SameKeep, SameEntrant DEF J!UpdateIeee
  <2>2. inbox' \in Seq(Messages)
    BY <2>1, PostedMessage DEF ProgramTypes
  <2>3. PICK n \in Nat : n = Len(buttons) /\ DOMAIN buttons = 1 .. n
    BY DEF SoundButtons
  <2>4. /\ buttons \in Seq(ButtonEntries) /\ is \in SUBSET DOMAIN buttons
        /\ stale \in SUBSET (1 .. n)
    BY <2>3 DEF SoundButtons
  <2>5. /\ others \in Seq(ButtonEntries) /\ Len(others) <= n
        /\ \A k \in DOMAIN others : Entrant(is, k) \in is /\ others[k] = buttons[Entrant(is, k)]
        /\ \A k, l \in DOMAIN others : k # l => Entrant(is, k) # Entrant(is, l)
    <3> HIDE DEF is
    <3>1. QED
      BY <2>3, <2>4, KeepProperties
  <2>6. stale # {} => buttons[Entrant(stale, 1)].configured \in BOOLEAN
    <3> HIDE DEF stale
    <3>1. SUFFICES ASSUME stale # {} PROVE buttons[Entrant(stale, 1)].configured \in BOOLEAN
      OBVIOUS
    <3>2. Cardinality(stale) \in 0 .. n /\ IsFiniteSet(stale)
      BY <2>3, <2>4, PlacesInOrder
    <3>3. Cardinality(stale) # 0
      BY <3>1, <3>2, FS_EmptySet
    <3>4. 1 \in 1 .. Cardinality(stale)
      BY <3>2, <3>3
    <3>5. Entrant(stale, 1) \in DOMAIN buttons
      BY <2>3, <2>4, <3>4, PlacesTaken
    <3>6. PICK e \in ButtonEntries : e = buttons[Entrant(stale, 1)]
      BY <2>4, <3>5
    <3>7. e.configured \in BOOLEAN
      BY DEF ButtonEntries
    <3>8. QED
      BY <3>6, <3>7
  <2>7. ASSUME NEW b \in ButtonEntries, b.configured => b.ieee # None
        PROVE  /\ Kept(b) \in ButtonEntries /\ Kept(b).addr = b.addr
               /\ Kept(b).configured => Kept(b).ieee # None
    <3>1. b.configured \in BOOLEAN
      BY DEF ButtonEntries
    <3> DEFINE c == IF stale = {} THEN b.configured ELSE buttons[Entrant(stale, 1)].configured
    <3>2. c \in BOOLEAN
      BY <2>6, <3>1
    <3>3. Kept(b) = IF b.addr # a THEN b ELSE [b EXCEPT !.ieee = ieee, !.configured = c]
      OBVIOUS
    <3> HIDE DEF c, Kept
    <3>4. PICK d : d = [b EXCEPT !.ieee = ieee, !.configured = c]
      OBVIOUS
    <3>5. d \in ButtonEntries /\ d.addr = b.addr /\ d.ieee = ieee
      BY <3>2, <3>4 DEF ButtonEntries
    <3>6. Kept(b) = IF b.addr # a THEN b ELSE d
      BY <3>3, <3>4
    <3>7. CASE b.addr # a
      <4>1. Kept(b) = b
        BY <3>6, <3>7
      <4>2. QED
        BY <2>7, <4>1, Zenon
    <3>8. CASE b.addr = a
      <4>1. Kept(b) = d
        BY <3>6, <3>8
      <4>2. QED
        BY <3>5, <4>1, Zenon
    <3>9. QED
      BY <3>7, <3>8
  <2> HIDE DEF is, stale, Kept
  <2>8. ASSUME NEW k \in DOMAIN others
        PROVE  /\ others[k] \in ButtonEntries
               /\ others[k].configured => others[k].ieee # None
    BY <2>4, <2>5 DEF SoundButtons
  <2>9. \A k, l \in DOMAIN others : k # l => others[k].addr # others[l].addr
    <3>1. ASSUME NEW k \in DOMAIN others, NEW l \in DOMAIN others, k # l
          PROVE  others[k].addr # others[l].addr
      <4>1. /\ Entrant(is, k) \in DOMAIN buttons /\ Entrant(is, l) \in DOMAIN buttons
            /\ Entrant(is, k) # Entrant(is, l)
        BY <2>4, <2>5, <3>1
      <4>2. others[k] = buttons[Entrant(is, k)] /\ others[l] = buttons[Entrant(is, l)]
        BY <2>5
      <4>3. QED
        BY <4>1, <4>2 DEF SoundButtons
    <3>2. QED
      BY <3>1
  <2> HIDE DEF others
  <2>10. buttons' \in Seq(ButtonEntries) /\ Len(buttons') = Len(others) /\ DOMAIN buttons' = DOMAIN others
    <3>1. others \in Seq(ButtonEntries)
      BY <2>5
    <3>2. PICK m \in Nat : m = Len(others) /\ DOMAIN others = 1 .. m
      BY <3>1
    <3>3. buttons' \in [1 .. m -> ButtonEntries]
      BY <2>1, <2>7, <2>8, <3>2
    <3>4. QED
      BY <3>2, <3>3, SeqDef
  <2>11. \A k \in DOMAIN others : buttons'[k] = Kept(others[k])
    BY <2>1
  <2>12. SoundButtons(buttons')
    <3>1. Len(buttons') <= MaxButtons
      BY <2>3, <2>5, <2>10, JoinConstants DEF SoundButtons
    <3>2. \A k, l \in DOMAIN buttons' : k # l => buttons'[k].addr # buttons'[l].addr
      BY <2>7, <2>8, <2>9, <2>10, <2>11
    <3>3. \A k \in DOMAIN buttons' : buttons'[k].configured => buttons'[k].ieee # None
      BY <2>7, <2>8, <2>10, <2>11
    <3>4. QED
      BY <2>10, <3>1, <3>2, <3>3 DEF SoundButtons
  <2>13. buttons # <<>>
    BY <1>2 DEF J!IsKnown
  <2>14. QED
    BY <2>2, <2>12, <2>13
<1>3. QED
  BY <1>1, <1>2
-----------------------------------------------------------------------------
(* Main_HandleIncomingFrame. *)

\* The answers to new queries follow the frames that are on their way.
LEMMA TakenFrame ==
  ASSUME NetworkTypes, air # <<>>, NEW fs \in Seq(Frames(profile)), J!Takes(fs)
  PROVE  air' \in Seq(Frames(profile))
  BY HeadAndRest DEF J!Takes, NetworkTypes

\* The frame in hand.
LEMMA FrameInHand ==
  ASSUME NetworkTypes, air # <<>>
  PROVE  /\ J!F.addr \in Joiners /\ J!F.kind \in FrameKinds
         /\ J!F.kind = "simpleDescRsp" => \E ep \in DOMAIN profile.descriptors : J!F.eps = {ep}
         /\ <<>> \in Seq(Frames(profile))
<1>1. J!F \in Frames(profile)
  BY HeadAndRest DEF NetworkTypes, J!F
<1>2. QED
  BY <1>1 DEF Frames

\* The tables of the dispatcher.
LEMMA TablesKept ==
  ASSUME ProgramTypes, NEW a \in Joiners
  PROVE  /\ J!AddDiscoveredIeee(a) => cache' \in [Joiners -> {None, Ieee}]
         /\ J!NoteQuery(a) => asked' \in [Joiners -> {"never", "recently", "before"}]
  BY DEF ProgramTypes, J!AddDiscoveredIeee, J!NoteQuery

\* What handling a frame may change, and has to keep.
AfterFrame ==
  /\ cache' \in [Joiners -> {None, Ieee}]
  /\ asked' \in [Joiners -> {"never", "recently", "before"}]
  /\ SoundButtons(buttons') /\ inbox' \in Seq(Messages)
  /\ known' \in [J!Others -> SUBSET Joiners]
  /\ air' \in Seq(Frames(profile))
  /\ \A m \in J!Others : known'[m] # {} => m \in J!Candidates(profile)
  /\ buttons' # <<>> => "onics" \in J!Candidates(profile)

\* The Discover function of a module that may register the device.
LEMMA ModuleRegisterKeeps ==
  ASSUME JoinIInv, NEW a \in Joiners, NEW m,
         m # None => m \in J!Candidates(profile), J!Register(m, a)
  PROVE  /\ SoundButtons(buttons') /\ inbox' \in Seq(Messages)
         /\ known' \in [J!Others -> SUBSET Joiners]
         /\ \A o \in J!Others : known'[o] # {} => o \in J!Candidates(profile)
         /\ buttons' # <<>> => "onics" \in J!Candidates(profile)
<1>1. "onics" # None
  <2>1. 2 \in DOMAIN J!Modules /\ J!Modules[2] = "onics"
    BY DEF J!Modules
  <2>2. QED
    BY <2>1, JoiningAssumption DEF J!ProfilesAreDevices
<1>2. /\ ProgramTypes /\ SoundButtons(buttons) /\ known \in [J!Others -> SUBSET Joiners]
      /\ \A o \in J!Others : known[o] # {} => o \in J!Candidates(profile)
      /\ buttons # <<>> => "onics" \in J!Candidates(profile)
      /\ inbox \in Seq(Messages)
  BY DEF JoinIInv, J!OwnersAreCandidates, ProgramTypes
<1>3. CASE m = "onics"
  <2>1. J!Discover(a) /\ known' = known
    BY <1>3 DEF J!Register
  <2>2. SoundButtons(buttons') /\ inbox' \in Seq(Messages)
    BY <1>2, <2>1, ButtonDiscoverKeeps
  <2>3. "onics" \in J!Candidates(profile)
    BY <1>1, <1>3
  <2>4. QED
    BY <1>2, <2>1, <2>2, <2>3
<1>4. CASE m # "onics"
  <2>1. /\ known' = IF m = None THEN known ELSE [known EXCEPT ![m] = @ \cup {a}]
        /\ buttons' = buttons /\ inbox' = inbox
    BY <1>4 DEF J!Register
  <2>2. known' \in [J!Others -> SUBSET Joiners]
    BY <1>2, <2>1
  <2>3. \A o \in J!Others : known'[o] = known[o] \/ (o = m /\ m # None)
    BY <1>2, <2>1
  <2>4. \A o \in J!Others : known'[o] # {} => o \in J!Candidates(profile)
    BY <1>2, <2>3
  <2>5. QED
    BY <1>2, <2>1, <2>2, <2>4
<1>5. QED
  BY <1>3, <1>4

\* What the tests of the invariant come to before a frame is handled.
LEMMA BeforeFrame ==
  ASSUME JoinIInv
  PROVE  /\ cache \in [Joiners -> {None, Ieee}]
         /\ asked \in [Joiners -> {"never", "recently", "before"}]
         /\ SoundButtons(buttons) /\ inbox \in Seq(Messages)
         /\ known \in [J!Others -> SUBSET Joiners]
         /\ \A m \in J!Others : known[m] # {} => m \in J!Candidates(profile)
         /\ buttons # <<>> => "onics" \in J!Candidates(profile)
         /\ ProgramTypes /\ NetworkTypes
  BY DEF JoinIInv, ProgramTypes, J!OwnersAreCandidates

\* An announcement, of either kind.
LEMMA AnnounceHandled ==
  ASSUME JoinIInv, air # <<>>, J!Announce \/ J!AnnounceCb
  PROVE  AfterFrame
<1>1. PICK a \in Joiners : a = J!F.addr
  BY BeforeFrame, FrameInHand
<1>2. cache' \in [Joiners -> {None, Ieee}]
  BY <1>1, BeforeFrame, TablesKept DEF J!Announce, J!AnnounceCb
<1>3. asked' \in [Joiners -> {"never", "recently", "before"}]
  BY <1>1, BeforeFrame, TablesKept DEF J!Announce, J!AnnounceCb
<1>4. J!Takes(J!Burst(a)) \/ J!Takes(<<>>)
  BY <1>1 DEF J!Announce, J!AnnounceCb
<1>5. air' \in Seq(Frames(profile))
  BY <1>4, BeforeFrame, FrameInHand, AnswersAreOfProfile, TakenFrame
<1>6. J!Post("rebind", a) \/ inbox' = inbox
  BY <1>1 DEF J!Announce, J!AnnounceCb
<1>7. inbox' \in Seq(Messages)
  BY <1>6, BeforeFrame, PostedMessage
<1>8. buttons' = buttons /\ known' = known
  BY DEF J!Announce, J!AnnounceCb
<1>9. QED
  BY <1>2, <1>3, <1>5, <1>7, <1>8, BeforeFrame DEF AfterFrame

\* The IEEE address of the device.
LEMMA IeeeRspHandled ==
  ASSUME JoinIInv, air # <<>>, J!HandleIeeeRsp
  PROVE  AfterFrame
<1>1. PICK a \in Joiners : a = J!F.addr
  BY BeforeFrame, FrameInHand
<1>2. cache' \in [Joiners -> {None, Ieee}]
  BY <1>1, BeforeFrame, TablesKept DEF J!HandleIeeeRsp
<1>3. PICK ieee \in {None, Ieee} : ieee = cache'[a]
  BY <1>2
<1>4. IF ieee # None THEN J!UpdateIeee(a, ieee) ELSE buttons' = buttons /\ inbox' = inbox
  BY <1>1, <1>3 DEF J!HandleIeeeRsp
<1>5. /\ SoundButtons(buttons') /\ inbox' \in Seq(Messages)
      /\ buttons' # <<>> => buttons # <<>>
  BY <1>4, BeforeFrame, ButtonUpdateKeeps
<1>6. air' \in Seq(Frames(profile))
  BY BeforeFrame, FrameInHand, TakenFrame DEF J!HandleIeeeRsp
<1>7. asked' = asked /\ known' = known
  BY DEF J!HandleIeeeRsp
<1>8. QED
  BY <1>2, <1>5, <1>6, <1>7, BeforeFrame DEF AfterFrame

\* The lists of its endpoints.
LEMMA EndpointsHandled ==
  ASSUME JoinIInv, air # <<>>, J!HandleActiveEpRsp \/ J!HandleMatchDescRsp
  PROVE  AfterFrame
<1>1. PICK a \in Joiners : a = J!F.addr
  BY BeforeFrame, FrameInHand
<1>2. J!Takes(J!SimpleDescRsp(a, J!F.eps))
  BY <1>1 DEF J!HandleActiveEpRsp, J!HandleMatchDescRsp
<1>3. air' \in Seq(Frames(profile))
  BY <1>2, BeforeFrame, AnswersAreOfProfile, TakenFrame
<1>4. J!Post("rebind", a) \/ inbox' = inbox
  BY <1>1 DEF J!HandleActiveEpRsp, J!HandleMatchDescRsp
<1>5. inbox' \in Seq(Messages)
  BY <1>4, BeforeFrame, PostedMessage
<1>6. cache' = cache /\ buttons' = buttons /\ asked' = asked /\ known' = known
  BY DEF J!HandleActiveEpRsp, J!HandleMatchDescRsp
<1>7. QED
  BY <1>3, <1>5, <1>6, BeforeFrame DEF AfterFrame

\* The description of an endpoint.
LEMMA DescriptorHandled ==
  ASSUME JoinIInv, air # <<>>, J!HandleSimpleDescRsp
  PROVE  AfterFrame
<1>1. PICK a \in Joiners : a = J!F.addr
  BY BeforeFrame, FrameInHand
<1>2. PICK ep \in DOMAIN profile.descriptors : J!F.eps = {ep}
  BY BeforeFrame, FrameInHand DEF J!HandleSimpleDescRsp
<1>3. (CHOOSE e \in J!F.eps : TRUE) = ep
  BY <1>2
<1> DEFINE d == profile.descriptors[ep]
<1>4. /\ J!Takes(J!ModelRsp(a)) \/ J!Takes(<<>>)
      /\ J!Register(J!Classify(d, ep), a)
      /\ cache' = cache /\ asked' = asked
  BY <1>1, <1>3 DEF J!HandleSimpleDescRsp
<1>5. J!Classify(d, ep) # None => J!Classify(d, ep) \in J!Candidates(profile)
  BY DEF J!Candidates, J!Described
<1> HIDE DEF d
<1>6. /\ SoundButtons(buttons') /\ inbox' \in Seq(Messages)
      /\ known' \in [J!Others -> SUBSET Joiners]
      /\ \A o \in J!Others : known'[o] # {} => o \in J!Candidates(profile)
      /\ buttons' # <<>> => "onics" \in J!Candidates(profile)
  BY <1>4, <1>5, ModuleRegisterKeeps
<1>7. air' \in Seq(Frames(profile))
  BY <1>4, BeforeFrame, FrameInHand, AnswersAreOfProfile, TakenFrame
<1>8. QED
  BY <1>4, <1>6, <1>7, BeforeFrame DEF AfterFrame

\* A message of the device.
LEMMA MessageHandled ==
  ASSUME JoinIInv, air # <<>>, J!HandleAf
  PROVE  AfterFrame
<1>1. PICK a \in Joiners : a = J!F.addr
  BY BeforeFrame, FrameInHand
<1>2. cache' = cache
  BY DEF J!HandleAf
<1>3. ASSUME J!Takes(<<>>) \/ J!Takes(J!ActiveEpRsp(a))
      PROVE  air' \in Seq(Frames(profile))
  BY <1>3, BeforeFrame, FrameInHand, AnswersAreOfProfile, TakenFrame
<1>4. ASSUME NEW m, m # None => m \in J!Candidates(profile), J!Register(m, a),
             asked' \in [Joiners -> {"never", "recently", "before"}],
             J!Takes(<<>>) \/ J!Takes(J!ActiveEpRsp(a))
      PROVE  AfterFrame
  <2>1. /\ SoundButtons(buttons') /\ inbox' \in Seq(Messages)
        /\ known' \in [J!Others -> SUBSET Joiners]
        /\ \A o \in J!Others : known'[o] # {} => o \in J!Candidates(profile)
        /\ buttons' # <<>> => "onics" \in J!Candidates(profile)
    BY <1>4, ModuleRegisterKeeps
  <2>2. QED
    BY <1>2, <1>3, <1>4, <2>1, BeforeFrame DEF AfterFrame
<1>5. ASSUME J!Post(J!F.kind, a) \/ inbox' = inbox, J!Takes(<<>>),
             buttons' = buttons, asked' = asked, known' = known
      PROVE  AfterFrame
  <2>1. inbox' \in Seq(Messages)
    BY <1>5, BeforeFrame, FrameInHand, PostedMessage
  <2>2. QED
    BY <1>2, <1>3, <1>5, <2>1, BeforeFrame DEF AfterFrame
<1>6. CASE J!Owners(a) # {}
  BY <1>1, <1>5, <1>6 DEF J!HandleAf
<1>7. CASE J!Owners(a) = {} /\ J!F.kind = "model" /\ profile.model \in {"contact", "tvoc"}
  <2>1. J!Register(profile.model, a) /\ J!Takes(<<>>) /\ asked' = asked
    BY <1>1, <1>7 DEF J!HandleAf
  <2>2. profile.model # None => profile.model \in J!Candidates(profile)
    BY <1>7 DEF J!Candidates
  <2>3. QED
    BY <1>4, <2>1, <2>2, BeforeFrame
<1>8. CASE /\ J!Owners(a) = {} /\ ~(J!F.kind = "model" /\ profile.model \in {"contact", "tvoc"})
           /\ J!ShouldQuery(a)
  <2> DEFINE m == IF profile.app = 43 THEN "siren" ELSE None
  <2>1. /\ J!NoteQuery(a) /\ J!Register(m, a)
        /\ J!Takes(<<>>) \/ J!Takes(J!ActiveEpRsp(a))
    BY <1>1, <1>8 DEF J!HandleAf
  <2>2. m # None => m \in J!Candidates(profile)
    BY DEF J!Candidates
  <2> HIDE DEF m
  <2>3. asked' \in [Joiners -> {"never", "recently", "before"}]
    BY <2>1, BeforeFrame, TablesKept
  <2>4. QED
    BY <1>4, <2>1, <2>2, <2>3
<1>9. CASE /\ J!Owners(a) = {} /\ ~(J!F.kind = "model" /\ profile.model \in {"contact", "tvoc"})
           /\ ~J!ShouldQuery(a)
  BY <1>1, <1>5, <1>9 DEF J!HandleAf
<1>10. QED
  BY <1>6, <1>7, <1>8, <1>9

\* Whatever the frame.
LEMMA FrameHandled ==
  ASSUME JoinIInv, J!HandleFrame
  PROVE  JoinIInv'
<1>1. AfterFrame
  BY AnnounceHandled, IeeeRspHandled, EndpointsHandled, DescriptorHandled, MessageHandled
  DEF J!HandleFrame
<1>2. UNCHANGED <<job, device, profile, mishaps>>
  BY DEF J!HandleFrame, J!deviceVars
<1>3. ProgramTypes'
  BY <1>1, <1>2, BeforeFrame DEF AfterFrame, ProgramTypes, Joiners, J!ShortAddrs
<1>4. NetworkTypes'
  BY <1>1, <1>2, BeforeFrame DEF AfterFrame, NetworkTypes
<1>5. J!OwnersAreCandidates'
  BY <1>1, <1>2 DEF AfterFrame, J!OwnersAreCandidates
<1>6. QED
  BY <1>1, <1>3, <1>4, <1>5 DEF AfterFrame, JoinIInv, SoundButtons
-----------------------------------------------------------------------------
(* The worker of the panic buttons. *)

\* What the worker leaves alone is as it was.
LEMMA WorkerFrame ==
  ASSUME JoinIInv, UNCHANGED <<cache, asked, known, profile>>,
         SoundButtons(buttons'), buttons' # <<>> => buttons # <<>>,
         inbox' \in Seq(Messages),
         job' \in [addr : {None} \cup Joiners, todo : Seq(Commands)],
         job'.todo # <<>> => job'.addr \in Joiners,
         mishaps' \in 0 .. MaxMishaps, device' \in DeviceStates(mishaps'),
         device'.resets => device'.addr \in Joiners,
         air' \in Seq(Frames(profile))
  PROVE  JoinIInv'
<1>1. ProgramTypes'
  BY BeforeFrame DEF ProgramTypes, Joiners, J!ShortAddrs
<1>2. NetworkTypes'
  BY BeforeFrame DEF NetworkTypes
<1>3. J!OwnersAreCandidates'
  BY DEF JoinIInv, J!OwnersAreCandidates
<1>4. QED
  BY <1>1, <1>2, <1>3 DEF JoinIInv, SoundButtons

\* What holds of the worker's job and of the network.
LEMMA BeforeWork ==
  ASSUME JoinIInv
  PROVE  /\ job \in [addr : {None} \cup Joiners, todo : Seq(Commands)]
         /\ job.todo # <<>> => job.addr \in Joiners
         /\ mishaps \in 0 .. MaxMishaps /\ device \in DeviceStates(mishaps)
         /\ device.resets => device.addr \in Joiners
         /\ air \in Seq(Frames(profile)) /\ profile \in Profiles
  BY DEF JoinIInv, ProgramTypes, NetworkTypes

\* A message that is taken, and the list of commands that it leads to.
LEMMA TakenMessage ==
  ASSUME JoinIInv, NEW k, J!Take(k)
  PROVE  /\ J!Addr \in Joiners /\ inbox' \in Seq(Messages)
         /\ \A todo \in Seq(Commands) :
              J!Do(todo) => /\ job' \in [addr : {None} \cup Joiners, todo : Seq(Commands)]
                            /\ job'.addr \in Joiners
<1>1. inbox # <<>> /\ inbox' = Tail(inbox) /\ inbox \in Seq(Messages)
  BY BeforeFrame DEF J!Take
<1>2. Head(inbox) \in Messages /\ inbox' \in Seq(Messages)
  BY <1>1, HeadAndRest
<1>3. J!Addr \in Joiners
  BY <1>2 DEF J!Addr, Messages
<1>4. QED
  BY <1>2, <1>3 DEF J!Do

\* The commands of the worker.
LEMMA CommandLists ==
  /\ <<"bindOnOff", "activate">> \in Seq(Commands)
  /\ <<"bindOnOff", "bindZone", "writeCie">> \in Seq(Commands)
  /\ <<"bindZone", "writeCie">> \in Seq(Commands)
  /\ <<"enroll">> \in Seq(Commands)
  BY DEF Commands

\* OnicsButton_Setup, up to its first command.
LEMMA ButtonSetupKeeps ==
  ASSUME JoinIInv, J!Setup, UNCHANGED <<asked, known, profile>>
  PROVE  JoinIInv'
<1>1. PICK a \in Joiners : a = J!Addr /\ inbox' \in Seq(Messages)
  BY TakenMessage DEF J!Setup
<1> DEFINE i == J!IndexOf(a)
           b == J!Learnt(buttons[i])
<1>2. UNCHANGED <<cache, device, mishaps, lost, press>>
  BY DEF J!Setup
<1>3. CASE ~J!IsKnown(a) \/ b.configured
  <2>1. UNCHANGED <<buttons, job, air>>
    BY <1>1, <1>3 DEF J!Setup
  <2>2. QED
    BY <1>1, <1>2, <2>1, BeforeFrame, BeforeWork, WorkerFrame
<1>4. CASE J!IsKnown(a) /\ ~b.configured /\ b.ieee = None
  <2>1. UNCHANGED <<buttons, job>> /\ air' = air \o J!IeeeRsp(a)
    BY <1>1, <1>4 DEF J!Setup
  <2>2. air' \in Seq(Frames(profile))
    BY <2>1, BeforeFrame, BeforeWork, AnswersAreOfProfile
  <2>3. QED
    BY <1>1, <1>2, <2>1, <2>2, BeforeFrame, BeforeWork, WorkerFrame
<1>5. CASE J!IsKnown(a) /\ ~b.configured /\ b.ieee # None
  <2> DEFINE c == [b EXCEPT !.configured = TRUE]
  <2>1. /\ buttons' = [buttons EXCEPT ![i] = c]
        /\ J!Do(<<"bindOnOff", "activate">>) /\ air' = air
    BY <1>1, <1>5 DEF J!Setup
  <2>2. i \in DOMAIN buttons
    BY <1>5, BeforeFrame, ButtonIsFound
  <2>3. buttons[i] \in ButtonEntries /\ (buttons[i].configured => buttons[i].ieee # None)
    BY <2>2, BeforeFrame DEF SoundButtons
  <2>4. b \in ButtonEntries /\ b.addr = buttons[i].addr
    BY <2>3, BeforeFrame, LearntIsSound
  <2> HIDE DEF i, b
  <2>5. PICK t \in BOOLEAN : c = [b EXCEPT !.configured = t]
    OBVIOUS
  <2>6. c \in ButtonEntries /\ c.addr = buttons[i].addr /\ c.ieee # None
    BY <1>5, <2>4, <2>5 DEF ButtonEntries
  <2> HIDE DEF c
  <2>7. SoundButtons(buttons') /\ buttons # <<>>
    BY <2>1, <2>2, <2>6, BeforeFrame, ChangedButton
  <2>8. /\ job' \in [addr : {None} \cup Joiners, todo : Seq(Commands)]
        /\ job'.addr \in Joiners
    BY <2>1, TakenMessage, CommandLists DEF J!Setup
  <2>9. QED
    BY <1>1, <1>2, <2>1, <2>7, <2>8, BeforeFrame, BeforeWork, WorkerFrame
<1>6. QED
  BY <1>3, <1>4, <1>5

\* The other messages: none disturbs what an entry says of its address.
LEMMA MessageTakenKeeps ==
  ASSUME JoinIInv, UNCHANGED <<asked, known, profile>>,
         J!Rebind \/ J!Activated \/ J!Enroll \/ J!IgnoreAf
  PROVE  JoinIInv'
<1>1. PICK k : J!Take(k)
  BY DEF J!Rebind, J!Activated, J!Enroll, J!IgnoreAf
<1>2. inbox' \in Seq(Messages)
  BY <1>1, TakenMessage
<1>3. UNCHANGED <<cache, buttons, device, air, mishaps>>
  BY DEF J!Rebind, J!Activated, J!Enroll, J!IgnoreAf
<1>4. job' = job \/ \E todo \in Seq(Commands) : J!Do(todo)
  <2>1. \/ job' = job
        \/ J!Do(<<"bindOnOff", "bindZone", "writeCie">>)
        \/ J!Do(<<"bindZone", "writeCie">>)
        \/ J!Do(<<"enroll">>)
    BY DEF J!Rebind, J!Activated, J!Enroll, J!IgnoreAf
  <2>2. QED
    BY <2>1, CommandLists
<1>5. /\ job' \in [addr : {None} \cup Joiners, todo : Seq(Commands)]
      /\ job'.todo # <<>> => job'.addr \in Joiners
  BY <1>1, <1>4, BeforeWork, TakenMessage
<1>6. QED
  BY <1>2, <1>3, <1>5, BeforeFrame, BeforeWork, WorkerFrame

\* A press or release.
LEMMA StatusKeeps ==
  ASSUME JoinIInv, UNCHANGED <<asked, known, profile>>, NEW k, J!HandleStatus(k)
  PROVE  JoinIInv'
<1>1. PICK a \in Joiners : a = J!Addr /\ inbox' \in Seq(Messages)
  BY TakenMessage DEF J!HandleStatus
<1>2. UNCHANGED <<cache, job, device, air, mishaps>>
  BY DEF J!HandleStatus
<1>3. PICK alarm \in BOOLEAN : alarm = (k = "panic")
  OBVIOUS
<1>4. \/ buttons' = buttons
      \/ J!IsKnown(a) /\ buttons' = [buttons EXCEPT ![J!IndexOf(a)].isPanic = alarm]
  BY <1>1, <1>3 DEF J!HandleStatus
<1>5. SoundButtons(buttons') /\ (buttons' # <<>> => buttons # <<>>)
  <2>1. CASE buttons' = buttons
    BY <2>1, BeforeFrame
  <2>2. CASE J!IsKnown(a) /\ buttons' = [buttons EXCEPT ![J!IndexOf(a)].isPanic = alarm]
    <3>1. PICK i \in DOMAIN buttons : i = J!IndexOf(a)
      BY <2>2, BeforeFrame, ButtonIsFound
    <3>2. buttons[i] \in ButtonEntries /\ (buttons[i].configured => buttons[i].ieee # None)
      BY BeforeFrame DEF SoundButtons
    <3>3. PICK b : b = [buttons[i] EXCEPT !.isPanic = alarm]
      OBVIOUS
    <3>4. /\ b \in ButtonEntries /\ b.addr = buttons[i].addr
          /\ b.configured = buttons[i].configured /\ b.ieee = buttons[i].ieee
      BY <3>2, <3>3 DEF ButtonEntries
    <3>5. buttons' = [buttons EXCEPT ![i] = b]
      BY <2>2, <3>1, <3>3
    <3>6. QED
      BY <3>2, <3>4, <3>5, BeforeFrame, ChangedButton
  <2>3. QED
    BY <1>4, <2>1, <2>2
<1>6. QED
  BY <1>1, <1>2, <1>5, BeforeFrame, BeforeWork, WorkerFrame

\* A command reaches the button, another device, or nobody.
LEMMA CommandKeeps ==
  ASSUME JoinIInv, UNCHANGED <<asked, known, profile>>, J!Command
  PROVE  JoinIInv'
<1>1. job.todo # <<>> /\ job.todo \in Seq(Commands) /\ job.addr \in Joiners
  BY BeforeWork DEF J!Command
<1>2. PICK c \in Commands : c = Head(job.todo) /\ Tail(job.todo) \in Seq(Commands)
  BY <1>1, HeadAndRest
<1>3. job' = [job EXCEPT !.todo = Tail(@)] /\ UNCHANGED <<cache, buttons, inbox, press>>
  BY DEF J!Command
<1>4. /\ job' \in [addr : {None} \cup Joiners, todo : Seq(Commands)]
      /\ job'.todo # <<>> => job'.addr \in Joiners
  BY <1>1, <1>2, <1>3, BeforeWork
<1>5. ASSUME mishaps' \in 0 .. MaxMishaps, device' \in DeviceStates(mishaps'),
             device'.resets => device'.addr \in Joiners, air' \in Seq(Frames(profile))
      PROVE  JoinIInv'
  BY <1>3, <1>4, <1>5, BeforeFrame, WorkerFrame
<1>6. CASE /\ device.addr = job.addr
           /\ device' = J!Effect(c) /\ air' = air \o J!Answer(c)
           /\ UNCHANGED <<mishaps, lost>>
  <2>1. /\ device \in DeviceStates(mishaps) /\ device.addr \in Joiners
        /\ {device.active, device.cie} \subseteq BOOLEAN
        /\ device.bound \subseteq {"onOff", "zone"}
    BY <1>1, <1>6, BeforeWork DEF DeviceStates
  <2>2. device' \in DeviceStates(mishaps) /\ device'.addr = device.addr
    <3>1. CASE c = "bindOnOff"
      BY <1>6, <2>1, <3>1 DEF J!Effect, DeviceStates
    <3>2. CASE c = "activate"
      BY <1>6, <2>1, <3>2 DEF J!Effect, DeviceStates
    <3>3. CASE c = "bindZone"
      BY <1>6, <2>1, <3>3 DEF J!Effect, DeviceStates
    <3>4. CASE c = "writeCie"
      BY <1>6, <2>1, <3>4 DEF J!Effect, DeviceStates
    <3>5. CASE c = "enroll"
      BY <1>6, <2>1, <3>5 DEF J!Effect, DeviceStates
    <3>6. QED
      BY <3>1, <3>2, <3>3, <3>4, <3>5 DEF Commands
  <2>3. J!Answer(c) \in Seq(Frames(profile))
    <3>1. {"writeRsp", "enrollReq"} \subseteq FrameKinds \ {"simpleDescRsp"}
      BY DEF FrameKinds
    <3>2. {} \in SUBSET DOMAIN profile.descriptors
      OBVIOUS
    <3>3. \A k \in {"writeRsp", "enrollReq"} : J!Frame(k, job.addr, {}) \in Frames(profile)
      BY <1>1, <3>1, <3>2, BeforeFrame, FrameIsOfProfile
    <3>4. \/ J!Answer(c) = <<>>
          \/ J!Answer(c) = <<J!Frame("writeRsp", job.addr, {})>>
          \/ J!Answer(c) = <<J!Frame("enrollReq", job.addr, {})>>
      BY DEF J!Answer
    <3>5. J!Answer(c) = <<>> \/ \E f \in Frames(profile) : J!Answer(c) = <<f>>
      BY <3>3, <3>4, Zenon
    <3>6. CASE J!Answer(c) = <<>>
      BY <3>6
    <3>7. ASSUME NEW f \in Frames(profile), J!Answer(c) = <<f>>
          PROVE  J!Answer(c) \in Seq(Frames(profile))
      BY <3>7
    <3>8. QED
      BY <3>5, <3>6, <3>7
  <2>4. air' \in Seq(Frames(profile))
    BY <1>6, <2>3, BeforeWork
  <2>5. QED
    BY <1>5, <1>6, <2>1, <2>2, <2>4, BeforeWork
<1>7. CASE device.addr # job.addr /\ UNCHANGED <<device, air, mishaps, lost>>
  BY <1>5, <1>7, BeforeWork
<1>8. CASE /\ device.addr = job.addr /\ mishaps < MaxMishaps
           /\ mishaps' = mishaps + 1 /\ lost' = TRUE /\ UNCHANGED <<device, air>>
  <2>1. mishaps' \in 0 .. MaxMishaps /\ mishaps \in Nat
    BY <1>8, BeforeWork, JoinConstants
  <2>2. 1 .. mishaps + 1 \subseteq 1 .. mishaps' + 1
    BY <1>8, <2>1
  <2>3. device' \in DeviceStates(mishaps')
    BY <1>8, <2>2, BeforeWork DEF DeviceStates
  <2>4. QED
    BY <1>5, <1>8, <2>1, <2>3, BeforeWork
<1>9. QED
  BY <1>2, <1>6, <1>7, <1>8 DEF J!Command
-----------------------------------------------------------------------------
(* The device and the network. *)

\* What the device and the network leave alone.
LEMMA OutsideFrame ==
  ASSUME JoinIInv,
         UNCHANGED <<cache, asked, known, profile, buttons, inbox, job>>,
         mishaps' \in 0 .. MaxMishaps, device' \in DeviceStates(mishaps'),
         device'.resets => device'.addr \in Joiners,
         air' \in Seq(Frames(profile))
  PROVE  JoinIInv'
  BY BeforeFrame, BeforeWork, WorkerFrame

\* A frame that the device sends by itself.
LEMMA SentFrames ==
  ASSUME JoinIInv, NEW a \in Joiners
  PROVE  /\ J!Announced(a) => air' \in Seq(Frames(profile))
         /\ \A k \in {"report", "panic", "clear"} :
              air' = Append(air, J!Frame(k, a, {})) => air' \in Seq(Frames(profile))
<1>1. {"annce", "annceCb", "report", "panic", "clear"} \subseteq FrameKinds \ {"simpleDescRsp"}
  BY DEF FrameKinds
<1>2. {} \in SUBSET DOMAIN profile.descriptors
  OBVIOUS
<1>3. \A k \in {"annce", "annceCb", "report", "panic", "clear"} :
        J!Frame(k, a, {}) \in Frames(profile)
  BY <1>1, <1>2, BeforeFrame, FrameIsOfProfile
<1>4. J!Announced(a) => air' \in Seq(Frames(profile))
  <2>1. PICK f \in Frames(profile), g \in Frames(profile) :
          f = J!Frame("annce", a, {}) /\ g = J!Frame("annceCb", a, {})
    BY <1>3
  <2>2. J!Announced(a) => air' = air \o <<f, g>>
    BY <2>1 DEF J!Announced
  <2>3. <<f, g>> \in Seq(Frames(profile)) /\ air \in Seq(Frames(profile))
    BY BeforeWork
  <2>4. air \o <<f, g>> \in Seq(Frames(profile))
    BY <2>3, ConcatProperties
  <2>5. QED
    BY <2>2, <2>4
<1>5. ASSUME NEW k \in {"report", "panic", "clear"}, air' = Append(air, J!Frame(k, a, {}))
      PROVE  air' \in Seq(Frames(profile))
  BY <1>3, <1>5, BeforeWork
<1>6. QED
  BY <1>4, <1>5

\* The device joins, moves and resets.
LEMMA DeviceMovesKeep ==
  ASSUME JoinIInv, J!Join \/ J!Move \/ J!Reset
  PROVE  JoinIInv'
<1>1. /\ mishaps \in Nat /\ mishaps <= MaxMishaps /\ MaxMishaps \in Nat
      /\ Joiners = 1 .. MaxMishaps + 1 /\ device \in DeviceStates(mishaps)
      /\ device.addr \in {None} \cup 1 .. mishaps + 1
      /\ mishaps \in 0 .. MaxMishaps
  BY BeforeWork, JoinConstants DEF DeviceStates
<1>2. CASE J!Join
  <2>1. /\ device' = [device EXCEPT !.addr = 1] /\ J!Announced(1)
        /\ UNCHANGED <<cache, buttons, inbox, job, mishaps, asked, known, profile>>
    BY <1>2 DEF J!Join
  <2>2. 1 \in Joiners /\ 1 \in 1 .. mishaps + 1
    BY <1>1
  <2>3. device' \in DeviceStates(mishaps') /\ device'.addr \in Joiners
    BY <1>1, <2>1, <2>2 DEF DeviceStates
  <2>4. air' \in Seq(Frames(profile))
    BY <2>1, <2>2, SentFrames
  <2>5. QED
    BY <1>1, <2>1, <2>3, <2>4, OutsideFrame
<1>3. CASE J!Move
  <2>1. /\ device.addr # None /\ mishaps < MaxMishaps /\ mishaps' = mishaps + 1
        /\ device' = [device EXCEPT !.addr = @ + 1] /\ J!Announced(device.addr + 1)
        /\ UNCHANGED <<cache, buttons, inbox, job, asked, known, profile>>
    BY <1>3 DEF J!Move
  <2>2. PICK a : a = device.addr + 1
    OBVIOUS
  <2>3. a \in 1 .. mishaps' + 1 /\ a \in Joiners /\ mishaps' \in 0 .. MaxMishaps
    BY <1>1, <2>1, <2>2
  <2>4. device' = [device EXCEPT !.addr = a] /\ J!Announced(a)
    BY <2>1, <2>2
  <2>5. device' \in DeviceStates(mishaps') /\ device'.addr \in Joiners
    BY <1>1, <2>3, <2>4 DEF DeviceStates
  <2>6. air' \in Seq(Frames(profile))
    BY <2>3, <2>4, SentFrames
  <2>7. QED
    BY <2>1, <2>3, <2>5, <2>6, OutsideFrame
<1>4. CASE J!Reset
  <2>1. /\ device.resets /\ J!Announced(device.addr)
        /\ device' = [device EXCEPT !.resets = FALSE, !.bound = {}, !.cie = FALSE,
                                    !.enrolled = FALSE]
        /\ UNCHANGED <<cache, buttons, inbox, job, mishaps, asked, known, profile>>
    BY <1>4 DEF J!Reset
  <2>2. device.addr \in Joiners
    BY <2>1, BeforeWork
  <2>3. PICK no \in BOOLEAN :
          device' = [device EXCEPT !.resets = no, !.bound = {}, !.cie = no, !.enrolled = no]
    BY <2>1
  <2>4. device' \in DeviceStates(mishaps') /\ device'.addr \in Joiners
    BY <1>1, <2>1, <2>2, <2>3 DEF DeviceStates
  <2>5. air' \in Seq(Frames(profile))
    BY <2>1, <2>2, SentFrames
  <2>6. QED
    BY <1>1, <2>1, <2>4, <2>5, OutsideFrame
<1>5. QED
  BY <1>2, <1>3, <1>4

\* It reports, and the panic button is pressed and released.
LEMMA DeviceSendsKeeps ==
  ASSUME JoinIInv, J!Report \/ J!Press \/ J!Release
  PROVE  JoinIInv'
<1>1. PICK k \in {"report", "panic", "clear"} : J!Send(k)
  BY DEF J!Report, J!Press, J!Release
<1>2. /\ device.addr # None /\ air' = Append(air, J!Frame(k, device.addr, {}))
      /\ UNCHANGED <<cache, buttons, inbox, job, mishaps, lost, asked, known, profile>>
  BY <1>1 DEF J!Send
<1>3. /\ mishaps \in 0 .. MaxMishaps /\ device \in DeviceStates(mishaps)
      /\ device.resets => device.addr \in Joiners
  BY BeforeWork
<1>4. device.addr \in Joiners
  <2>1. device.addr \in 1 .. mishaps + 1
    BY <1>2, <1>3 DEF DeviceStates
  <2>2. QED
    BY <1>3, <2>1, JoinConstants
<1>5. air' \in Seq(Frames(profile))
  BY <1>2, <1>4, SentFrames
<1>6. PICK on \in BOOLEAN : device' = device \/ device' = [device EXCEPT !.pressed = on]
  BY DEF J!Report, J!Press, J!Release
<1>7. device' \in DeviceStates(mishaps') /\ device'.addr = device.addr
  BY <1>2, <1>3, <1>6 DEF DeviceStates
<1>8. QED
  BY <1>2, <1>3, <1>4, <1>5, <1>7, OutsideFrame

\* The network loses a frame, or brings it late.
LEMMA NetworkKeeps ==
  ASSUME JoinIInv, NEW i \in DOMAIN air, J!Delay(i) \/ J!Lose(i)
  PROVE  JoinIInv'
<1> DEFINE rest == J!RemoveAt(air, i)
<1>1. /\ mishaps < MaxMishaps /\ mishaps' = mishaps + 1
      /\ air' = Append(rest, air[i]) \/ air' = rest
      /\ UNCHANGED <<cache, buttons, inbox, job, device, profile, asked, known>>
  BY DEF J!Delay, J!Lose
<1>2. air \in Seq(Frames(profile)) /\ air[i] \in Frames(profile)
  BY BeforeWork
<1>3. rest \in Seq(Frames(profile))
  <2>1. PICK n \in Nat : n = Len(air) /\ i \in 1 .. n
    BY <1>2
  <2>2. SubSeq(air, 1, i - 1) \in Seq(Frames(profile))
    BY <1>2, <2>1, SubSeqProperties
  <2>3. SubSeq(air, i + 1, Len(air)) \in Seq(Frames(profile))
    BY <1>2, <2>1, SubSeqProperties
  <2>4. QED
    BY <2>2, <2>3 DEF J!RemoveAt
<1> HIDE DEF rest
<1>4. air' \in Seq(Frames(profile))
  BY <1>1, <1>2, <1>3
<1>5. /\ mishaps' \in 0 .. MaxMishaps
      /\ 1 .. mishaps + 1 \subseteq 1 .. mishaps' + 1
  BY <1>1, BeforeWork, JoinConstants
<1>6. /\ device' \in DeviceStates(mishaps')
      /\ device'.resets => device'.addr \in Joiners
  BY <1>1, <1>5, BeforeWork DEF DeviceStates
<1>7. QED
  BY <1>1, <1>4, <1>5, <1>6, OutsideFrame

-----------------------------------------------------------------------------
\* It holds before the device joins, and when it is already in the network.
LEMMA JoinInit ==
  ASSUME J!Init
  PROVE  JoinIInv
<1>1. ProgramTypes
  BY DEF J!Init, J!Idle, ProgramTypes, Joiners
<1>2. SoundButtons(buttons)
  <2>1. buttons = <<>>
    BY DEF J!Init
  <2>2. <<>> \in Seq(ButtonEntries) /\ Len(<<>>) = 0 /\ DOMAIN <<>> = {}
    BY EmptySeq
  <2>3. 0 <= MaxButtons
    BY JoinConstants
  <2>4. QED
    BY <2>1, <2>2, <2>3 DEF SoundButtons
<1>3. profile \in Profiles /\ mishaps = 0 /\ mishaps \in 0 .. MaxMishaps
  BY JoinConstants DEF J!Init
<1>4. NetworkTypes
  <2>1. PICK no \in BOOLEAN : no = FALSE
    OBVIOUS
  <2>2. \A a \in {None, 1} : J!NewDevice(a) =
          [addr |-> a, active |-> no, bound |-> {}, cie |-> no, enrolled |-> no,
           resets |-> no, pressed |-> no]
    BY <2>1 DEF J!NewDevice
  <2>3. \A a \in {None, 1} : J!NewDevice(a) \in DeviceStates(mishaps) /\ ~J!NewDevice(a).resets
    BY <1>3, <2>1, <2>2 DEF DeviceStates
  <2>4. CASE device = J!NewDevice(None) /\ air = <<>>
    BY <1>3, <2>3, <2>4 DEF NetworkTypes
  <2>5. CASE device = J!NewDevice(1) /\ air = <<J!Frame("matchDescRsp", 1, {profile.app})>>
    <3>1. profile.app \in DOMAIN profile.descriptors
      BY <1>3, JoiningAssumption DEF J!ProfilesAreDevices
    <3>2. PICK f : f = J!Frame("matchDescRsp", 1, {profile.app})
      OBVIOUS
    <3>3. f \in Frames(profile)
      BY <3>1, <3>2, JoinConstants DEF J!Frame, Frames, FrameKinds
    <3>4. air \in Seq(Frames(profile))
      BY <2>5, <3>2, <3>3
    <3>5. QED
      BY <1>3, <2>3, <2>5, <3>4 DEF NetworkTypes
  <2>6. QED
    BY <2>4, <2>5 DEF J!Init
<1>5. J!OwnersAreCandidates
  BY DEF J!Init, J!OwnersAreCandidates
<1>6. QED
  BY <1>1, <1>2, <1>4, <1>5 DEF JoinIInv

\* Every step of the program, the device and the network keeps it.
LEMMA JoinStep ==
  ASSUME JoinIInv, J!Next \/ UNCHANGED joinVars
  PROVE  JoinIInv'
<1>1. CASE J!HandleFrame
  BY <1>1, FrameHandled
<1>2. CASE J!WorkerStep
  BY <1>2, ButtonSetupKeeps, MessageTakenKeeps, StatusKeeps, CommandKeeps
  DEF J!WorkerStep, J!Worker
<1>3. ASSUME NEW a \in J!ShortAddrs, J!Cool(a)
      PROVE  JoinIInv'
  <2>1. /\ asked' = [asked EXCEPT ![a] = "before"] /\ UNCHANGED <<known, profile>>
        /\ UNCHANGED <<cache, buttons, inbox, job, device, air, mishaps>>
    BY <1>3 DEF J!Cool, J!workerVars
  <2>2. ProgramTypes'
    BY <2>1, BeforeFrame DEF ProgramTypes, Joiners, J!ShortAddrs
  <2>3. NetworkTypes' /\ J!OwnersAreCandidates'
    BY <2>1, BeforeFrame DEF NetworkTypes, J!OwnersAreCandidates
  <2>4. QED
    BY <2>1, <2>2, <2>3, BeforeFrame DEF JoinIInv, SoundButtons
<1>4. CASE J!Outside
  BY <1>4, DeviceMovesKeep, DeviceSendsKeeps, NetworkKeeps DEF J!Outside
<1>5. CASE UNCHANGED joinVars
  <2>1. /\ UNCHANGED <<cache, asked, known, profile, buttons, inbox, job>>
        /\ UNCHANGED <<mishaps, device, air>>
    BY <1>5 DEF joinVars
  <2>2. QED
    BY <2>1, BeforeWork, OutsideFrame
<1>6. QED
  BY <1>1, <1>2, <1>3, <1>4, <1>5 DEF J!Next

\* A kind of device stays what it is.
LEMMA ProfileStays ==
  ASSUME J!Next \/ UNCHANGED joinVars
  PROVE  profile' = profile
<1>1. CASE J!HandleFrame \/ J!WorkerStep \/ \E a \in J!ShortAddrs : J!Cool(a)
  BY <1>1 DEF J!HandleFrame, J!deviceVars, J!WorkerStep, J!Cool
<1>2. CASE J!Outside
  BY <1>2 DEF J!Outside, J!Join, J!Move, J!Reset, J!Report, J!Press, J!Release, J!Send,
              J!Delay, J!Lose
<1>3. CASE UNCHANGED joinVars
  BY <1>3 DEF joinVars
<1>4. QED
  BY <1>1, <1>2, <1>3 DEF J!Next

\* A registry other than that of the panic buttons gets an address that nobody has, or
\* as a descriptor says.
LEMMA KnownGrows ==
  ASSUME JoinIInv, J!Next \/ UNCHANGED joinVars,
         NEW a \in Joiners, J!Owners(a) # {}, NEW m \in J!Others, a \in known'[m]
  PROVE  a \in known[m] \/ m \in J!Described(profile)
<1>1. CASE known' = known
  BY <1>1
<1>2. CASE J!HandleFrame /\ J!HandleSimpleDescRsp
  <2>1. PICK ep \in DOMAIN profile.descriptors : J!F.eps = {ep}
    BY <1>2, BeforeFrame, FrameInHand DEF J!HandleFrame, J!HandleSimpleDescRsp
  <2>2. (CHOOSE e \in J!F.eps : TRUE) = ep
    BY <2>1
  <2> DEFINE c == J!Classify(profile.descriptors[ep], ep)
  <2>3. J!Register(c, J!F.addr)
    BY <1>2, <2>2 DEF J!HandleSimpleDescRsp
  <2>4. c # None => c \in J!Described(profile)
    BY DEF J!Described
  <2> HIDE DEF c
  <2>5. known' = known \/ (c # None /\ known' = [known EXCEPT ![c] = @ \cup {J!F.addr}])
    BY <2>3 DEF J!Register
  <2>6. QED
    BY <2>4, <2>5, BeforeFrame
<1>3. CASE J!HandleFrame /\ J!HandleAf
  <2>1. J!Owners(J!F.addr) # {} => known' = known
    BY <1>3 DEF J!HandleAf
  <2>2. known' = known \/ \E c : known' = [known EXCEPT ![c] = @ \cup {J!F.addr}]
    BY <1>3 DEF J!HandleAf, J!Register
  <2>3. QED
    BY <2>1, <2>2, BeforeFrame
<1>4. known' = known \/ (J!HandleFrame /\ (J!HandleSimpleDescRsp \/ J!HandleAf))
  <2>1. CASE J!HandleFrame
    BY <2>1 DEF J!HandleFrame, J!Announce, J!AnnounceCb, J!HandleIeeeRsp, J!HandleActiveEpRsp,
                J!HandleMatchDescRsp
  <2>2. CASE J!WorkerStep \/ \E b \in J!ShortAddrs : J!Cool(b)
    BY <2>2 DEF J!WorkerStep, J!Cool
  <2>3. CASE J!Outside
    BY <2>3 DEF J!Outside, J!Join, J!Move, J!Reset, J!Report, J!Press, J!Release, J!Send,
                J!Delay, J!Lose
  <2>4. CASE UNCHANGED joinVars
    BY <2>4 DEF joinVars
  <2>5. QED
    BY <2>1, <2>2, <2>3, <2>4 DEF J!Next
<1>5. QED
  BY <1>1, <1>2, <1>3, <1>4

\* A second claim is made by a descriptor: nothing else leads to the panic buttons, and
\* the other registries get what nobody has.
LEMMA ClaimsStep ==
  ASSUME JoinIInv, JoinIInv', J!Next \/ UNCHANGED joinVars
  PROVE  J!SecondClaimIsDescribed
<1>1. SUFFICES ASSUME NEW a \in Joiners, J!Owners(a) # {}, NEW i \in DOMAIN J!Modules,
                      J!Knows(J!Modules[i], a)'
               PROVE  J!Knows(J!Modules[i], a) \/ J!Modules[i] \in J!Described(profile)
  BY DEF J!SecondClaimIsDescribed, Joiners
<1>2. CASE J!Modules[i] = "onics"
  <2>1. buttons' # <<>>
    BY <1>1, <1>2 DEF J!Knows, J!IsKnown
  <2>2. "onics" \in J!Candidates(profile)
    BY <2>1, ProfileStays DEF JoinIInv, J!OwnersAreCandidates
  <2>3. "onics" \in J!Described(profile)
    BY <2>2 DEF J!Candidates
  <2>4. QED
    BY <1>2, <2>3
<1>3. CASE J!Modules[i] # "onics"
  <2>1. J!Modules[i] \in J!Others /\ a \in known'[J!Modules[i]]
    BY <1>1, <1>3 DEF J!Knows, J!Others
  <2>2. a \in known[J!Modules[i]] \/ J!Modules[i] \in J!Described(profile)
    BY <1>1, <2>1, KnownGrows
  <2>3. QED
    BY <1>3, <2>2 DEF J!Knows
<1>4. QED
  BY <1>2, <1>3

\* While any device joins, whatever the order of its frames and whichever of them are
\* lost: the modules that have it are those that something learnt of it leads to, a
\* second one only by a descriptor, though two may claim it; and a panic button has one
\* entry for an address, set up only with an IEEE address (main.c:1269-1397, 1407-1494,
\* onics_button.c:359-406).
THEOREM JoinSafety == MCSpec => ClaimsAreFounded
<1>1. MCInit => JoinIInv
  BY JoinInit DEF MCInit
<1>2. JoinIInv /\ [RegistryNext \/ JoiningNext]_allVars => JoinIInv'
  <2> SUFFICES ASSUME JoinIInv, [RegistryNext \/ JoiningNext]_allVars PROVE JoinIInv'
    OBVIOUS
  <2>1. J!Next \/ UNCHANGED joinVars
    BY DEF RegistryNext, JoiningNext, allVars
  <2>2. QED
    BY <2>1, JoinStep
<1>3. JoinIInv => J!JoinInv
  <2> SUFFICES ASSUME JoinIInv PROVE J!JoinInv
    OBVIOUS
  <2>1. J!TypeOK
    <3>1. \A a \in Joiners : cache[a] \in {None, Ieee} /\ asked[a] \in {"never", "recently", "before"}
      BY BeforeFrame
    <3>2. /\ Len(buttons) <= MaxButtons
          /\ \A i \in DOMAIN buttons : buttons[i].addr \in Joiners /\ buttons[i].ieee \in {None, Ieee}
      <4>1. buttons \in Seq(ButtonEntries) /\ Len(buttons) <= MaxButtons
        BY BeforeFrame DEF SoundButtons
      <4>2. \A i \in DOMAIN buttons : buttons[i] \in ButtonEntries
        BY <4>1
      <4>3. QED
        BY <4>1, <4>2 DEF ButtonEntries
    <3>3. \A i \in DOMAIN air : air[i].addr \in Joiners
      <4>1. \A i \in DOMAIN air : air[i] \in Frames(profile)
        BY BeforeWork
      <4>2. QED
        BY <4>1 DEF Frames
    <3>4. QED
      BY <3>1, <3>2, <3>3, BeforeFrame DEF J!TypeOK, Joiners
  <2>2. J!EntriesAgree
    BY BeforeFrame DEF J!EntriesAgree, SoundButtons
  <2>3. QED
    BY <2>1, <2>2 DEF J!JoinInv, JoinIInv
<1>4. JoinIInv /\ JoinIInv' /\ [RegistryNext \/ JoiningNext]_allVars
      => [J!SecondClaimIsDescribed]_(J!vars)
  <2> SUFFICES ASSUME JoinIInv, JoinIInv', [RegistryNext \/ JoiningNext]_allVars
               PROVE  J!SecondClaimIsDescribed
    OBVIOUS
  <2>1. J!Next \/ UNCHANGED joinVars
    BY DEF RegistryNext, JoiningNext, allVars
  <2>2. QED
    BY <2>1, ClaimsStep
<1>5. QED
  BY <1>1, <1>2, <1>3, <1>4, PTL DEF MCSpec, ClaimsAreFounded, J!ClaimsAreFounded

=============================================================================
