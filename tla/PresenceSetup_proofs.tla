------------------------- MODULE PresenceSetup_proofs -------------------------
(***************************************************************************)
(* What holds of the presence sensors for every number of sensors, of      *)
(* addresses and of slots, and for any schedule.                           *)
(***************************************************************************)
EXTENDS PresenceSetup, SequenceTheorems, FiniteSetTheorems, WellFoundedInduction, TLAPS

-----------------------------------------------------------------------------
(* Loops over an array. *)

\* A set of natural numbers has a smallest.
LEMMA SmallestExists ==
  ASSUME NEW is \in SUBSET Nat, is # {}
  PROVE  \E i \in is : \A j \in is : i <= j
<1>1. \E i \in is : \A j \in is : ~(<<j, i>> \in OpToRel(<, Nat))
  BY NatLessThanWellFounded, WFMin
<1>2. PICK i \in is : \A j \in is : ~(<<j, i>> \in OpToRel(<, Nat))
  BY <1>1
<1>3. ASSUME NEW j \in is
      PROVE  i <= j
  <2>1. i \in Nat /\ j \in Nat
    OBVIOUS
  <2>2. ~(j < i)
    BY <1>2, <2>1 DEF OpToRel
  <2>3. QED
    BY <2>1, <2>2
<1>4. QED
  BY <1>3

\* A loop that looks for an entry finds the first, or nothing.
LEMMA FirstIsFound ==
  ASSUME NEW is \in SUBSET (Nat \ {0})
  PROVE  /\ FirstOf(is) = 0 <=> is = {}
         /\ FirstOf(is) # 0 => FirstOf(is) \in is /\ \A j \in is : FirstOf(is) <= j
<1>1. is # {} => \E i \in is : \A j \in is : i <= j
  BY SmallestExists
<1>2. QED
  BY <1>1 DEF FirstOf

\* The entries that stay get the places 1, 2, ... in their order.
LEMMA PlacesInOrder ==
  ASSUME NEW n \in Nat, NEW is \in SUBSET (1 .. n)
  PROVE  /\ IsFiniteSet(is) /\ Cardinality(is) \in 0 .. n
         /\ \A i \in is : Place(is, i) \in 1 .. Cardinality(is)
         /\ \A i, j \in is : i < j => Place(is, i) < Place(is, j)
<1> \A i \in is : i \in Nat
  OBVIOUS
<1>1. IsFiniteSet(is) /\ Cardinality(is) \in 0 .. n
  <2>1. IsFiniteSet(1 .. n) /\ Cardinality(1 .. n) = n
    BY FS_Interval
  <2>2. IsFiniteSet(is) /\ Cardinality(is) <= n
    BY <2>1, FS_Subset
  <2>3. Cardinality(is) \in Nat
    BY <2>2, FS_CardinalityType
  <2>4. QED
    BY <2>2, <2>3
<1>2. ASSUME NEW i \in is
      PROVE  /\ IsFiniteSet({j \in is : j <= i}) /\ Place(is, i) \in Nat
             /\ Place(is, i) \in 1 .. Cardinality(is)
  <2>1. {j \in is : j <= i} \in SUBSET is /\ i \in {j \in is : j <= i}
    OBVIOUS
  <2>2. IsFiniteSet({j \in is : j <= i}) /\ Place(is, i) <= Cardinality(is)
    BY <1>1, <2>1, FS_Subset DEF Place
  <2>3. Place(is, i) \in Nat /\ Place(is, i) # 0
    BY <2>1, <2>2, FS_CardinalityType, FS_EmptySet DEF Place
  <2>4. QED
    BY <1>1, <2>2, <2>3
<1>3. ASSUME NEW i \in is, NEW j \in is, i < j
      PROVE  Place(is, i) < Place(is, j)
  <2>1. /\ {k \in is : k <= i} \in SUBSET {k \in is : k <= j}
        /\ j \in {k \in is : k <= j} /\ j \notin {k \in is : k <= i}
    <3>1. i \in Nat /\ j \in Nat
      OBVIOUS
    <3>2. \A k \in is : k \in Nat /\ (k <= i => k <= j)
      BY <1>3, <3>1
    <3>3. j <= j /\ ~(j <= i)
      BY <1>3, <3>1
    <3>4. QED
      BY <3>2, <3>3
  <2>2. Place(is, i) <= Place(is, j) /\ Place(is, i) # Place(is, j)
    BY <1>2, <2>1, FS_Subset DEF Place
  <2>3. Place(is, i) \in Nat /\ Place(is, j) \in Nat
    BY <1>2
  <2>4. QED
    BY <2>2, <2>3
<1>4. QED
  BY <1>1, <1>2, <1>3

\* Each place is taken, by one entry.
LEMMA PlacesTaken ==
  ASSUME NEW n \in Nat, NEW is \in SUBSET (1 .. n)
  PROVE  /\ \A k \in 1 .. Cardinality(is) :
              Entrant(is, k) \in is /\ Place(is, Entrant(is, k)) = k
         /\ \A i \in is : Entrant(is, Place(is, i)) = i
<1> DEFINE m == Cardinality(is)
           f == [i \in is |-> Place(is, i)]
<1>1. f \in Injection(is, 1 .. m)
  <2>1. \A i, j \in is : Place(is, i) = Place(is, j) => i = j
    BY PlacesInOrder
  <2>2. f \in [is -> 1 .. m]
    BY PlacesInOrder
  <2>3. QED
    BY <2>1, <2>2 DEF Injection, IsInjective
<1>2. IsFiniteSet(1 .. m) /\ Cardinality(1 .. m) = m
  <2>1. Cardinality(is) \in 0 .. n
    BY PlacesInOrder
  <2>2. m \in Nat
    BY <2>1
  <2>3. QED
    BY <2>2, FS_Interval
<1>3. f \in Surjection(is, 1 .. m)
  BY <1>1, <1>2, FS_Injection
<1>4. \A k \in 1 .. m : \E i \in is : Place(is, i) = k
  BY <1>3 DEF Surjection
<1>5. \A k \in 1 .. m : Entrant(is, k) \in is /\ Place(is, Entrant(is, k)) = k
  BY <1>4 DEF Entrant
<1>6. \A i, j \in is : Place(is, i) = Place(is, j) => i = j
  BY PlacesInOrder
<1>7. QED
  BY <1>5, <1>6, PlacesInOrder

\* What is left of an array: entries that stay, each once.
LEMMA KeepProperties ==
  ASSUME NEW T, NEW r \in Seq(T), NEW is \in SUBSET DOMAIN r
  PROVE  /\ Keep(r, is) \in Seq(T) /\ Len(Keep(r, is)) <= Len(r)
         /\ DOMAIN Keep(r, is) = 1 .. Cardinality(is)
         /\ \A k \in DOMAIN Keep(r, is) :
              Entrant(is, k) \in is /\ Keep(r, is)[k] = r[Entrant(is, k)]
         /\ \A k, l \in DOMAIN Keep(r, is) : k # l => Entrant(is, k) # Entrant(is, l)
         /\ \A i \in is : \E k \in DOMAIN Keep(r, is) : Entrant(is, k) = i
<1>1. Len(r) \in Nat /\ is \in SUBSET (1 .. Len(r)) /\ \A i \in is : r[i] \in T
  OBVIOUS
<1>2. /\ Cardinality(is) \in 0 .. Len(r)
      /\ \A i \in is : Place(is, i) \in 1 .. Cardinality(is)
  BY <1>1, PlacesInOrder
<1>3. \A k \in 1 .. Cardinality(is) : Entrant(is, k) \in is /\ Place(is, Entrant(is, k)) = k
  BY <1>1, PlacesTaken
<1>4. \A i \in is : Entrant(is, Place(is, i)) = i
  BY <1>1, PlacesTaken
<1>5. /\ DOMAIN Keep(r, is) = 1 .. Cardinality(is)
      /\ \A k \in DOMAIN Keep(r, is) : Keep(r, is)[k] = r[Entrant(is, k)]
  BY DEF Keep
<1>6. Keep(r, is) \in Seq(T) /\ Len(Keep(r, is)) = Cardinality(is)
  <2>1. Keep(r, is) \in [1 .. Cardinality(is) -> T]
    BY <1>1, <1>3 DEF Keep
  <2>2. Keep(r, is) \in Seq(T)
    BY <1>2, <2>1, SeqDef
  <2>3. QED
    BY <1>2, <1>5, <2>2
<1>7. QED
  BY <1>2, <1>3, <1>4, <1>5, <1>6

-----------------------------------------------------------------------------
(* The inductive invariant. *)

\* Entries that the table can have when acc are the sensors whose bindings were accepted,
\* and fails setups have failed: they hold the IEEE address of their own sensor.
SoundTable(s, n, acc, fails) ==
  /\ s \in [1 .. Capacity -> Slot] /\ n \in 0 .. Capacity
  /\ \A i \in 1 .. Capacity : s[i].retries <= fails
  /\ \A i \in 1 .. n : s[i].addr \in Addrs /\ s[i].ieee \in {None, OwnerOf[s[i].addr]}
  /\ \A i \in 1 .. n : s[i].configured => OwnerOf[s[i].addr] \in acc

\* The sensor of an entry had its time to settle, or will have had it when the schedule
\* is over: g are the ages of the addresses.
IsRipe(e, g) == IF e.sched = None THEN g[e.addr] >= Settle ELSE e.sched + g[e.addr] >= Settle

\* An address may be in the inbox: its sensor had its time, was posted early (er), or is
\* configured, and its setup will come to nothing.
MayWait(a, s, n, g, er) ==
  \/ g[a] >= Settle
  \/ OwnerOf[a] \in er
  \/ \E i \in 1 .. n : s[i].ieee = OwnerOf[a] /\ s[i].configured

\* While every entry has its IEEE address, a sensor has one entry, which remembers the
\* last setup (r), and no setup is posted that would come too early.
InTime(s, n, r, g, er, box) ==
  /\ \A i \in 1 .. n : s[i].ieee = OwnerOf[s[i].addr]
  /\ \A i, j \in 1 .. n : i # j => s[i].ieee # s[j].ieee
  /\ \A i \in 1 .. n : s[i].last <= r[s[i].ieee]
  /\ \A d \in Sensors : (\A i \in 1 .. n : s[i].ieee # d) => r[d] = Cooldown
  /\ \A i \in 1 .. n : s[i].configured \/ s[i].ieee \in er \/ IsRipe(s[i], g)
  /\ \A k \in DOMAIN box : MayWait(box[k], s, n, g, er)

PresenceIInv ==
  /\ TypeOK /\ SoundTable(slots, num, accepted, failures)
  /\ ~anonymous => InTime(slots, num, rest, age, early, inbox)

LEMMA PresenceConstants ==
  /\ 1 \in Addrs /\ Addrs \subseteq Nat /\ OwnerOf \in [Addrs -> Sensors]
  /\ None \notin Sensors /\ None \notin Addrs /\ None \notin Nat
  /\ Capacity \in Nat /\ Capacity # 0 /\ Settle \in Nat /\ Settle # 0
  /\ Cooldown \in Nat /\ Cooldown # 0 /\ MaxRetries \in Nat
  /\ MaxFailures \in Nat /\ MaxDiscoveries \in Nat /\ MaxOrders \in Nat
BY PresenceAssumption

\* The lookup of an entry by its address, or by its IEEE address, too.
LEMMA EntryIsFound ==
  ASSUME NEW a, num \in Nat
  PROVE  /\ IndexOf(a) = 0 => \A i \in 1 .. num : slots[i].addr # a
         /\ IndexOf(a) # 0 => IndexOf(a) \in 1 .. num /\ slots[IndexOf(a)].addr = a
         /\ Found(a) = 0 => \A i \in 1 .. num : /\ slots[i].addr # a
                                                /\ Ieee(a) # None => slots[i].ieee # Ieee(a)
         /\ Found(a) # 0 => /\ Found(a) \in 1 .. num
                            /\ \/ slots[Found(a)].addr = a
                               \/ Ieee(a) # None /\ slots[Found(a)].ieee = Ieee(a)
<1> DEFINE is == {i \in 1 .. num : slots[i].addr = a}
           js == {i \in 1 .. num : slots[i].addr = a \/ (Ieee(a) # None /\ slots[i].ieee = Ieee(a))}
<1>1. is \in SUBSET (Nat \ {0}) /\ js \in SUBSET (Nat \ {0})
  OBVIOUS
<1>2. /\ \A i \in is : i \in 1 .. num /\ slots[i].addr = a
      /\ \A i \in 1 .. num : slots[i].addr = a => i \in is
  OBVIOUS
<1>3. /\ \A i \in js : /\ i \in 1 .. num
                       /\ slots[i].addr = a \/ (Ieee(a) # None /\ slots[i].ieee = Ieee(a))
      /\ \A i \in 1 .. num : slots[i].addr = a => i \in js
      /\ \A i \in 1 .. num : Ieee(a) # None /\ slots[i].ieee = Ieee(a) => i \in js
  OBVIOUS
<1>4. IndexOf(a) = FirstOf(is) /\ Found(a) = FirstOf(js)
  BY DEF IndexOf, Found
<1> HIDE DEF is, js
<1>5. /\ FirstOf(is) = 0 <=> is = {}
      /\ FirstOf(is) # 0 => FirstOf(is) \in is
      /\ FirstOf(js) = 0 <=> js = {}
      /\ FirstOf(js) # 0 => FirstOf(js) \in js
  BY <1>1, FirstIsFound
<1>6. QED
  BY <1>2, <1>3, <1>4, <1>5

-----------------------------------------------------------------------------
(* Entries that change. *)

\* An entry changes.
LEMMA UpdatedEntry ==
  ASSUME NEW s, NEW n, NEW acc, NEW bcc, NEW fails \in Nat, NEW gails \in Nat,
         SoundTable(s, n, acc, fails), acc \subseteq bcc, fails <= gails,
         NEW i \in 1 .. n, NEW x \in Slot, x.addr \in Addrs, x.ieee \in {None, OwnerOf[x.addr]},
         x.configured => OwnerOf[x.addr] \in bcc, x.retries <= gails
  PROVE  SoundTable([s EXCEPT ![i] = x], n, bcc, gails)
<1> DEFINE t == [s EXCEPT ![i] = x]
<1>1. s \in [1 .. Capacity -> Slot] /\ n \in 0 .. Capacity /\ i \in 1 .. Capacity
  BY PresenceConstants DEF SoundTable
<1>2. t \in [1 .. Capacity -> Slot] /\ t[i] = x /\ \A j \in 1 .. Capacity : j # i => t[j] = s[j]
  BY <1>1
<1>3. \A j \in 1 .. n : j \in 1 .. Capacity
  BY <1>1, PresenceConstants
<1> HIDE DEF t
<1>4. \A j \in 1 .. Capacity : t[j].retries <= gails
  <2>1. \A j \in 1 .. Capacity : s[j].retries \in Nat /\ s[j].retries <= fails
    <3>1. \A j \in 1 .. Capacity : s[j] \in Slot
      BY <1>1
    <3>2. \A j \in 1 .. Capacity : s[j].retries \in Nat
      BY <3>1, PresenceConstants DEF Slot
    <3>3. QED
      BY <3>2 DEF SoundTable
  <2>2. QED
    BY <1>2, <2>1
<1>5. SoundTable(t, n, bcc, gails)
  BY <1>1, <1>2, <1>3, <1>4 DEF SoundTable
<1>6. QED
  BY <1>5 DEF t

\* An entry of a sensor changes, and keeps its IEEE address.
LEMMA UpdatedInTime ==
  ASSUME NEW s, NEW n \in Nat, n <= Capacity, NEW r, NEW q, NEW g, NEW er, NEW fr, NEW box,
         s \in [1 .. Capacity -> Slot], InTime(s, n, r, g, er, box), er \subseteq fr,
         NEW i \in 1 .. n, NEW x, x.ieee = s[i].ieee, x.ieee = OwnerOf[x.addr],
         x.last <= q[x.ieee], \A d \in Sensors : d # x.ieee => q[d] = r[d],
         \A j \in 1 .. n : s[j].ieee \in Sensors,
         x.configured \/ x.ieee \in fr \/ IsRipe(x, g),
         s[i].configured => x.configured \/ x.ieee \in fr
  PROVE  InTime([s EXCEPT ![i] = x], n, q, g, fr, box)
<1> DEFINE t == [s EXCEPT ![i] = x]
<1>1. t[i] = x /\ \A j \in 1 .. n : j # i => t[j] = s[j]
  BY PresenceConstants
<1>2. \A j \in 1 .. n : t[j].ieee = s[j].ieee
  BY <1>1
<1> HIDE DEF t
<1>3. /\ \A j \in 1 .. n : t[j].ieee = OwnerOf[t[j].addr]
      /\ \A j, k \in 1 .. n : j # k => t[j].ieee # t[k].ieee
  BY <1>1, <1>2 DEF InTime
<1>4. \A j \in 1 .. n : t[j].last <= q[t[j].ieee]
  <2>1. \A j \in 1 .. n : j # i => s[j].ieee # x.ieee /\ s[j].last <= r[s[j].ieee]
    BY DEF InTime
  <2>2. QED
    BY <1>1, <2>1
<1>5. \A d \in Sensors : (\A j \in 1 .. n : t[j].ieee # d) => q[d] = Cooldown
  BY <1>1, <1>2 DEF InTime
<1>6. \A j \in 1 .. n : t[j].configured \/ t[j].ieee \in fr \/ IsRipe(t[j], g)
  BY <1>1 DEF InTime
<1>7. ASSUME NEW k \in DOMAIN box
      PROVE  MayWait(box[k], t, n, g, fr)
  <2>1. MayWait(box[k], s, n, g, er)
    BY DEF InTime
  <2>2. CASE \E j \in 1 .. n : s[j].ieee = OwnerOf[box[k]] /\ s[j].configured
    BY <1>1, <1>2, <2>2 DEF MayWait
  <2>3. CASE g[box[k]] >= Settle \/ OwnerOf[box[k]] \in er
    BY <2>3 DEF MayWait
  <2>4. QED
    BY <2>1, <2>2, <2>3 DEF MayWait
<1>8. InTime(t, n, q, g, fr, box)
  BY <1>3, <1>4, <1>5, <1>6, <1>7 DEF InTime
<1>9. QED
  BY <1>8 DEF t

-----------------------------------------------------------------------------
(* Entries that are removed. *)

\* The passes of a removal: each does its round on what the one before has left.
LEMMA RemovalIsPasses ==
  ASSUME NEW r, NEW n \in Nat, NEW is
  PROVE  \E p : /\ Removal(r, n, is) = p[1] /\ p[n + 1] = [entries |-> r, num |-> n]
                /\ \A i \in 1 .. n : p[i] = RemovalStep(is, i, p[i + 1])
<1> DEFINE All == [entries |-> r, num |-> n]
           Goes(k, p) == p = [i \in k .. n + 1 |->
                                IF i = n + 1 THEN All ELSE RemovalStep(is, i, p[i + 1])]
           bad == {m \in 0 .. n : ~ \E p : Goes(n + 1 - m, p)}
<1>1. Removal(r, n, is) = (CHOOSE p : Goes(1, p))[1]
  BY DEF Removal
<1> HIDE DEF All
<1>2. \A m \in 0 .. n : m \notin bad => \E p : Goes(n + 1 - m, p)
  OBVIOUS
<1>3. bad = {}
  <2>1. SUFFICES ASSUME bad # {} PROVE FALSE
    OBVIOUS
  <2>2. bad \in SUBSET Nat
    OBVIOUS
  <2>3. PICK m \in bad : \A l \in bad : m <= l
    BY <2>1, <2>2, SmallestExists
  <2>4. m \in 0 .. n /\ ~ \E p : Goes(n + 1 - m, p)
    OBVIOUS
  <2>5. CASE m = 0
    <3> DEFINE p == [i \in {n + 1} |-> All]
    <3>1. n + 1 - m = n + 1 /\ n + 1 .. n + 1 = {n + 1}
      BY <2>5
    <3>2. Goes(n + 1 - m, p)
      BY <3>1
    <3>3. QED
      BY <2>4, <3>2
  <2>6. CASE m # 0
    <3>1. m - 1 \in 0 .. n /\ m - 1 \notin bad
      <4>1. m - 1 \in 0 .. n /\ ~(m <= m - 1)
        BY <2>4, <2>6
      <4> HIDE DEF bad
      <4>2. QED
        BY <2>3, <4>1
    <3>2. PICK q : Goes(n + 1 - (m - 1), q)
      BY <1>2, <3>1
    <3> DEFINE k == n + 1 - m
               p == [i \in k .. n + 1 |-> IF i = k THEN RemovalStep(is, k, q[k + 1]) ELSE q[i]]
    <3>3. k \in 1 .. n /\ n + 1 - (m - 1) = k + 1
      BY <2>4, <2>6
    <3>4. \A i \in k + 1 .. n + 1 :
            q[i] = IF i = n + 1 THEN All ELSE RemovalStep(is, i, q[i + 1])
      BY <3>2, <3>3
    <3>5. \A i \in k .. n + 1 :
            p[i] = IF i = n + 1 THEN All ELSE RemovalStep(is, i, p[i + 1])
      BY <3>3, <3>4
    <3>6. Goes(k, p)
      BY <3>5
    <3>7. QED
      BY <2>4, <3>6
  <2>7. QED
    BY <2>5, <2>6
<1>4. PICK p : p = (CHOOSE q : Goes(1, q)) /\ Goes(1, p)
  <2> HIDE DEF bad
  <2>1. n \in 0 .. n /\ n \notin bad /\ n + 1 - n = 1
    BY <1>3
  <2>2. \E q : Goes(n + 1 - n, q)
    BY <1>2, <2>1
  <2>3. QED
    BY <2>1, <2>2
<1>5. \A i \in 1 .. n + 1 : p[i] = IF i = n + 1 THEN All ELSE RemovalStep(is, i, p[i + 1])
  BY <1>4
<1>6. p[n + 1] = All /\ \A i \in 1 .. n : p[i] = RemovalStep(is, i, p[i + 1])
  BY <1>5
<1>7. Removal(r, n, is) = p[1]
  <2> HIDE DEF Goes, bad
  <2>1. QED
    BY <1>1, <1>4
<1>8. p[n + 1] = [entries |-> r, num |-> n]
  <2> HIDE DEF Goes, bad
  <2>1. QED
    BY <1>6 DEF All
<1>9. QED
  <2> HIDE DEF Goes, bad
  <2>1. QED
    BY <1>6, <1>7, <1>8

\* A round leaves a sound table.
LEMMA RemovalGoesOn ==
  ASSUME NEW n, NEW acc, NEW fails, NEW is, NEW i \in 1 .. n, NEW p,
         SoundTable(p.entries, p.num, acc, fails), n \in Nat, p.num \in i .. n
  PROVE  LET q == RemovalStep(is, i, p)
         IN SoundTable(q.entries, q.num, acc, fails) /\ q.num \in i - 1 .. n
<1> DEFINE s == p.entries
           m == p.num
           t == MoveDown(s, i, m)
           q == RemovalStep(is, i, p)
<1>1. CASE i \notin is
  BY <1>1 DEF RemovalStep
<1>2. CASE i \in is
  <2>1. /\ s \in [1 .. Capacity -> Slot] /\ m \in 0 .. Capacity /\ m \in Nat /\ i \in 1 .. m
        /\ Capacity \in Nat
    BY PresenceConstants DEF SoundTable
  <2>2. q = [entries |-> t, num |-> m - 1]
    BY <1>2 DEF RemovalStep
  <2>3. t \in [1 .. Capacity -> Slot] /\ \A j \in 1 .. Capacity : \E k \in 1 .. Capacity : t[j] = s[k]
    BY <2>1 DEF MoveDown
  <2>4. \A j \in 1 .. m - 1 : \E k \in 1 .. m : t[j] = s[k]
    BY <2>1 DEF MoveDown
  <2>5. m - 1 \in 0 .. Capacity /\ m - 1 \in i - 1 .. n
    BY <2>1
  <2> HIDE DEF t
  <2>6. SoundTable(t, m - 1, acc, fails)
    BY <2>3, <2>4, <2>5 DEF SoundTable
  <2>7. QED
    BY <2>2, <2>5, <2>6
<1>3. QED
  BY <1>1, <1>2

\* What the loop leaves: a sound table, and the table as it was if nothing is removed.
LEMMA RemovalIsSound ==
  ASSUME NEW s, NEW n \in Nat, NEW acc, NEW fails, NEW is, SoundTable(s, n, acc, fails)
  PROVE  /\ SoundTable(Removal(s, n, is).entries, Removal(s, n, is).num, acc, fails)
         /\ is = {} => Removal(s, n, is) = [entries |-> s, num |-> n]
<1> DEFINE All == [entries |-> s, num |-> n]
<1>1. PICK p : /\ Removal(s, n, is) = p[1] /\ p[n + 1] = All
               /\ \A i \in 1 .. n : p[i] = RemovalStep(is, i, p[i + 1])
  BY RemovalIsPasses
<1> DEFINE Holds(i) == /\ SoundTable(p[i].entries, p[i].num, acc, fails) /\ p[i].num \in i - 1 .. n
                       /\ is = {} => p[i] = All
           bad == {m \in 0 .. n : ~ Holds(n + 1 - m)}
<1>2. \A m \in 0 .. n : m \notin bad => Holds(n + 1 - m)
  OBVIOUS
<1>3. bad = {}
  <2>1. SUFFICES ASSUME bad # {} PROVE FALSE
    OBVIOUS
  <2>2. bad \in SUBSET Nat
    OBVIOUS
  <2>3. PICK m \in bad : \A l \in bad : m <= l
    BY <2>1, <2>2, SmallestExists
  <2>4. m \in 0 .. n /\ ~ Holds(n + 1 - m)
    OBVIOUS
  <2>5. CASE m = 0
    <3>1. n + 1 - m = n + 1 /\ n \in n + 1 - 1 .. n
      BY <2>4, <2>5
    <3>2. Holds(n + 1)
      BY <1>1, <3>1
    <3>3. QED
      BY <2>4, <3>1, <3>2
  <2>6. CASE m # 0
    <3> DEFINE k == n + 1 - m
    <3>1. m - 1 \in 0 .. n /\ m - 1 \notin bad
      <4>1. m - 1 \in 0 .. n /\ ~(m <= m - 1)
        BY <2>4, <2>6
      <4> HIDE DEF bad
      <4>2. QED
        BY <2>3, <4>1
    <3>2. k \in 1 .. n /\ n + 1 - (m - 1) = k + 1 /\ (k + 1) - 1 = k
      BY <2>4, <2>6
    <3>3. Holds(k + 1)
      <4> HIDE DEF bad
      <4>1. Holds(n + 1 - (m - 1))
        BY <1>2, <3>1
      <4>2. QED
        BY <3>2, <4>1
    <3> HIDE DEF k
    <3>4. SoundTable(p[k + 1].entries, p[k + 1].num, acc, fails) /\ p[k + 1].num \in k .. n
      BY <3>2, <3>3
    <3>5. p[k] = RemovalStep(is, k, p[k + 1])
      BY <1>1, <3>2
    <3>6. SoundTable(p[k].entries, p[k].num, acc, fails) /\ p[k].num \in k - 1 .. n
      BY <3>2, <3>4, <3>5, RemovalGoesOn
    <3>7. is = {} => p[k] = All
      BY <3>3, <3>5 DEF RemovalStep
    <3>8. Holds(k)
      BY <3>6, <3>7
    <3>9. QED
      BY <2>4, <3>8 DEF k
  <2>7. QED
    BY <2>5, <2>6
<1>4. n \in 0 .. n /\ n + 1 - n = 1
  OBVIOUS
<1> HIDE DEF bad
<1>5. Holds(n + 1 - n)
  BY <1>2, <1>3, <1>4
<1>6. QED
  BY <1>1, <1>4, <1>5

-----------------------------------------------------------------------------
(* The inbox. *)

\* What is posted was in the inbox, or is one of the addresses to post.
LEMMA PostedIsEither ==
  ASSUME inbox \in Seq(Addrs), NEW as \in Seq(Addrs), Post(as)
  PROVE  /\ inbox' \in Seq(Addrs)
         /\ \A k \in DOMAIN inbox' : \/ \E l \in DOMAIN inbox : inbox'[k] = inbox[l]
                                     \/ \E l \in DOMAIN as : inbox'[k] = as[l]
<1> DEFINE is == {k \in DOMAIN as : ~Contains(inbox, as[k])}
           kept == Keep(as, is)
<1>1. inbox' = inbox \o kept /\ is \in SUBSET DOMAIN as
  BY DEF Post
<1> HIDE DEF is
<1>2. kept \in Seq(Addrs) /\ \A k \in DOMAIN kept : Entrant(is, k) \in is /\ kept[k] = as[Entrant(is, k)]
  BY <1>1, KeepProperties
<1>3. \A k \in DOMAIN kept : \E l \in DOMAIN as : kept[k] = as[l]
  BY <1>1, <1>2
<1> HIDE DEF kept
<1>4. /\ inbox' \in Seq(Addrs) /\ Len(inbox') = Len(inbox) + Len(kept)
      /\ \A k \in 1 .. Len(inbox') :
           inbox'[k] = IF k <= Len(inbox) THEN inbox[k] ELSE kept[k - Len(inbox)]
  BY <1>1, <1>2
<1>5. ASSUME NEW k \in DOMAIN inbox'
      PROVE  \/ \E l \in DOMAIN inbox : inbox'[k] = inbox[l]
             \/ \E l \in DOMAIN as : inbox'[k] = as[l]
  <2>1. k \in 1 .. Len(inbox') /\ Len(inbox) \in Nat /\ Len(kept) \in Nat
    BY <1>2, <1>4
  <2>2. CASE k <= Len(inbox)
    <3>1. k \in DOMAIN inbox /\ inbox'[k] = inbox[k]
      BY <1>4, <2>1, <2>2
    <3>2. QED
      BY <3>1
  <2>3. CASE ~(k <= Len(inbox))
    <3>1. k - Len(inbox) \in DOMAIN kept /\ inbox'[k] = kept[k - Len(inbox)]
      BY <1>2, <1>4, <2>1, <2>3
    <3>2. QED
      BY <1>3, <3>1
  <2>4. QED
    BY <2>2, <2>3
<1>6. QED
  BY <1>4, <1>5

\* The addresses of entries.
LEMMA AddrsOfEntries ==
  ASSUME num \in Nat, \A i \in 1 .. num : slots[i].addr \in Addrs, NEW is \in SUBSET (1 .. num)
  PROVE  /\ AddrsIn(is) \in Seq(Addrs)
         /\ \A k \in DOMAIN AddrsIn(is) : \E i \in is : AddrsIn(is)[k] = slots[i].addr
<1> DEFINE r == [i \in 1 .. num |-> slots[i].addr]
<1>1. r \in Seq(Addrs) /\ DOMAIN r = 1 .. num /\ \A i \in 1 .. num : r[i] = slots[i].addr
  <2>1. r \in [1 .. num -> Addrs]
    OBVIOUS
  <2>2. QED
    BY <2>1, SeqDef
<1>2. AddrsIn(is) = Keep(r, is)
  BY DEF AddrsIn
<1> HIDE DEF r
<1>3. /\ Keep(r, is) \in Seq(Addrs)
      /\ \A k \in DOMAIN Keep(r, is) : Entrant(is, k) \in is /\ Keep(r, is)[k] = r[Entrant(is, k)]
  <2>1. is \in SUBSET DOMAIN r
    BY <1>1
  <2>2. QED
    BY <1>1, <2>1, KeepProperties
<1>4. QED
  BY <1>1, <1>2, <1>3

\* What is posted may wait, if each of the addresses may.
LEMMA PostedInTime ==
  ASSUME NEW s, NEW n, NEW r, NEW g, NEW er, InTime(s, n, r, g, er, inbox),
         inbox \in Seq(Addrs), NEW as \in Seq(Addrs), Post(as),
         \A l \in DOMAIN as : MayWait(as[l], s, n, g, er)
  PROVE  InTime(s, n, r, g, er, inbox')
<1>1. \A k \in DOMAIN inbox' : \/ \E l \in DOMAIN inbox : inbox'[k] = inbox[l]
                               \/ \E l \in DOMAIN as : inbox'[k] = as[l]
  BY PostedIsEither
<1>2. ASSUME NEW k \in DOMAIN inbox'
      PROVE  MayWait(inbox'[k], s, n, g, er)
  BY <1>1 DEF InTime
<1>3. QED
  BY <1>2 DEF InTime

-----------------------------------------------------------------------------
(* The steps. *)

\* What the invariant says of the types.
LEMMA PresenceFacts ==
  ASSUME PresenceIInv
  PROVE  /\ slots \in [1 .. Capacity -> Slot] /\ num \in 0 .. Capacity /\ num \in Nat
         /\ num <= Capacity /\ Capacity \in Nat /\ inbox \in Seq(Addrs)
         /\ used \subseteq Addrs /\ cached \subseteq Addrs /\ asked \subseteq Addrs
         /\ accepted \subseteq Sensors /\ early \subseteq Sensors
         /\ failures \in Nat /\ age \in [Addrs -> 0 .. Settle] /\ rest \in [Sensors -> 0 .. Cooldown]
         /\ \A i \in 1 .. num : /\ i \in 1 .. Capacity /\ slots[i] \in Slot
                                /\ slots[i].addr \in Addrs /\ slots[i].retries <= failures
                                /\ slots[i].ieee \in {None, OwnerOf[slots[i].addr]}
                                /\ slots[i].configured => OwnerOf[slots[i].addr] \in accepted
         /\ \A a \in Addrs : OwnerOf[a] \in Sensors /\ OwnerOf[a] # None
         /\ \A a \in Addrs : Ieee(a) \in {None, OwnerOf[a]}
BY PresenceConstants DEF PresenceIInv, TypeOK, SoundTable, Ieee

\* What is loaded into an empty slot.
LEMMA LoadedEntry ==
  ASSUME NEW a, NEW d, NEW b
  PROVE  [Blank EXCEPT !.addr = a, !.ieee = d, !.configured = b] =
           [addr |-> a, ieee |-> d, configured |-> b, retries |-> 0,
            last |-> Cooldown, sched |-> None]
<1>1. PICK c : Blank = [addr |-> None, ieee |-> None, configured |-> c, retries |-> 0,
                        last |-> Cooldown, sched |-> None]
  BY DEF Blank
<1> DEFINE x == [Blank EXCEPT !.addr = a, !.ieee = d, !.configured = b]
<1>2. PICK y : y = x
  OBVIOUS
<1>3. y = [addr |-> a, ieee |-> d, configured |-> b, retries |-> 0,
           last |-> Cooldown, sched |-> None]
  BY <1>1, <1>2
<1>4. QED
  BY <1>2, <1>3

\* No sensor is known, or the one in devices.txt.
LEMMA PresenceInit == Init => PresenceIInv
<1> SUFFICES ASSUME Init PROVE PresenceIInv
  OBVIOUS
<1>1. PICK known \in {{}, {1}} :
       /\ address = [s \in Sensors |->
                       IF \E a \in known : OwnerOf[a] = s THEN CHOOSE a \in known : TRUE ELSE None]
       /\ used = known /\ cached = known /\ accepted = {OwnerOf[a] : a \in known}
       /\ num = Cardinality(known)
       /\ slots = [i \in 1 .. Capacity |->
                     IF i > num THEN Blank
                     ELSE LET a == CHOOSE a \in known : TRUE
                          IN  [Blank EXCEPT !.addr = a, !.ieee = OwnerOf[a], !.configured = TRUE]]
  BY DEF Init
<1>2. /\ asked = {} /\ inbox = <<>> /\ setting = None /\ started = FALSE
      /\ failures = 0 /\ discoveries = 0 /\ orders = 0 /\ anonymous = FALSE /\ early = {}
      /\ age = [a \in Addrs |-> 0] /\ rest = [s \in Sensors |-> Cooldown]
  BY DEF Init
<1>3. /\ address \in [Sensors -> Addrs \cup {None}] /\ used \subseteq Addrs /\ cached \subseteq Addrs
      /\ accepted \subseteq Sensors
  BY <1>1, PresenceConstants
<1>4. /\ Blank \in Slot /\ Blank.retries = 0
      /\ Blank = [addr |-> None, ieee |-> None, configured |-> FALSE, retries |-> 0,
                  last |-> Cooldown, sched |-> None]
  BY PresenceConstants DEF Blank, Slot
<1> DEFINE one == [addr |-> 1, ieee |-> OwnerOf[1], configured |-> TRUE, retries |-> 0,
                   last |-> Cooldown, sched |-> None]
<1>5. /\ num \in {0, 1} /\ num \in 0 .. Capacity
      /\ slots = [i \in 1 .. Capacity |-> IF i > num THEN Blank ELSE one]
      /\ num = 1 => OwnerOf[1] \in accepted
  <2>1. CASE known = {}
    <3>1. num = 0
      BY <1>1, <2>1, FS_EmptySet
    <3>2. \A i \in 1 .. Capacity : i > num
      BY <3>1, PresenceConstants
    <3>3. slots = [i \in 1 .. Capacity |-> Blank]
      BY <1>1, <3>2
    <3> HIDE DEF one
    <3>4. slots = [i \in 1 .. Capacity |-> IF i > num THEN Blank ELSE one]
      BY <3>2, <3>3
    <3>5. QED
      BY <3>1, <3>4, PresenceConstants
  <2>2. CASE known = {1}
    <3>1. num = 1 /\ (CHOOSE a \in known : TRUE) = 1
      BY <1>1, <2>2, FS_Singleton
    <3>2. [Blank EXCEPT !.addr = 1, !.ieee = OwnerOf[1], !.configured = TRUE] = one
      BY LoadedEntry
    <3>3. slots = [i \in 1 .. Capacity |-> IF i > num THEN Blank ELSE one]
      BY <1>1, <3>1, <3>2
    <3> HIDE DEF one
    <3>4. OwnerOf[1] \in accepted /\ 1 \in 0 .. Capacity
      <4>1. 1 \in known /\ accepted = {OwnerOf[a] : a \in known}
        BY <1>1, <2>2
      <4>2. OwnerOf[1] \in accepted
        BY <4>1
      <4>3. QED
        BY <4>2, PresenceConstants
    <3>5. QED
      BY <3>1, <3>3, <3>4
  <2>3. QED
    BY <1>1, <2>1, <2>2
<1>6. one \in Slot /\ one.retries = 0 /\ one.addr = 1 /\ one.ieee = OwnerOf[1] /\ one.configured
      /\ one.last = Cooldown
  BY PresenceConstants DEF Slot
<1> HIDE DEF one
<1>7. /\ slots \in [1 .. Capacity -> Slot] /\ \A i \in 1 .. Capacity : slots[i].retries = 0
      /\ \A i \in 1 .. num : i = 1 /\ slots[i] = one
  <2>1. \A i \in 1 .. Capacity : slots[i] = IF i > num THEN Blank ELSE one
    BY <1>5
  <2>2. \A i \in 1 .. Capacity : slots[i] \in Slot /\ slots[i].retries = 0
    BY <1>4, <1>6, <2>1
  <2>3. \A i \in 1 .. num : i = 1 /\ ~(i > num) /\ i \in 1 .. Capacity
    BY <1>5, PresenceConstants
  <2>4. QED
    BY <1>5, <2>1, <2>2, <2>3
<1>8. TypeOK
  <2>1. inbox \in Seq(Addrs) /\ setting \in Addrs \cup {None} /\ early \subseteq Sensors
        /\ asked \subseteq Addrs
    BY <1>2
  <2>2. /\ failures \in 0 .. MaxFailures /\ discoveries \in 0 .. MaxDiscoveries
        /\ orders \in 0 .. MaxOrders
        /\ age \in [Addrs -> 0 .. Settle] /\ rest \in [Sensors -> 0 .. Cooldown]
    BY <1>2, PresenceConstants
  <2>3. started \in BOOLEAN /\ anonymous \in BOOLEAN
    BY <1>2
  <2>4. QED
    BY <1>3, <1>5, <1>7, <2>1, <2>2, <2>3 DEF TypeOK
<1>9. SoundTable(slots, num, accepted, failures)
  BY <1>2, <1>5, <1>6, <1>7, PresenceConstants DEF SoundTable
<1>10. InTime(slots, num, rest, age, early, inbox)
  <2>1. DOMAIN inbox = {}
    BY <1>2
  <2>2. OwnerOf[1] \in Sensors /\ rest[OwnerOf[1]] = Cooldown /\ Cooldown <= Cooldown
    BY <1>2, PresenceConstants
  <2>3. \A d \in Sensors : rest[d] = Cooldown
    BY <1>2
  <2>4. QED
    BY <1>6, <1>7, <2>1, <2>2, <2>3 DEF InTime
<1>11. QED
  BY <1>8, <1>9, <1>10 DEF PresenceIInv

\* A step that changes neither the table nor the inbox nor the times.
LEMMA QuietStep ==
  ASSUME PresenceIInv, TypeOK',
         UNCHANGED <<slots, num, inbox, anonymous, accepted, early, age, rest, failures>>
  PROVE  PresenceIInv'
BY DEF PresenceIInv

\* The address, the schedule and the last setup of an entry.
LEMMA Scheduled ==
  ASSUME NEW e \in Slot
  PROVE  /\ Schedule(e) \in Slot /\ Schedule(e).addr = e.addr /\ Schedule(e).ieee = e.ieee
         /\ Schedule(e).configured = e.configured /\ Schedule(e).retries = e.retries
         /\ Schedule(e).last = e.last
         /\ PresenceIInv /\ e.addr \in Addrs => IsRipe(Schedule(e), age)
<1>1. Schedule(e) = [addr |-> e.addr, ieee |-> e.ieee, configured |-> e.configured,
                     retries |-> e.retries, last |-> e.last, sched |-> Settle]
  BY DEF Slot, Schedule
<1>2. Schedule(e) \in Slot
  BY <1>1, PresenceConstants DEF Slot
<1>3. ASSUME PresenceIInv, e.addr \in Addrs
      PROVE  IsRipe(Schedule(e), age)
  <2>1. age[e.addr] \in 0 .. Settle /\ Settle \in Nat /\ None # Settle
    BY <1>3, PresenceFacts, PresenceConstants
  <2>2. Schedule(e).sched = Settle /\ Schedule(e).addr = e.addr
    BY <1>1
  <2>3. QED
    BY <2>1, <2>2 DEF IsRipe
<1>4. QED
  BY <1>1, <1>2, <1>3

\* A sensor that has no entry gets one.
LEMMA DiscoverAdds ==
  ASSUME PresenceIInv, NEW a \in Addrs, Found(a) = 0, num < Capacity,
         slots' = [slots EXCEPT ![num + 1] =
                     Schedule([@ EXCEPT !.addr = a, !.ieee = Ieee(a), !.configured = FALSE])],
         num' = num + 1, anonymous' = (anonymous \/ Ieee(a) = None),
         UNCHANGED <<inbox, failures, accepted, early, age, rest>>
  PROVE  /\ SoundTable(slots', num', accepted', failures')
         /\ ~anonymous' => InTime(slots', num', rest', age', early', inbox')
<1> DEFINE old == slots[num + 1]
           e == [old EXCEPT !.addr = a, !.ieee = Ieee(a), !.configured = FALSE]
           x == Schedule(e)
<1>1. num + 1 \in 1 .. Capacity /\ old \in Slot /\ Ieee(a) \in {None, OwnerOf[a]}
      /\ OwnerOf[a] \in Sensors /\ slots' = [slots EXCEPT ![num + 1] = x]
      /\ old.retries <= failures
  BY PresenceFacts DEF PresenceIInv, SoundTable
<1>2. /\ e \in Slot /\ e.addr = a /\ e.ieee = Ieee(a) /\ ~e.configured
      /\ e.retries = old.retries
  <2> HIDE DEF old
  <2>1. QED
    BY <1>1 DEF Slot
<1> HIDE DEF e
<1>3. /\ x \in Slot /\ x.addr = a /\ x.ieee = Ieee(a) /\ ~x.configured
      /\ x.retries <= failures /\ IsRipe(x, age)
  BY <1>1, <1>2, Scheduled
<1>4. x.last <= Cooldown /\ x.last \in Nat
  BY <1>3, PresenceConstants DEF Slot
<1> HIDE DEF x
<1>5. /\ slots' \in [1 .. Capacity -> Slot] /\ slots'[num + 1] = x
      /\ \A i \in 1 .. Capacity : i # num + 1 => slots'[i] = slots[i]
      /\ \A i \in 1 .. num : i # num + 1 /\ i \in 1 .. num + 1
      /\ \A i \in 1 .. num + 1 : i # num + 1 => i \in 1 .. num
      /\ num + 1 \in 0 .. Capacity
  BY <1>1, <1>3, PresenceFacts
<1>6. \A i \in 1 .. num : slots'[i] = slots[i]
  BY <1>5, PresenceFacts
<1>7. SoundTable(slots', num + 1, accepted, failures)
  BY <1>1, <1>3, <1>5, <1>6, PresenceFacts DEF PresenceIInv, SoundTable
<1>8. ASSUME ~anonymous'
      PROVE  InTime(slots', num + 1, rest, age, early, inbox)
  <2>1. InTime(slots, num, rest, age, early, inbox) /\ x.ieee = OwnerOf[a] /\ Ieee(a) # None
    BY <1>1, <1>3, <1>8 DEF PresenceIInv
  <2>2. \A i \in 1 .. num : slots[i].ieee # x.ieee
    <3>1. \A i \in 1 .. num : Ieee(a) # None => slots[i].ieee # Ieee(a)
      BY PresenceFacts, EntryIsFound
    <3>2. QED
      BY <1>3, <2>1, <3>1
  <2>3. x.last <= rest[x.ieee]
    BY <1>1, <1>4, <2>1, <2>2 DEF InTime
  <2>4. ASSUME NEW k \in DOMAIN inbox
        PROVE  MayWait(inbox[k], slots', num + 1, age, early)
    BY <1>5, <1>6, <2>1 DEF InTime, MayWait
  <2>5. \A i, j \in 1 .. num + 1 : i # j => slots'[i].ieee # slots'[j].ieee
    BY <1>5, <1>6, <2>1, <2>2 DEF InTime
  <2>6. \A d \in Sensors : (\A i \in 1 .. num + 1 : slots'[i].ieee # d) => rest[d] = Cooldown
    BY <1>5, <1>6, <2>1 DEF InTime
  <2>7. \A i \in 1 .. num + 1 : /\ slots'[i].ieee = OwnerOf[slots'[i].addr]
                                /\ slots'[i].last <= rest[slots'[i].ieee]
                                /\ \/ slots'[i].configured \/ slots'[i].ieee \in early
                                   \/ IsRipe(slots'[i], age)
    BY <1>3, <1>5, <1>6, <2>1, <2>3 DEF InTime
  <2>8. QED
    BY <2>4, <2>5, <2>6, <2>7 DEF InTime
<1>9. QED
  BY <1>7, <1>8

\* The table is full.
LEMMA DiscoverIsLate ==
  ASSUME PresenceIInv, ~(num < Capacity), slots' = [slots EXCEPT ![num] = Schedule(@)],
         UNCHANGED <<num, inbox, anonymous, failures, accepted, early, age, rest>>
  PROVE  /\ SoundTable(slots', num', accepted', failures')
         /\ ~anonymous' => InTime(slots', num', rest', age', early', inbox')
<1> DEFINE e == slots[num]
           x == Schedule(e)
<1>1. num \in 1 .. num /\ num \in 1 .. Capacity /\ e \in Slot /\ slots' = [slots EXCEPT ![num] = x]
  BY PresenceFacts, PresenceConstants
<1>2. /\ e.addr \in Addrs /\ e.ieee \in {None, OwnerOf[e.addr]} /\ e.retries <= failures
      /\ e.configured => OwnerOf[e.addr] \in accepted
  BY <1>1, PresenceFacts
<1>3. /\ x \in Slot /\ x.addr = e.addr /\ x.ieee = e.ieee /\ x.configured = e.configured
      /\ x.retries = e.retries /\ x.last = e.last /\ IsRipe(x, age)
  BY <1>1, <1>2, Scheduled
<1> HIDE DEF x
<1>4. SoundTable([slots EXCEPT ![num] = x], num, accepted, failures)
  <2>1. failures \in Nat /\ failures <= failures
    BY PresenceFacts
  <2>2. QED
    BY <1>1, <1>2, <1>3, <2>1, UpdatedEntry DEF PresenceIInv
<1>5. ASSUME ~anonymous
      PROVE  InTime([slots EXCEPT ![num] = x], num, rest, age, early, inbox)
  <2>1. InTime(slots, num, rest, age, early, inbox)
    BY <1>5 DEF PresenceIInv
  <2>2. /\ x.ieee = slots[num].ieee /\ x.ieee = OwnerOf[x.addr] /\ x.last <= rest[x.ieee]
        /\ \A j \in 1 .. num : slots[j].ieee \in Sensors
    <3>1. \A j \in 1 .. num : slots[j].ieee = OwnerOf[slots[j].addr] /\ slots[j].last <= rest[slots[j].ieee]
      BY <2>1 DEF InTime
    <3>2. \A j \in 1 .. num : slots[j].ieee \in Sensors
      BY <3>1, PresenceFacts
    <3>3. QED
      BY <1>1, <1>3, <3>1, <3>2
  <2>3. slots[num].configured => x.configured
    BY <1>3
  <2>4. QED
    BY <1>1, <1>3, <2>1, <2>2, <2>3, PresenceFacts, UpdatedInTime
<1>6. QED
  BY <1>1, <1>4, <1>5

\* The entry of a sensor is found, and moved to its address.
LEMMA DiscoverRefreshes ==
  ASSUME PresenceIInv, NEW a \in Addrs, Found(a) # 0,
         LET e == slots[Found(a)]
             new == [e EXCEPT !.addr = a, !.ieee = IF @ = None THEN Ieee(a) ELSE @]
         IN /\ slots' = [slots EXCEPT ![Found(a)] = IF e.configured THEN new ELSE Schedule(new)]
            /\ Post(IF e.configured /\ e.addr = a THEN <<a>> ELSE <<>>),
         UNCHANGED <<num, anonymous, failures, accepted, early, age, rest>>
  PROVE  /\ inbox' \in Seq(Addrs)
         /\ SoundTable(slots', num', accepted', failures')
         /\ ~anonymous' => InTime(slots', num', rest', age', early', inbox')
<1> DEFINE i == Found(a)
           e == slots[i]
           f == IF e.ieee = None THEN Ieee(a) ELSE e.ieee
           new == [e EXCEPT !.addr = a, !.ieee = f]
           x == IF e.configured THEN new ELSE Schedule(new)
           as == IF e.configured /\ e.addr = a THEN <<a>> ELSE <<>>
<1>1. slots' = [slots EXCEPT ![i] = x] /\ Post(as)
  OBVIOUS
<1>2. /\ i \in 1 .. num /\ e \in Slot /\ e.addr \in Addrs /\ e.ieee \in {None, OwnerOf[e.addr]}
      /\ e.retries <= failures /\ (e.configured => OwnerOf[e.addr] \in accepted)
      /\ e.addr = a \/ (Ieee(a) # None /\ e.ieee = Ieee(a))
  <2>1. i \in 1 .. num /\ (e.addr = a \/ (Ieee(a) # None /\ e.ieee = Ieee(a)))
    BY PresenceFacts, EntryIsFound
  <2> HIDE DEF i
  <2>2. QED
    BY <2>1, PresenceFacts
<1>3. OwnerOf[e.addr] = OwnerOf[a] /\ f \in {None, OwnerOf[a]} /\ f \in Sensors \cup {None}
      /\ (e.ieee # None => f = e.ieee)
  BY <1>2, PresenceFacts
<1> HIDE DEF i
<1>4. /\ new \in Slot /\ new.addr = a /\ new.ieee = f /\ new.configured = e.configured
      /\ new.retries = e.retries /\ new.last = e.last
  <2> HIDE DEF e, f
  <2>1. QED
    BY <1>2, <1>3 DEF Slot
<1> HIDE DEF new, f
<1>5. /\ x \in Slot /\ x.addr = a /\ x.ieee = f /\ x.retries = e.retries /\ x.last = e.last
      /\ (e.configured => x.configured) /\ (x.configured => e.configured)
      /\ x.configured \/ IsRipe(x, age)
  <2>1. CASE e.configured
    BY <1>4, <2>1
  <2>2. CASE ~e.configured
    <3>1. x = Schedule(new) /\ ~new.configured
      BY <1>4, <2>2
    <3>2. ~x.configured
      BY <1>4, <3>1, Scheduled
    <3>3. QED
      BY <1>4, <2>2, <3>1, <3>2, Scheduled
  <2>3. QED
    BY <2>1, <2>2
<1> HIDE DEF x
<1>6. SoundTable([slots EXCEPT ![i] = x], num, accepted, failures)
  <2>1. failures \in Nat /\ failures <= failures
    BY PresenceFacts
  <2>2. x.addr \in Addrs /\ x.ieee \in {None, OwnerOf[x.addr]} /\ x.retries <= failures
        /\ (x.configured => OwnerOf[x.addr] \in accepted)
    BY <1>2, <1>3, <1>5
  <2>3. QED
    BY <1>2, <1>5, <2>1, <2>2, UpdatedEntry DEF PresenceIInv
<1>7. as \in Seq(Addrs) /\ \A l \in DOMAIN as : as[l] = a /\ e.configured /\ e.addr = a
  BY <1>2
<1> HIDE DEF as
<1>8. inbox' \in Seq(Addrs)
  BY <1>1, <1>7, PresenceFacts, PostedIsEither
<1>9. ASSUME ~anonymous
      PROVE  InTime([slots EXCEPT ![i] = x], num, rest, age, early, inbox')
  <2>1. InTime(slots, num, rest, age, early, inbox)
    BY <1>9 DEF PresenceIInv
  <2>2. \A j \in 1 .. num : slots[j].ieee = OwnerOf[slots[j].addr] /\ slots[j].last <= rest[slots[j].ieee]
    BY <2>1 DEF InTime
  <2>3. \A j \in 1 .. num : slots[j].ieee \in Sensors
    BY <2>2, PresenceFacts
  <2>4. e.ieee = OwnerOf[e.addr] /\ e.last <= rest[e.ieee] /\ e.ieee # None
    BY <1>2, <2>2, PresenceFacts
  <2>5. x.ieee = slots[i].ieee /\ x.ieee = OwnerOf[x.addr] /\ x.last <= rest[x.ieee]
    BY <1>3, <1>5, <2>4
  <2>6. slots[i].configured => x.configured
    BY <1>5
  <2>7. x.configured \/ x.ieee \in early \/ IsRipe(x, age)
    BY <1>5
  <2>8. InTime([slots EXCEPT ![i] = x], num, rest, age, early, inbox)
    BY <1>2, <2>1, <2>3, <2>5, <2>6, <2>7, PresenceFacts, UpdatedInTime
  <2>9. ASSUME NEW l \in DOMAIN as
        PROVE  MayWait(as[l], [slots EXCEPT ![i] = x], num, age, early)
    <3>1. [slots EXCEPT ![i] = x][i] = x
      BY <1>2, PresenceFacts
    <3>2. as[l] = a /\ x.configured /\ x.ieee = OwnerOf[a]
      BY <1>5, <1>7, <2>5
    <3>3. QED
      BY <1>2, <3>1, <3>2 DEF MayWait
  <2>10. QED
    BY <1>1, <1>7, <2>8, <2>9, PresenceFacts, PostedInTime
<1>10. QED
  BY <1>1, <1>6, <1>8, <1>9

\* A simple descriptor response.
LEMMA DiscoverKeeps ==
  ASSUME PresenceIInv, NEW a \in Addrs, Discover(a)
  PROVE  PresenceIInv'
<1>1. /\ discoveries < MaxDiscoveries /\ discoveries' = discoveries + 1
      /\ UNCHANGED <<address, used, cached, asked, setting, started, failures, orders,
                     accepted, early, age, rest>>
  BY DEF Discover, deviceVars, ieeeVars
<1>2. /\ inbox' \in Seq(Addrs) /\ anonymous' \in BOOLEAN
      /\ SoundTable(slots', num', accepted', failures')
      /\ ~anonymous' => InTime(slots', num', rest', age', early', inbox')
  <2>1. CASE Found(a) = 0 /\ num < Capacity
    <3>1. /\ slots' = [slots EXCEPT ![num + 1] =
                         Schedule([@ EXCEPT !.addr = a, !.ieee = Ieee(a), !.configured = FALSE])]
          /\ num' = num + 1 /\ anonymous' = (anonymous \/ Ieee(a) = None) /\ UNCHANGED inbox
      BY <2>1 DEF Discover
    <3>2. inbox' \in Seq(Addrs) /\ anonymous' \in BOOLEAN
      BY <3>1, PresenceFacts
    <3>3. QED
      BY <1>1, <2>1, <3>1, <3>2, DiscoverAdds
  <2>2. CASE Found(a) = 0 /\ ~(num < Capacity)
    <3>1. slots' = [slots EXCEPT ![num] = Schedule(@)] /\ UNCHANGED <<num, anonymous, inbox>>
      BY <2>2 DEF Discover
    <3>2. inbox' \in Seq(Addrs) /\ anonymous' \in BOOLEAN
      BY <3>1, PresenceFacts DEF PresenceIInv, TypeOK
    <3>3. QED
      BY <1>1, <2>2, <3>1, <3>2, DiscoverIsLate
  <2>3. CASE Found(a) # 0
    <3>1. /\ LET e == slots[Found(a)]
                 new == [e EXCEPT !.addr = a, !.ieee = IF @ = None THEN Ieee(a) ELSE @]
             IN /\ slots' = [slots EXCEPT ![Found(a)] = IF e.configured THEN new ELSE Schedule(new)]
                /\ Post(IF e.configured /\ e.addr = a THEN <<a>> ELSE <<>>)
          /\ UNCHANGED <<num, anonymous>>
      BY <2>3 DEF Discover
    <3>2. anonymous' \in BOOLEAN
      BY <3>1 DEF PresenceIInv, TypeOK
    <3>3. QED
      BY <1>1, <2>3, <3>1, <3>2, DiscoverRefreshes
  <2>4. QED
    BY <2>1, <2>2, <2>3
<1>3. TypeOK'
  <2>1. slots' \in [1 .. Capacity -> Slot] /\ num' \in 0 .. Capacity
    BY <1>2 DEF SoundTable
  <2>2. discoveries' \in 0 .. MaxDiscoveries
    BY <1>1, PresenceConstants DEF PresenceIInv, TypeOK
  <2>3. QED
    BY <1>1, <1>2, <2>1, <2>2 DEF PresenceIInv, TypeOK
<1>4. QED
  BY <1>2, <1>3 DEF PresenceIInv

\* An IEEE address response.
LEMMA IeeeRspKeeps ==
  ASSUME PresenceIInv, NEW a \in Addrs, IeeeRsp(a)
  PROVE  PresenceIInv'
<1> DEFINE i == IndexOf(a)
           stale == {j \in 1 .. num : slots[j].addr # a /\ slots[j].ieee = OwnerOf[a]}
           c == IF stale = {} THEN slots[i].configured ELSE slots[FirstOf(stale)].configured
           x == [slots[i] EXCEPT !.ieee = OwnerOf[a], !.configured = c]
           known == [slots EXCEPT ![i] = x]
           table == Removal(known, num, stale)
           as == IF known[i].configured THEN <<a>> ELSE <<>>
<1>1. /\ asked' = asked \ {a} /\ cached' = cached \cup {a} /\ UpdateIeee(a)
      /\ UNCHANGED <<address, used, setting, started, failures, discoveries, orders,
                     anonymous, accepted, early, age, rest>>
  BY DEF IeeeRsp, deviceVars, counters, history
<1>2. cached' \subseteq Addrs /\ asked' \subseteq Addrs
  BY <1>1, PresenceFacts
<1>3. CASE i = 0
  <2>1. UNCHANGED <<slots, num, inbox>>
    BY <1>1, <1>3 DEF UpdateIeee
  <2>2. TypeOK'
    BY <1>1, <1>2, <2>1 DEF PresenceIInv, TypeOK
  <2>3. QED
    BY <1>1, <2>1, <2>2, QuietStep
<1>4. CASE i # 0
  <2>1. i \in 1 .. num /\ i \in 1 .. Capacity /\ slots[i].addr = a /\ slots[i] \in Slot
        /\ OwnerOf[a] \in Sensors /\ OwnerOf[a] # None /\ slots[i].retries <= failures
    <3>1. i \in 1 .. num /\ slots[i].addr = a
      BY <1>4, PresenceFacts, EntryIsFound
    <3> HIDE DEF i
    <3>2. QED
      BY <3>1, PresenceFacts
  <2>2. [slots EXCEPT ![i].ieee = OwnerOf[a],
           ![i].configured = IF stale = {} THEN @ ELSE slots[FirstOf(stale)].configured] = known
    <3> HIDE DEF i, stale
    <3>1. QED
      BY <2>1, PresenceFacts
  <2>3. slots' = table.entries /\ num' = table.num /\ Post(as)
    BY <1>1, <1>4, <2>2 DEF UpdateIeee
  <2>4. \A j \in stale : j \in 1 .. num /\ slots[j].addr # a /\ slots[j].ieee = OwnerOf[a]
    OBVIOUS
  <2>5. stale # {} => FirstOf(stale) \in stale
    <3>1. stale \in SUBSET (Nat \ {0})
      BY PresenceFacts
    <3> HIDE DEF stale
    <3>2. QED
      BY <3>1, FirstIsFound
  <2>6. \A j \in 1 .. num : slots[j].addr # a /\ slots[j].ieee = OwnerOf[a] => j \in stale
    OBVIOUS
  <2> HIDE DEF i, stale
  <2>7. c \in BOOLEAN /\ (c => OwnerOf[a] \in accepted)
    <3>1. CASE stale = {}
      <4>1. c = slots[i].configured
        BY <3>1
      <4>2. QED
        BY <2>1, <4>1, PresenceFacts DEF Slot
    <3>2. CASE stale # {}
      <4>1. PICK j \in 1 .. num : c = slots[j].configured /\ slots[j].ieee = OwnerOf[a]
        BY <2>4, <2>5, <3>2
      <4>2. slots[j].ieee = OwnerOf[slots[j].addr] /\ slots[j] \in Slot
        BY <2>1, <4>1, PresenceFacts
      <4>3. slots[j].configured => OwnerOf[a] \in accepted
        BY <4>1, <4>2, PresenceFacts
      <4>4. QED
        BY <4>1, <4>2, <4>3 DEF Slot
    <3>3. QED
      BY <3>1, <3>2
  <2>8. /\ x \in Slot /\ x.addr = a /\ x.ieee = OwnerOf[a] /\ x.retries = slots[i].retries
        /\ x.last = slots[i].last /\ x.sched = slots[i].sched /\ (x.configured => c)
        /\ (c => x.configured)
    <3> HIDE DEF c
    <3>1. QED
      BY <2>1, <2>7 DEF Slot
  <2>9. stale = {} => (c => slots[i].configured) /\ (slots[i].configured => c)
    OBVIOUS
  <2> HIDE DEF x, c
  <2>10. SoundTable(known, num, accepted, failures)
    <3>1. failures \in Nat /\ failures <= failures /\ x.retries <= failures
      BY <2>1, <2>8, PresenceFacts
    <3>2. x.addr \in Addrs /\ x.ieee \in {None, OwnerOf[x.addr]}
          /\ (x.configured => OwnerOf[x.addr] \in accepted)
      BY <2>7, <2>8
    <3>3. QED
      BY <2>1, <2>8, <3>1, <3>2, UpdatedEntry DEF PresenceIInv
  <2>11. known[i] = x
    BY <2>1, PresenceFacts
  <2>12. as \in Seq(Addrs) /\ \A l \in DOMAIN as : as[l] = a /\ x.configured
    BY <2>11
  <2> HIDE DEF known, as
  <2>13. SoundTable(slots', num', accepted, failures)
    BY <2>3, <2>10, PresenceFacts, RemovalIsSound
  <2>14. inbox' \in Seq(Addrs)
    BY <2>3, <2>12, PresenceFacts, PostedIsEither
  <2>15. TypeOK'
    <3>1. slots' \in [1 .. Capacity -> Slot] /\ num' \in 0 .. Capacity
      BY <2>13 DEF SoundTable
    <3>2. QED
      BY <1>1, <1>2, <2>14, <3>1 DEF PresenceIInv, TypeOK
  <2>16. ASSUME ~anonymous
         PROVE  InTime(slots', num', rest, age, early, inbox')
    <3>1. InTime(slots, num, rest, age, early, inbox)
      BY <2>16 DEF PresenceIInv
    <3>2. /\ \A j \in 1 .. num : slots[j].ieee = OwnerOf[slots[j].addr]
          /\ \A j, k \in 1 .. num : j # k => slots[j].ieee # slots[k].ieee
          /\ \A j \in 1 .. num : slots[j].last <= rest[slots[j].ieee]
          /\ \A j \in 1 .. num : slots[j].configured \/ slots[j].ieee \in early \/ IsRipe(slots[j], age)
      BY <3>1 DEF InTime
    <3>3. stale = {}
      BY <2>1, <2>4, <3>2
    <3>4. table = [entries |-> known, num |-> num]
      BY <2>10, <3>3, PresenceFacts, RemovalIsSound
    <3>5. slots' = known /\ num' = num
      BY <2>3, <3>4
    <3>6. \A j \in 1 .. num : slots[j].ieee \in Sensors
      BY <3>2, PresenceFacts
    <3>7. /\ x.ieee = slots[i].ieee /\ x.ieee = OwnerOf[x.addr] /\ x.last <= rest[x.ieee]
      BY <2>1, <2>8, <3>2
    <3>8. slots[i].configured => x.configured
      BY <2>8, <2>9, <3>3
    <3>9. x.configured \/ x.ieee \in early \/ IsRipe(x, age)
      BY <2>1, <2>8, <2>9, <3>2, <3>3, <3>7 DEF IsRipe
    <3>10. InTime(known, num, rest, age, early, inbox)
      BY <2>1, <3>1, <3>6, <3>7, <3>8, <3>9, PresenceFacts, UpdatedInTime DEF known
    <3>11. \A l \in DOMAIN as : MayWait(as[l], known, num, age, early)
      BY <2>1, <2>8, <2>11, <2>12 DEF MayWait
    <3>12. InTime(known, num, rest, age, early, inbox')
      BY <2>3, <2>12, <3>10, <3>11, PresenceFacts, PostedInTime
    <3>13. QED
      BY <3>5, <3>12
  <2>17. QED
    BY <1>1, <2>13, <2>15, <2>16 DEF PresenceIInv
<1>5. QED
  BY <1>3, <1>4

\* A sensor is posted early.
LEMMA EarlyInTime ==
  ASSUME NEW s, NEW n, NEW r, NEW g, NEW er, NEW fr, NEW box,
         InTime(s, n, r, g, er, box), er \subseteq fr
  PROVE  InTime(s, n, r, g, fr, box)
<1>1. ASSUME NEW k \in DOMAIN box
      PROVE  MayWait(box[k], s, n, g, fr)
  BY DEF InTime, MayWait
<1>2. QED
  BY <1>1 DEF InTime

\* The operator orders a setup.
LEMMA OrderKeeps ==
  ASSUME PresenceIInv, NEW a \in Addrs, ForceSetup(a) \/ Rebind(a)
  PROVE  PresenceIInv'
<1> DEFINE i == IndexOf(a)
           x == [slots[i] EXCEPT !.configured = FALSE]
<1>1. /\ orders < MaxOrders /\ orders' = orders + 1
      /\ i # 0 /\ Post(<<a>>) /\ early' = early \cup {OwnerOf[a]}
      /\ UNCHANGED <<address, used, cached, asked, num, setting, started, failures, discoveries,
                     anonymous, accepted, age, rest>>
      /\ slots' = slots \/ slots' = [slots EXCEPT ![i].configured = FALSE]
  BY DEF ForceSetup, Rebind, Order, Registered, deviceVars, ieeeVars
<1>2. i \in 1 .. num /\ i \in 1 .. Capacity /\ slots[i].addr = a
  BY <1>1, PresenceFacts, EntryIsFound
<1> HIDE DEF i
<1>3. /\ slots[i] \in Slot /\ slots[i].retries <= failures
      /\ slots[i].ieee \in {None, OwnerOf[a]} /\ OwnerOf[a] \in Sensors
  BY <1>2, PresenceFacts
<1>4. slots' = slots \/ slots' = [slots EXCEPT ![i] = x]
  BY <1>1, <1>2, PresenceFacts
<1>5. /\ x \in Slot /\ x.addr = a /\ x.ieee = slots[i].ieee /\ x.retries = slots[i].retries
      /\ x.last = slots[i].last /\ ~x.configured
  BY <1>2, <1>3 DEF Slot
<1> HIDE DEF x
<1>6. SoundTable(slots', num, accepted, failures)
  <2>1. SoundTable(slots, num, accepted, failures) /\ failures \in Nat /\ failures <= failures
    BY PresenceFacts DEF PresenceIInv
  <2>2. SoundTable([slots EXCEPT ![i] = x], num, accepted, failures)
    BY <1>2, <1>3, <1>5, <2>1, UpdatedEntry
  <2>3. QED
    BY <1>4, <2>1, <2>2
<1>7. <<a>> \in Seq(Addrs) /\ \A l \in DOMAIN <<a>> : <<a>>[l] = a
  OBVIOUS
<1>8. inbox' \in Seq(Addrs)
  BY <1>1, <1>7, PresenceFacts, PostedIsEither
<1>9. ASSUME ~anonymous
      PROVE  InTime(slots', num, rest, age, early', inbox')
  <2>1. InTime(slots, num, rest, age, early, inbox) /\ early \subseteq early'
        /\ OwnerOf[a] \in early'
    BY <1>1, <1>9 DEF PresenceIInv
  <2>2. \A j \in 1 .. num : slots[j].ieee = OwnerOf[slots[j].addr] /\ slots[j].last <= rest[slots[j].ieee]
    BY <2>1 DEF InTime
  <2>3. \A j \in 1 .. num : slots[j].ieee \in Sensors
    BY <2>2, PresenceFacts
  <2>4. /\ x.ieee = slots[i].ieee /\ x.ieee = OwnerOf[x.addr] /\ x.last <= rest[x.ieee]
        /\ x.ieee \in early'
    BY <1>2, <1>5, <2>1, <2>2
  <2>5. InTime([slots EXCEPT ![i] = x], num, rest, age, early', inbox)
    BY <1>2, <2>1, <2>3, <2>4, PresenceFacts, UpdatedInTime
  <2>6. InTime(slots', num, rest, age, early', inbox)
    BY <1>4, <2>1, <2>5, EarlyInTime
  <2>7. \A l \in DOMAIN <<a>> : MayWait(<<a>>[l], slots', num, age, early')
    BY <1>7, <2>1 DEF MayWait
  <2>8. QED
    BY <1>1, <1>7, <2>6, <2>7, PresenceFacts, PostedInTime
<1>10. TypeOK'
  <2>1. slots' \in [1 .. Capacity -> Slot]
    BY <1>6 DEF SoundTable
  <2>2. orders' \in 0 .. MaxOrders
    <3>1. orders \in 0 .. MaxOrders /\ MaxOrders \in Nat
      BY PresenceConstants DEF PresenceIInv, TypeOK
    <3>2. orders < MaxOrders /\ orders' = orders + 1
      BY <1>1
    <3>3. QED
      BY <3>1, <3>2
  <2>3. early' \subseteq Sensors
    BY <1>1, <1>3, PresenceFacts
  <2>4. QED
    BY <1>1, <1>8, <2>1, <2>2, <2>3 DEF PresenceIInv, TypeOK
<1>11. QED
  BY <1>1, <1>6, <1>9, <1>10 DEF PresenceIInv

\* Entries that change together keep their addresses and what they are, and ripen.
Ripens(s, t, n, r, q, g, h) ==
  /\ \A i \in 1 .. n : /\ t[i].addr = s[i].addr /\ t[i].ieee = s[i].ieee
                       /\ t[i].configured = s[i].configured
                       /\ t[i].last <= q[s[i].ieee]
                       /\ IsRipe(s[i], g) => IsRipe(t[i], h)
  /\ \A d \in Sensors : r[d] = Cooldown => q[d] = Cooldown
  /\ \A a \in Addrs : g[a] >= Settle => h[a] >= Settle

\* When they do, they stay in time.
LEMMA AllInTime ==
  ASSUME NEW s, NEW n, NEW r, NEW q, NEW g, NEW h, NEW er, NEW box \in Seq(Addrs),
         InTime(s, n, r, g, er, box), NEW t, Ripens(s, t, n, r, q, g, h)
  PROVE  InTime(t, n, q, h, er, box)
<1>0. /\ \A i \in 1 .. n : /\ t[i].addr = s[i].addr /\ t[i].ieee = s[i].ieee
                           /\ t[i].configured = s[i].configured
                           /\ t[i].last <= q[s[i].ieee]
                           /\ IsRipe(s[i], g) => IsRipe(t[i], h)
      /\ \A d \in Sensors : r[d] = Cooldown => q[d] = Cooldown
      /\ \A a \in Addrs : g[a] >= Settle => h[a] >= Settle
  BY DEF Ripens
<1>1. ASSUME NEW k \in DOMAIN box
      PROVE  MayWait(box[k], t, n, h, er)
  <2>1. MayWait(box[k], s, n, g, er) /\ box[k] \in Addrs
    BY <1>0 DEF InTime
  <2>2. CASE \E j \in 1 .. n : s[j].ieee = OwnerOf[box[k]] /\ s[j].configured
    BY <1>0, <2>2 DEF MayWait
  <2>3. CASE g[box[k]] >= Settle \/ OwnerOf[box[k]] \in er
    BY <1>0, <2>1, <2>3 DEF MayWait
  <2>4. QED
    BY <2>1, <2>2, <2>3 DEF MayWait
<1>2. \A i \in 1 .. n : t[i].configured \/ t[i].ieee \in er \/ IsRipe(t[i], h)
  BY <1>0 DEF InTime
<1>3. \A i \in 1 .. n : t[i].ieee = OwnerOf[t[i].addr] /\ t[i].last <= q[t[i].ieee]
  BY <1>0 DEF InTime
<1>4. \A i, j \in 1 .. n : i # j => t[i].ieee # t[j].ieee
  BY <1>0 DEF InTime
<1>5. \A d \in Sensors : (\A i \in 1 .. n : t[i].ieee # d) => q[d] = Cooldown
  BY <1>0 DEF InTime
<1>6. QED
  BY <1>1, <1>2, <1>3, <1>4, <1>5 DEF InTime

\* The poll thread posts the sensors of devices.txt.
LEMMA PostAtStartKeeps ==
  ASSUME PresenceIInv, PostAtStart
  PROVE  PresenceIInv'
<1> DEFINE as == AddrsIn(1 .. num)
<1>1. /\ started' = TRUE /\ Post(as)
      /\ early' = early \cup {OwnerOf[slots[i].addr] : i \in 1 .. num}
      /\ UNCHANGED <<address, used, cached, asked, slots, num, setting, failures, discoveries, orders,
                     anonymous, accepted, age, rest>>
  BY DEF PostAtStart, deviceVars, ieeeVars, counters
<1>2. as \in Seq(Addrs) /\ \A k \in DOMAIN as : \E i \in 1 .. num : as[k] = slots[i].addr
  BY PresenceFacts, AddrsOfEntries
<1> HIDE DEF as
<1>3. inbox' \in Seq(Addrs)
  BY <1>1, <1>2, PresenceFacts, PostedIsEither
<1>4. early \subseteq early' /\ early' \subseteq Sensors /\ \A i \in 1 .. num : OwnerOf[slots[i].addr] \in early'
  BY <1>1, PresenceFacts
<1>5. TypeOK'
  BY <1>1, <1>3, <1>4 DEF PresenceIInv, TypeOK
<1>6. ASSUME ~anonymous
      PROVE  InTime(slots, num, rest, age, early', inbox')
  <2>1. InTime(slots, num, rest, age, early', inbox)
    BY <1>4, <1>6, EarlyInTime DEF PresenceIInv
  <2>2. \A l \in DOMAIN as : MayWait(as[l], slots, num, age, early')
    BY <1>2, <1>4 DEF MayWait
  <2>3. QED
    BY <1>1, <1>2, <2>1, <2>2, PresenceFacts, PostedInTime
<1>7. QED
  BY <1>1, <1>5, <1>6 DEF PresenceIInv

\* What is unconfigured and not waiting for its schedule had its time.
LEMMA RetriesMayWait ==
  ASSUME PresenceIInv, ~anonymous, NEW i \in 1 .. num, ~slots[i].configured,
         slots[i].sched \in {None, 0}
  PROVE  MayWait(slots[i].addr, slots, num, age, early)
<1>1. /\ slots[i].ieee = OwnerOf[slots[i].addr]
      /\ slots[i].ieee \in early \/ IsRipe(slots[i], age)
  BY DEF PresenceIInv, InTime
<1>2. age[slots[i].addr] \in 0 .. Settle /\ Settle \in Nat
  BY PresenceFacts, PresenceConstants
<1>3. IsRipe(slots[i], age) => age[slots[i].addr] >= Settle
  BY <1>2 DEF IsRipe
<1>4. QED
  BY <1>1, <1>3 DEF MayWait

\* The poll thread posts what is due.
LEMMA PollDelayedKeeps ==
  ASSUME PresenceIInv, PollDelayed
  PROVE  PresenceIInv'
<1> DEFINE due == {i \in 1 .. num : MayRetry(slots[i]) /\ slots[i].sched = 0}
           as == AddrsIn(due)
<1>1. /\ Post(as)
      /\ slots' = [i \in DOMAIN slots |->
                     IF i \in due THEN [slots[i] EXCEPT !.sched = None] ELSE slots[i]]
      /\ UNCHANGED <<address, used, cached, asked, num, setting, started, failures, discoveries, orders,
                     anonymous, accepted, early, age, rest>>
  BY DEF PollDelayed, deviceVars, ieeeVars, counters, history
<1>2. due \in SUBSET (1 .. num) /\ \A i \in due : ~slots[i].configured /\ slots[i].sched = 0
  BY DEF MayRetry
<1> HIDE DEF due
<1>3. as \in Seq(Addrs) /\ \A k \in DOMAIN as : \E i \in due : as[k] = slots[i].addr
  BY <1>2, PresenceFacts, AddrsOfEntries
<1> HIDE DEF as
<1>4. inbox' \in Seq(Addrs)
  BY <1>1, <1>3, PresenceFacts, PostedIsEither
<1>5. ASSUME NEW i \in 1 .. Capacity
      PROVE  /\ slots'[i] \in Slot /\ slots'[i].addr = slots[i].addr
             /\ slots'[i].ieee = slots[i].ieee /\ slots'[i].configured = slots[i].configured
             /\ slots'[i].retries = slots[i].retries /\ slots'[i].last = slots[i].last
             /\ i \notin due => slots'[i] = slots[i]
             /\ i \in due => slots'[i].sched = None
  <2>1. slots[i] \in Slot /\ slots'[i] = IF i \in due THEN [slots[i] EXCEPT !.sched = None] ELSE slots[i]
    BY <1>1, PresenceFacts
  <2>2. CASE i \in due
    <3>1. PICK x : x = [slots[i] EXCEPT !.sched = None] /\ slots'[i] = x
      BY <2>1, <2>2
    <3>2. QED
      BY <2>1, <2>2, <3>1 DEF Slot
  <2>3. CASE i \notin due
    BY <2>1, <2>3
  <2>4. QED
    BY <2>2, <2>3
<1>6. slots' \in [1 .. Capacity -> Slot]
  <2>1. slots' = [i \in 1 .. Capacity |-> slots'[i]]
    BY <1>1, PresenceFacts
  <2>2. QED
    BY <1>5, <2>1
<1>7. SoundTable(slots', num, accepted, failures)
  BY <1>5, <1>6, PresenceFacts DEF PresenceIInv, SoundTable
<1>8. TypeOK'
  BY <1>1, <1>4, <1>6 DEF PresenceIInv, TypeOK
<1>9. ASSUME ~anonymous
      PROVE  InTime(slots', num, rest, age, early, inbox')
  <2>1. InTime(slots, num, rest, age, early, inbox)
    BY <1>9 DEF PresenceIInv
  <2>2. ASSUME NEW i \in 1 .. num
        PROVE  /\ slots'[i].last <= rest[slots[i].ieee]
               /\ IsRipe(slots[i], age) => IsRipe(slots'[i], age)
    <3>1. slots'[i].last <= rest[slots[i].ieee]
      BY <1>5, <2>1, PresenceFacts DEF InTime
    <3>2. age[slots[i].addr] \in 0 .. Settle /\ Settle \in Nat
      BY PresenceFacts, PresenceConstants
    <3>3. IsRipe(slots[i], age) => IsRipe(slots'[i], age)
      <4>1. CASE i \in due
        <5>1. slots[i].sched = 0 /\ slots'[i].sched = None /\ slots'[i].addr = slots[i].addr
          BY <1>2, <1>5, <4>1, PresenceFacts
        <5>2. IsRipe(slots[i], age) => age[slots[i].addr] >= Settle
          BY <3>2, <5>1 DEF IsRipe
        <5>3. QED
          BY <5>1, <5>2 DEF IsRipe
      <4>2. CASE i \notin due
        BY <1>5, <4>2, PresenceFacts
      <4>3. QED
        BY <4>1, <4>2
    <3>4. QED
      BY <3>1, <3>3
  <2>3. InTime(slots', num, rest, age, early, inbox)
    <3>1. \A i \in 1 .. num : /\ slots'[i].addr = slots[i].addr /\ slots'[i].ieee = slots[i].ieee
                              /\ slots'[i].configured = slots[i].configured
                              /\ slots'[i].last <= rest[slots[i].ieee]
                              /\ IsRipe(slots[i], age) => IsRipe(slots'[i], age)
      BY <1>5, <2>2, PresenceFacts
    <3>2. Ripens(slots, slots', num, rest, rest, age, age)
      BY <3>1 DEF Ripens
    <3>3. QED
      BY <2>1, <3>2, PresenceFacts, AllInTime
  <2>4. ASSUME NEW l \in DOMAIN as
        PROVE  MayWait(as[l], slots', num, age, early)
    <3>1. PICK i \in due : as[l] = slots[i].addr
      BY <1>3
    <3>2. MayWait(as[l], slots, num, age, early)
      BY <1>2, <1>9, <3>1, RetriesMayWait
    <3>3. QED
      BY <1>5, <3>2, PresenceFacts DEF MayWait
  <2>5. QED
    BY <1>1, <1>3, <2>3, <2>4, PresenceFacts, PostedInTime
<1>10. QED
  BY <1>1, <1>7, <1>8, <1>9 DEF PresenceIInv

\* The poll thread tries again what is not waiting for its schedule.
LEMMA PollRetryKeeps ==
  ASSUME PresenceIInv, PollRetry
  PROVE  PresenceIInv'
<1> DEFINE again == {i \in 1 .. num : MayRetry(slots[i]) /\ slots[i].sched = None}
           as == AddrsIn(again)
<1>1. /\ Post(as)
      /\ UNCHANGED <<address, used, cached, asked, slots, num, setting, started, failures, discoveries,
                     orders, anonymous, accepted, early, age, rest>>
  BY DEF PollRetry, deviceVars, ieeeVars, counters, history
<1>2. again \in SUBSET (1 .. num) /\ \A i \in again : ~slots[i].configured /\ slots[i].sched = None
  BY DEF MayRetry
<1> HIDE DEF again
<1>3. as \in Seq(Addrs) /\ \A k \in DOMAIN as : \E i \in again : as[k] = slots[i].addr
  BY <1>2, PresenceFacts, AddrsOfEntries
<1> HIDE DEF as
<1>4. inbox' \in Seq(Addrs)
  BY <1>1, <1>3, PresenceFacts, PostedIsEither
<1>5. TypeOK'
  BY <1>1, <1>4 DEF PresenceIInv, TypeOK
<1>6. ASSUME ~anonymous
      PROVE  InTime(slots, num, rest, age, early, inbox')
  <2>1. \A l \in DOMAIN as : MayWait(as[l], slots, num, age, early)
    BY <1>2, <1>3, <1>6, RetriesMayWait
  <2>2. QED
    BY <1>1, <1>3, <1>6, <2>1, PresenceFacts, PostedInTime DEF PresenceIInv
<1>7. QED
  BY <1>1, <1>5, <1>6 DEF PresenceIInv

\* A setup begins, or comes to nothing.
LEMMA BeginSetupKeeps ==
  ASSUME PresenceIInv, NEW a \in Addrs, BeginSetup(a)
  PROVE  PresenceIInv'
<1> DEFINE i == IndexOf(a)
           e == [slots[i] EXCEPT !.ieee = IF @ = None THEN Ieee(a) ELSE @]
           z == [e EXCEPT !.last = 0]
<1>1. /\ setting = None /\ inbox # <<>> /\ a = Head(inbox) /\ inbox' = Tail(inbox)
      /\ UNCHANGED <<address, used, cached, num, started, failures, discoveries, orders,
                     anonymous, accepted, early, age>>
  BY DEF BeginSetup, deviceVars, counters
<1>2. inbox' \in Seq(Addrs) /\ \A k \in DOMAIN inbox' : k + 1 \in DOMAIN inbox /\ inbox'[k] = inbox[k + 1]
  <2>1. inbox \in Seq(Addrs) /\ inbox # <<>> /\ inbox' = Tail(inbox)
    BY <1>1, PresenceFacts
  <2>2. QED
    BY <2>1
<1>3. \/ UNCHANGED <<slots, setting, rest>> /\ asked' \in {asked, asked \cup {a}}
      \/ /\ i # 0 /\ UNCHANGED asked
         /\ \/ slots' = [slots EXCEPT ![i] = e] /\ UNCHANGED <<setting, rest>>
            \/ /\ slots' = [slots EXCEPT ![i] = z]
               /\ setting' = a /\ rest' = [rest EXCEPT ![OwnerOf[a]] = 0]
  BY DEF BeginSetup
<1>4. ASSUME ~anonymous
      PROVE  InTime(slots, num, rest, age, early, inbox')
  BY <1>2, <1>4 DEF PresenceIInv, InTime
<1>5. CASE UNCHANGED <<slots, setting, rest>> /\ asked' \in {asked, asked \cup {a}}
  <2>1. TypeOK'
    BY <1>1, <1>2, <1>5 DEF PresenceIInv, TypeOK
  <2>2. QED
    BY <1>1, <1>4, <1>5, <2>1 DEF PresenceIInv
<1>6. CASE /\ i # 0 /\ UNCHANGED asked
           /\ \/ slots' = [slots EXCEPT ![i] = e] /\ UNCHANGED <<setting, rest>>
              \/ /\ slots' = [slots EXCEPT ![i] = z]
                 /\ setting' = a /\ rest' = [rest EXCEPT ![OwnerOf[a]] = 0]
  <2> DEFINE d == OwnerOf[a]
             f == IF slots[i].ieee = None THEN Ieee(a) ELSE slots[i].ieee
  <2>1. i \in 1 .. num /\ slots[i].addr = a
    BY <1>6, PresenceFacts, EntryIsFound
  <2>2. e = [slots[i] EXCEPT !.ieee = f]
    OBVIOUS
  <2> HIDE DEF i
  <2>3. /\ i \in 1 .. Capacity /\ slots[i] \in Slot /\ slots[i].ieee \in {None, d} /\ d \in Sensors
        /\ slots[i].retries <= failures /\ (slots[i].configured => d \in accepted)
        /\ f \in {None, d} /\ (slots[i].ieee = d => f = d)
    BY <2>1, PresenceFacts
  <2> HIDE DEF f, e
  <2>4. /\ e \in Slot /\ e.addr = a /\ e.ieee = f /\ e.retries = slots[i].retries
        /\ e.last = slots[i].last /\ e.sched = slots[i].sched
        /\ (e.configured => slots[i].configured) /\ (slots[i].configured => e.configured)
    BY <2>1, <2>2, <2>3 DEF Slot
  <2>5. /\ z \in Slot /\ z.addr = a /\ z.ieee = f /\ z.retries = slots[i].retries
        /\ z.last = 0 /\ z.sched = slots[i].sched
        /\ (z.configured => slots[i].configured) /\ (slots[i].configured => z.configured)
    BY <2>4, PresenceConstants DEF Slot
  <2>6. PICK x \in {e, z} : /\ slots' = [slots EXCEPT ![i] = x]
                            /\ \/ x = e /\ rest' = rest /\ setting' = setting
                               \/ x = z /\ rest' = [rest EXCEPT ![d] = 0] /\ setting' = a
    BY <1>6
  <2> HIDE DEF z
  <2>7. /\ x \in Slot /\ x.addr = a /\ x.ieee = f /\ x.retries = slots[i].retries
        /\ x.sched = slots[i].sched
        /\ (x.configured => slots[i].configured) /\ (slots[i].configured => x.configured)
    BY <2>4, <2>5
  <2>8. rest' \in [Sensors -> 0 .. Cooldown] /\ \A c \in Sensors : c # d => rest'[c] = rest[c]
    <3>1. rest \in [Sensors -> 0 .. Cooldown] /\ 0 \in 0 .. Cooldown
      BY PresenceFacts, PresenceConstants
    <3>2. CASE rest' = rest
      BY <3>1, <3>2
    <3>3. CASE rest' = [rest EXCEPT ![d] = 0]
      BY <2>3, <3>1, <3>3
    <3>4. QED
      BY <2>6, <3>2, <3>3
  <2>9. SoundTable(slots', num, accepted, failures)
    <3>1. SoundTable(slots, num, accepted, failures) /\ failures \in Nat /\ failures <= failures
      BY PresenceFacts DEF PresenceIInv
    <3>2. x.addr \in Addrs /\ x.ieee \in {None, OwnerOf[x.addr]} /\ x.retries <= failures
          /\ (x.configured => OwnerOf[x.addr] \in accepted)
      BY <2>3, <2>7
    <3>3. SoundTable([slots EXCEPT ![i] = x], num, accepted, failures)
      BY <2>1, <2>7, <3>1, <3>2, UpdatedEntry
    <3>4. QED
      BY <2>6, <3>3
  <2>10. TypeOK'
    <3>1. slots' \in [1 .. Capacity -> Slot]
      BY <2>9 DEF SoundTable
    <3>2. setting' \in Addrs \cup {None}
      BY <1>1, <2>6
    <3>3. QED
      BY <1>1, <1>2, <1>6, <2>8, <3>1, <3>2 DEF PresenceIInv, TypeOK
  <2>11. ASSUME ~anonymous
         PROVE  InTime(slots', num, rest', age, early, inbox')
    <3>1. InTime(slots, num, rest, age, early, inbox')
      BY <1>4, <2>11
    <3>2. /\ \A j \in 1 .. num : slots[j].ieee = OwnerOf[slots[j].addr]
          /\ \A j \in 1 .. num : slots[j].last <= rest[slots[j].ieee]
          /\ \A j \in 1 .. num : slots[j].configured \/ slots[j].ieee \in early \/ IsRipe(slots[j], age)
      BY <3>1 DEF InTime
    <3>3. \A j \in 1 .. num : slots[j].ieee \in Sensors
      BY <3>2, PresenceFacts
    <3>4. x.ieee = slots[i].ieee /\ x.ieee = OwnerOf[x.addr] /\ x.ieee = d
      BY <2>1, <2>3, <2>7, <3>2
    <3>5. x.last <= rest'[x.ieee]
      <4>1. CASE x = e /\ rest' = rest
        BY <2>1, <2>4, <3>2, <3>4, <4>1
      <4>2. CASE x = z /\ rest' = [rest EXCEPT ![d] = 0]
        <5>1. rest'[d] = 0 /\ x.last = 0
          BY <2>3, <2>5, <4>2, PresenceFacts
        <5>2. QED
          BY <3>4, <5>1
      <4>3. QED
        BY <2>6, <4>1, <4>2
    <3>6. x.configured \/ x.ieee \in early \/ IsRipe(x, age)
      BY <2>1, <2>7, <3>2, <3>4 DEF IsRipe
    <3>7. InTime([slots EXCEPT ![i] = x], num, rest', age, early, inbox')
      <4>1. num \in Nat /\ num <= Capacity /\ slots \in [1 .. Capacity -> Slot]
            /\ early \subseteq early
        BY PresenceFacts
      <4>2. slots[i].configured => x.configured \/ x.ieee \in early
        BY <2>7
      <4>3. \A c \in Sensors : c # x.ieee => rest'[c] = rest[c]
        BY <2>8, <3>4
      <4>4. QED
        BY <2>1, <3>1, <3>3, <3>4, <3>5, <3>6, <4>1, <4>2, <4>3, UpdatedInTime
    <3>8. QED
      BY <2>6, <3>7
  <2>12. QED
    BY <1>1, <2>9, <2>10, <2>11 DEF PresenceIInv
<1>7. QED
  BY <1>3, <1>5, <1>6

\* A setup ends, one way or the other.
LEMMA SetupEndKeeps ==
  ASSUME PresenceIInv, SetupSucceeds \/ SetupFails
  PROVE  PresenceIInv'
<1> DEFINE i == IndexOf(setting)
           d == OwnerOf[setting]
           y == [slots[i] EXCEPT !.configured = TRUE, !.retries = 0]
           z == [slots[i] EXCEPT !.retries = @ + 1]
<1>1. /\ setting # None /\ setting' = None
      /\ UNCHANGED <<address, used, cached, asked, num, inbox, started, discoveries, orders,
                     anonymous, early, age, rest>>
  BY DEF SetupSucceeds, SetupFails, SetupDone, deviceVars, ieeeVars
<1>2. \/ /\ slots' = IF i = 0 THEN slots ELSE [slots EXCEPT ![i] = y]
         /\ accepted' = accepted \cup {d} /\ failures' = failures
      \/ /\ slots' = IF i # 0 THEN [slots EXCEPT ![i] = z] ELSE slots
         /\ accepted' = accepted /\ failures < MaxFailures /\ failures' = failures + 1
  <2>1. ASSUME SetupSucceeds
        PROVE  /\ slots' = IF i = 0 THEN slots ELSE [slots EXCEPT ![i] = y]
               /\ accepted' = accepted \cup {d} /\ failures' = failures
    BY <2>1 DEF SetupSucceeds
  <2>2. ASSUME SetupFails
        PROVE  /\ slots' = IF i # 0 THEN [slots EXCEPT ![i] = z] ELSE slots
               /\ accepted' = accepted /\ failures < MaxFailures /\ failures' = failures + 1
    <3>1. i # 0 => [slots EXCEPT ![i].retries = @ + 1] = [slots EXCEPT ![i] = z]
      <4>1. i # 0 => i \in 1 .. Capacity
        BY PresenceFacts, EntryIsFound
      <4> HIDE DEF i
      <4>2. QED
        BY <4>1, PresenceFacts
    <3>2. slots' = IF i # 0 THEN [slots EXCEPT ![i].retries = @ + 1] ELSE slots
      BY <2>2 DEF SetupFails, Registered
    <3> HIDE DEF i, z
    <3>3. QED
      BY <2>2, <3>1, <3>2 DEF SetupFails
  <2>3. QED
    BY <2>1, <2>2
<1>3. /\ setting \in Addrs /\ d \in Sensors /\ accepted \subseteq accepted'
      /\ accepted' \subseteq Sensors /\ failures \in Nat
  BY <1>1, <1>2, PresenceFacts DEF PresenceIInv, TypeOK
<1>4. failures' \in 0 .. MaxFailures /\ failures' \in Nat /\ failures <= failures'
  <2>1. failures \in 0 .. MaxFailures /\ MaxFailures \in Nat
    BY PresenceConstants DEF PresenceIInv, TypeOK
  <2>2. failures' = failures \/ (failures < MaxFailures /\ failures' = failures + 1)
    BY <1>2
  <2>3. QED
    BY <2>1, <2>2
<1>5. SoundTable(slots, num, accepted', failures')
  <2>1. \A j \in 1 .. Capacity : slots[j].retries \in Nat /\ slots[j].retries <= failures
    <3>1. \A j \in 1 .. Capacity : slots[j].retries \in 0 .. MaxFailures
      BY PresenceFacts DEF Slot
    <3>2. QED
      BY <3>1, PresenceConstants DEF PresenceIInv, SoundTable
  <2>2. \A j \in 1 .. Capacity : slots[j].retries <= failures'
    BY <1>3, <1>4, <2>1
  <2>3. QED
    BY <1>3, <2>2, PresenceFacts DEF PresenceIInv, SoundTable
<1>6. CASE slots' = slots
  <2>1. TypeOK'
    BY <1>1, <1>3, <1>4, <1>6 DEF PresenceIInv, TypeOK
  <2>2. QED
    BY <1>1, <1>5, <1>6, <2>1 DEF PresenceIInv
<1>7. CASE i # 0
  <2>1. i \in 1 .. num /\ slots[i].addr = setting
    BY <1>7, PresenceFacts, EntryIsFound
  <2> HIDE DEF i
  <2>2. /\ i \in 1 .. Capacity /\ slots[i] \in Slot /\ slots[i].ieee \in {None, d}
        /\ slots[i].retries \in 0 .. MaxFailures /\ slots[i].retries <= failures
        /\ (slots[i].configured => d \in accepted)
    BY <2>1, PresenceFacts DEF Slot
  <2>3. \/ slots' = [slots EXCEPT ![i] = y] /\ d \in accepted' /\ failures' = failures
        \/ slots' = [slots EXCEPT ![i] = z] /\ failures' = failures + 1
    <3> HIDE DEF y, z, d
    <3>1. QED
      BY <1>2, <1>7
  <2>4. /\ y \in Slot /\ y.addr = setting /\ y.ieee = slots[i].ieee /\ y.retries = 0
        /\ y.last = slots[i].last /\ y.sched = slots[i].sched /\ y.configured
    <3>1. PICK x : x = [slots[i] EXCEPT !.configured = TRUE, !.retries = 0] /\ x = y
      OBVIOUS
    <3> HIDE DEF y
    <3>2. /\ x.addr = setting /\ x.ieee = slots[i].ieee /\ x.retries = 0
          /\ x.last = slots[i].last /\ x.sched = slots[i].sched /\ x.configured = TRUE
      BY <2>1, <2>2, <3>1 DEF Slot
    <3>3. x \in Slot
      <4>1. /\ slots[i].addr \in Addrs \cup {None} /\ slots[i].ieee \in Sensors \cup {None}
            /\ slots[i].last \in 0 .. Cooldown /\ slots[i].sched \in 0 .. Settle \cup {None}
        BY <2>2 DEF Slot
      <4>2. 0 \in 0 .. MaxFailures
        BY PresenceConstants
      <4>3. PICK b \in BOOLEAN : b = TRUE /\ x = [slots[i] EXCEPT !.configured = b, !.retries = 0]
        BY <3>1
      <4>4. x = [addr |-> slots[i].addr, ieee |-> slots[i].ieee, configured |-> b,
                 retries |-> 0, last |-> slots[i].last, sched |-> slots[i].sched]
        BY <2>2, <4>3 DEF Slot
      <4>5. QED
        BY <4>1, <4>2, <4>4 DEF Slot
    <3>4. QED
      BY <3>1, <3>2, <3>3
  <2>5. ASSUME failures' = failures + 1
        PROVE  /\ z \in Slot /\ z.addr = setting /\ z.ieee = slots[i].ieee
               /\ z.retries <= failures'
               /\ z.last = slots[i].last /\ z.sched = slots[i].sched
               /\ (z.configured => slots[i].configured) /\ (slots[i].configured => z.configured)
    <3>1. slots[i].retries + 1 \in 0 .. MaxFailures /\ slots[i].retries + 1 <= failures'
      BY <1>3, <1>4, <2>2, <2>5, PresenceConstants
    <3>2. PICK x : x = [slots[i] EXCEPT !.retries = slots[i].retries + 1] /\ x = z
      OBVIOUS
    <3> HIDE DEF z
    <3>3. /\ x \in Slot /\ x.addr = setting /\ x.ieee = slots[i].ieee
          /\ x.retries = slots[i].retries + 1
          /\ x.last = slots[i].last /\ x.sched = slots[i].sched
          /\ (x.configured => slots[i].configured) /\ (slots[i].configured => x.configured)
      BY <2>1, <2>2, <3>1, <3>2 DEF Slot
    <3>4. QED
      BY <3>1, <3>2, <3>3
  <2> HIDE DEF y, z
  <2>6. PICK x : /\ slots' = [slots EXCEPT ![i] = x] /\ x \in Slot /\ x.addr = setting
                 /\ x.ieee = slots[i].ieee /\ x.last = slots[i].last /\ x.sched = slots[i].sched
                 /\ x.retries <= failures' /\ (slots[i].configured => x.configured)
                 /\ (x.configured => slots[i].configured \/ d \in accepted')
    BY <1>3, <1>4, <2>3, <2>4, <2>5
  <2>7. SoundTable(slots', num, accepted', failures')
    <3>1. x.addr \in Addrs /\ x.ieee \in {None, OwnerOf[x.addr]}
          /\ (x.configured => OwnerOf[x.addr] \in accepted')
      BY <1>3, <2>2, <2>6
    <3>2. failures' <= failures'
      BY <1>4
    <3>3. SoundTable([slots EXCEPT ![i] = x], num, accepted', failures')
      BY <1>4, <1>5, <2>1, <2>6, <3>1, <3>2, UpdatedEntry
    <3>4. QED
      BY <2>6, <3>3
  <2>8. TypeOK'
    <3>1. slots' \in [1 .. Capacity -> Slot]
      BY <2>7 DEF SoundTable
    <3>2. QED
      BY <1>1, <1>3, <1>4, <3>1 DEF PresenceIInv, TypeOK
  <2>9. ASSUME ~anonymous
        PROVE  InTime(slots', num, rest, age, early, inbox)
    <3>1. InTime(slots, num, rest, age, early, inbox)
      BY <2>9 DEF PresenceIInv
    <3>2. /\ \A j \in 1 .. num : slots[j].ieee = OwnerOf[slots[j].addr]
          /\ \A j \in 1 .. num : slots[j].last <= rest[slots[j].ieee]
          /\ \A j \in 1 .. num : slots[j].configured \/ slots[j].ieee \in early \/ IsRipe(slots[j], age)
      BY <3>1 DEF InTime
    <3>3. \A j \in 1 .. num : slots[j].ieee \in Sensors
      BY <3>2, PresenceFacts
    <3>4. x.ieee = OwnerOf[x.addr] /\ x.last <= rest[x.ieee]
      BY <2>1, <2>6, <3>2
    <3>5. x.configured \/ x.ieee \in early \/ IsRipe(x, age)
      BY <2>1, <2>6, <3>2 DEF IsRipe
    <3>6. InTime([slots EXCEPT ![i] = x], num, rest, age, early, inbox)
      BY <2>1, <2>6, <3>1, <3>3, <3>4, <3>5, PresenceFacts, UpdatedInTime
    <3>7. QED
      BY <2>6, <3>6
  <2>10. QED
    BY <1>1, <2>7, <2>8, <2>9 DEF PresenceIInv
<1>8. QED
  <2> HIDE DEF i, y, z, d
  <2>1. QED
    BY <1>2, <1>6, <1>7

\* An entry as time passes.
LEMMA EntryAges ==
  ASSUME NEW e \in Slot
  PROVE  LET x == [e EXCEPT !.last = IF @ < Cooldown THEN @ + 1 ELSE @,
                            !.sched = IF @ \in {None, 0} THEN @ ELSE @ - 1]
         IN /\ x \in Slot /\ x.addr = e.addr /\ x.ieee = e.ieee
            /\ x.configured = e.configured /\ x.retries = e.retries
            /\ x.last = IF e.last < Cooldown THEN e.last + 1 ELSE e.last
            /\ x.sched = IF e.sched \in {None, 0} THEN e.sched ELSE e.sched - 1
<1> DEFINE l == IF e.last < Cooldown THEN e.last + 1 ELSE e.last
           t == IF e.sched \in {None, 0} THEN e.sched ELSE e.sched - 1
<1>1. /\ e.addr \in Addrs \cup {None} /\ e.ieee \in Sensors \cup {None} /\ e.configured \in BOOLEAN
      /\ e.retries \in 0 .. MaxFailures /\ e.last \in 0 .. Cooldown
      /\ e.sched \in 0 .. Settle \cup {None}
  BY DEF Slot
<1>2. l \in 0 .. Cooldown
  BY <1>1, PresenceConstants
<1>3. t \in 0 .. Settle \cup {None}
  <2>1. CASE e.sched \in {None, 0}
    BY <1>1, <2>1
  <2>2. CASE e.sched \notin {None, 0}
    <3>1. e.sched \in 0 .. Settle /\ e.sched # 0 /\ t = e.sched - 1
      BY <1>1, <2>2
    <3>2. QED
      BY <3>1, PresenceConstants
  <2>3. QED
    BY <2>1, <2>2
<1>4. PICK x : x = [e EXCEPT !.last = IF @ < Cooldown THEN @ + 1 ELSE @,
                             !.sched = IF @ \in {None, 0} THEN @ ELSE @ - 1]
  OBVIOUS
<1>5. x = [e EXCEPT !.last = l, !.sched = t]
  BY <1>4
<1> HIDE DEF l, t
<1>6. x = [addr |-> e.addr, ieee |-> e.ieee, configured |-> e.configured,
           retries |-> e.retries, last |-> l, sched |-> t]
  BY <1>5 DEF Slot
<1>7. x \in Slot
  BY <1>1, <1>2, <1>3, <1>6 DEF Slot
<1>8. QED
  BY <1>4, <1>6, <1>7 DEF l, t

\* Time passes: the last setup of a sensor recedes as that of its entry does, and the
\* schedule of an entry nears as its address ages.
LEMMA TickKeeps ==
  ASSUME PresenceIInv, Tick
  PROVE  PresenceIInv'
<1>1. /\ slots' = [i \in DOMAIN slots |->
                    [slots[i] EXCEPT !.last = IF @ < Cooldown THEN @ + 1 ELSE @,
                                     !.sched = IF @ \in {None, 0} THEN @ ELSE @ - 1]]
      /\ rest' = [s \in Sensors |-> IF rest[s] < Cooldown THEN rest[s] + 1 ELSE rest[s]]
      /\ age' = [a \in Addrs |-> IF Registered(a) /\ age[a] < Settle THEN age[a] + 1 ELSE age[a]]
      /\ UNCHANGED <<address, used, cached, asked, num, inbox, setting, started, failures,
                     discoveries, orders, anonymous, accepted, early>>
  BY DEF Tick, deviceVars, ieeeVars, counters
<1>2. ASSUME NEW i \in 1 .. Capacity
      PROVE  /\ slots'[i] \in Slot /\ slots'[i].addr = slots[i].addr
             /\ slots'[i].ieee = slots[i].ieee /\ slots'[i].configured = slots[i].configured
             /\ slots'[i].retries = slots[i].retries
             /\ slots'[i].last = (IF slots[i].last < Cooldown THEN slots[i].last + 1 ELSE slots[i].last)
             /\ slots'[i].sched = IF slots[i].sched \in {None, 0} THEN slots[i].sched
                                  ELSE slots[i].sched - 1
  <2>1. /\ slots[i] \in Slot
        /\ slots'[i] = [slots[i] EXCEPT !.last = IF @ < Cooldown THEN @ + 1 ELSE @,
                                        !.sched = IF @ \in {None, 0} THEN @ ELSE @ - 1]
    BY <1>1, PresenceFacts
  <2>2. QED
    BY <2>1, EntryAges
<1>3. slots' \in [1 .. Capacity -> Slot]
  <2>1. slots' = [i \in 1 .. Capacity |-> slots'[i]]
    BY <1>1, PresenceFacts
  <2>2. QED
    BY <1>2, <2>1
<1>4. SoundTable(slots', num, accepted, failures)
  BY <1>2, <1>3, PresenceFacts DEF PresenceIInv, SoundTable
<1>5. rest' \in [Sensors -> 0 .. Cooldown] /\ age' \in [Addrs -> 0 .. Settle]
  <2>1. \A s \in Sensors : rest[s] \in 0 .. Cooldown
    BY PresenceFacts
  <2>2. \A a \in Addrs : age[a] \in 0 .. Settle
    BY PresenceFacts
  <2>3. ASSUME NEW s \in Sensors
        PROVE  (IF rest[s] < Cooldown THEN rest[s] + 1 ELSE rest[s]) \in 0 .. Cooldown
    BY <2>1, PresenceConstants
  <2>4. ASSUME NEW a \in Addrs
        PROVE  (IF Registered(a) /\ age[a] < Settle THEN age[a] + 1 ELSE age[a]) \in 0 .. Settle
    BY <2>2, PresenceConstants
  <2>5. rest' \in [Sensors -> 0 .. Cooldown]
    BY <1>1, <2>3
  <2>6. age' \in [Addrs -> 0 .. Settle]
    BY <1>1, <2>4
  <2>7. QED
    BY <2>5, <2>6
<1>6. TypeOK'
  BY <1>1, <1>3, <1>5 DEF PresenceIInv, TypeOK
<1>7. ASSUME ~anonymous
      PROVE  InTime(slots', num, rest', age', early, inbox)
  <2>1. InTime(slots, num, rest, age, early, inbox)
    BY <1>7 DEF PresenceIInv
  <2>2. ASSUME NEW i \in 1 .. num
        PROVE  /\ slots'[i].last <= rest'[slots[i].ieee]
               /\ IsRipe(slots[i], age) => IsRipe(slots'[i], age')
    <3> DEFINE a == slots[i].addr
               d == slots[i].ieee
    <3>1. /\ i \in 1 .. Capacity /\ slots[i] \in Slot /\ a \in Addrs /\ d = OwnerOf[a] /\ d \in Sensors
          /\ slots[i].last <= rest[d]
      BY <2>1, PresenceFacts DEF InTime
    <3>2. slots'[i].last <= rest'[d]
      <4>1. slots[i].last \in 0 .. Cooldown /\ rest[d] \in 0 .. Cooldown
        BY <3>1, PresenceFacts DEF Slot
      <4>2. /\ slots'[i].last = IF slots[i].last < Cooldown THEN slots[i].last + 1 ELSE slots[i].last
            /\ rest'[d] = IF rest[d] < Cooldown THEN rest[d] + 1 ELSE rest[d]
        BY <1>1, <1>2, <3>1
      <4>3. QED
        BY <3>1, <4>1, <4>2, PresenceConstants
    <3>3. age'[a] = IF age[a] < Settle THEN age[a] + 1 ELSE age[a]
      <4>1. Registered(a)
        BY EntryIsFound, PresenceFacts DEF Registered
      <4>2. QED
        BY <1>1, <3>1, <4>1
    <3>4. age[a] \in 0 .. Settle
      BY <3>1, PresenceFacts
    <3>5. ASSUME IsRipe(slots[i], age)
          PROVE  IsRipe(slots'[i], age')
      <4>1. slots'[i].addr = a
        BY <1>2, <3>1
      <4>2. CASE slots[i].sched = None
        <5>1. slots'[i].sched = None /\ age[a] >= Settle
          BY <1>2, <3>1, <3>5, <4>2 DEF IsRipe
        <5>2. QED
          BY <3>3, <3>4, <4>1, <5>1, PresenceConstants DEF IsRipe
      <4>3. CASE slots[i].sched # None
        <5>1. slots[i].sched \in 0 .. Settle /\ slots[i].sched + age[a] >= Settle
          BY <3>1, <3>5, <4>3 DEF IsRipe, Slot
        <5>2. slots'[i].sched = IF slots[i].sched = 0 THEN 0 ELSE slots[i].sched - 1
          BY <1>2, <3>1, <4>3
        <5>3. slots'[i].sched \in 0 .. Settle /\ slots'[i].sched + age'[a] >= Settle
          BY <3>3, <3>4, <5>1, <5>2, PresenceConstants
        <5>4. slots'[i].sched # None
          BY <5>3, PresenceConstants
        <5>5. QED
          BY <4>1, <5>3, <5>4 DEF IsRipe
      <4>4. QED
        BY <4>2, <4>3
    <3>6. QED
      BY <3>2, <3>5
  <2>3. /\ \A i \in 1 .. num : /\ slots'[i].addr = slots[i].addr /\ slots'[i].ieee = slots[i].ieee
                               /\ slots'[i].configured = slots[i].configured
                               /\ slots'[i].last <= rest'[slots[i].ieee]
                               /\ IsRipe(slots[i], age) => IsRipe(slots'[i], age')
    BY <1>2, <2>2, PresenceFacts
  <2>4. \A d \in Sensors : rest[d] = Cooldown => rest'[d] = Cooldown
    <3>1. ASSUME NEW d \in Sensors, rest[d] = Cooldown
          PROVE  rest'[d] = Cooldown
      <4>1. rest'[d] = IF rest[d] < Cooldown THEN rest[d] + 1 ELSE rest[d]
        BY <1>1
      <4>2. QED
        BY <3>1, <4>1, PresenceConstants
    <3>2. QED
      BY <3>1
  <2>5. \A a \in Addrs : age[a] >= Settle => age'[a] >= Settle
    <3>1. ASSUME NEW a \in Addrs, age[a] >= Settle
          PROVE  age'[a] >= Settle
      <4>1. age'[a] = IF Registered(a) /\ age[a] < Settle THEN age[a] + 1 ELSE age[a]
        BY <1>1
      <4>2. age[a] \in 0 .. Settle
        BY PresenceFacts
      <4>3. QED
        BY <3>1, <4>1, <4>2, PresenceConstants
    <3>2. QED
      BY <3>1
  <2>6. inbox \in Seq(Addrs)
    BY PresenceFacts
  <2>7. Ripens(slots, slots', num, rest, rest', age, age')
    BY <2>3, <2>4, <2>5 DEF Ripens
  <2>8. QED
    BY <2>1, <2>6, <2>7, AllInTime
<1>8. QED
  BY <1>1, <1>4, <1>6, <1>7 DEF PresenceIInv

\* Every step keeps the invariant.
LEMMA PresenceStep ==
  ASSUME PresenceIInv, [Next]_vars
  PROVE  PresenceIInv'
<1>1. ASSUME NEW a \in Addrs, Join(a)
      PROVE  PresenceIInv'
  <2>1. /\ used' = used \cup {a} /\ address' = [address EXCEPT ![OwnerOf[a]] = a]
        /\ UNCHANGED <<cached, asked, slots, num, inbox, setting, started, failures, discoveries,
                       orders, anonymous, accepted, early, age, rest>>
    BY <1>1 DEF Join, ieeeVars, counters, history
  <2>2. TypeOK'
    BY <2>1, PresenceConstants DEF PresenceIInv, TypeOK
  <2>3. QED
    BY <2>1, <2>2, QuietStep
<1>2. ASSUME NEW a \in Addrs, LoseAnswer(a) \/ Announce(a)
      PROVE  PresenceIInv'
  <2>1. /\ asked' \in {asked \ {a}, asked \cup {a}} /\ cached' \in {cached, cached \cup {a}}
        /\ UNCHANGED <<address, used, slots, num, inbox, setting, started, failures, discoveries,
                       orders, anonymous, accepted, early, age, rest>>
    BY <1>2 DEF LoseAnswer, Announce, deviceVars, counters, history
  <2>2. TypeOK'
    BY <2>1 DEF PresenceIInv, TypeOK
  <2>3. QED
    BY <2>1, <2>2, QuietStep
<1>3. CASE UNCHANGED vars
  <2>1. UNCHANGED <<address, used, cached, asked, slots, num, inbox, setting, started, failures,
                    discoveries, orders, anonymous, accepted, early, age, rest>>
    BY <1>3 DEF vars, deviceVars, ieeeVars, counters, history
  <2>2. TypeOK'
    BY <2>1 DEF PresenceIInv, TypeOK
  <2>3. QED
    BY <2>1, <2>2, QuietStep
<1>4. QED
  BY <1>1, <1>2, <1>3, DiscoverKeeps, IeeeRspKeeps, OrderKeeps, PostAtStartKeeps,
     PollDelayedKeeps, PollRetryKeeps, BeginSetupKeeps, SetupEndKeeps, TickKeeps DEF Next, Worker

-----------------------------------------------------------------------------
(* The theorems. *)

\* What the invariant says of the entries.
LEMMA InvariantIsSafe == PresenceIInv => SetupInv
<1> SUFFICES ASSUME PresenceIInv PROVE SetupInv
  OBVIOUS
<1>1. OneEntry
  <2>1. ASSUME ~anonymous, NEW i \in 1 .. num, NEW j \in 1 .. num, i # j
        PROVE  slots[i].addr # slots[j].addr /\ slots[i].ieee # slots[j].ieee
    BY <2>1 DEF PresenceIInv, InTime
  <2>2. QED
    BY <2>1 DEF OneEntry
<1>2. ConfiguredWasBound
  BY PresenceFacts DEF ConfiguredWasBound
<1>3. QED
  BY <1>1, <1>2 DEF SetupInv, PresenceIInv

\* However often the sensors rejoin, and in whatever order announcements, answers, posts
\* and setups come, the table has one entry for a sensor that was never registered without
\* its IEEE address, and what is configured was bound.
THEOREM SetupSafety == Spec => []SetupInv
<1>1. Init => PresenceIInv
  BY PresenceInit
<1>2. PresenceIInv /\ [Next]_vars => PresenceIInv'
  BY PresenceStep
<1>3. PresenceIInv => SetupInv
  BY InvariantIsSafe
<1>4. QED
  BY <1>1, <1>2, <1>3, PTL DEF Spec

\* A setup that starts is that of a sensor that waits, and whose entry is not configured.
LEMMA StartsInTime ==
  ASSUME PresenceIInv, NEW a \in Addrs, BeginSetup(a), setting' # None, ~anonymous
  PROVE  /\ setting' = a
         /\ age[a] >= Settle \/ OwnerOf[a] \in early
         /\ rest[OwnerOf[a]] >= Cooldown
<1> DEFINE i == IndexOf(a)
           f == IF slots[i].ieee = None THEN Ieee(a) ELSE slots[i].ieee
           e == [slots[i] EXCEPT !.ieee = IF @ = None THEN Ieee(a) ELSE @]
<1>1. /\ setting = None /\ inbox # <<>> /\ a = Head(inbox)
      /\ i # 0 /\ ~slots[i].configured /\ ~(e.last < Cooldown) /\ setting' = a
  BY DEF BeginSetup
<1>2. i \in 1 .. num /\ slots[i].addr = a
  BY <1>1, PresenceFacts, EntryIsFound
<1> HIDE DEF i
<1>3. InTime(slots, num, rest, age, early, inbox) /\ slots[i] \in Slot
  BY <1>2, PresenceFacts DEF PresenceIInv
<1>4. slots[i].ieee = OwnerOf[a] /\ slots[i].last <= rest[OwnerOf[a]]
  BY <1>2, <1>3 DEF InTime
<1>5. e.last = slots[i].last
  BY <1>3 DEF Slot
<1>6. rest[OwnerOf[a]] >= Cooldown
  <2>1. slots[i].last \in 0 .. Cooldown /\ rest[OwnerOf[a]] \in 0 .. Cooldown
    BY <1>3, PresenceFacts DEF Slot
  <2> HIDE DEF e
  <2>2. QED
    BY <1>1, <1>4, <1>5, <2>1, PresenceConstants
<1>7. MayWait(a, slots, num, age, early)
  <2>1. 1 \in DOMAIN inbox /\ inbox[1] = a
    BY <1>1, PresenceFacts
  <2>2. QED
    BY <1>3, <2>1 DEF InTime
<1>8. ~ \E j \in 1 .. num : slots[j].ieee = OwnerOf[a] /\ slots[j].configured
  BY <1>1, <1>2, <1>3, <1>4 DEF InTime
<1>9. QED
  BY <1>1, <1>6, <1>7, <1>8 DEF MayWait

\* No setup starts while the sensor is still joining, nor too soon after the last one of
\* that sensor, whatever addresses it had.
THEOREM SetupsApart == Spec => SetupsAreApart
<1>1. Init => PresenceIInv
  BY PresenceInit
<1>2. PresenceIInv /\ [Next]_vars => PresenceIInv'
  BY PresenceStep
<1>3. PresenceIInv /\ [Next]_vars =>
        [setting = None /\ setting' # None =>
           anonymous \/ (/\ age[setting'] >= Settle \/ OwnerOf[setting'] \in early
                         /\ rest[OwnerOf[setting']] >= Cooldown)]_vars
  <2> SUFFICES ASSUME PresenceIInv, [Next]_vars, setting = None, setting' # None, ~anonymous
               PROVE  /\ age[setting'] >= Settle \/ OwnerOf[setting'] \in early
                      /\ rest[OwnerOf[setting']] >= Cooldown
    OBVIOUS
  <2>1. \E a \in Addrs : BeginSetup(a)
    <3>1. CASE SetupSucceeds \/ SetupFails
      BY <3>1 DEF SetupSucceeds, SetupFails, SetupDone
    <3>2. CASE \E a \in Addrs : Join(a) \/ LoseAnswer(a) \/ Announce(a) \/ Discover(a)
                                  \/ IeeeRsp(a) \/ ForceSetup(a) \/ Rebind(a)
      BY <3>2 DEF Join, LoseAnswer, Announce, Discover, IeeeRsp, ForceSetup, Rebind, Order
    <3>3. CASE PostAtStart \/ PollDelayed \/ PollRetry \/ Tick \/ UNCHANGED vars
      BY <3>3 DEF PostAtStart, PollDelayed, PollRetry, Tick, vars
    <3>4. QED
      BY <3>1, <3>2, <3>3 DEF Next, Worker
  <2>2. PICK a \in Addrs : BeginSetup(a)
    BY <2>1
  <2>3. QED
    BY <2>2, StartsInTime
<1>4. QED
  BY <1>1, <1>2, <1>3, PTL DEF Spec, SetupsAreApart

=============================================================================
