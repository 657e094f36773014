-------------------------- MODULE Intrusion_proofs --------------------------
(***************************************************************************)
(* Proofs about Intrusion, for any doors, zones and bands and any number   *)
(* of moves, reports and orders: a door's believed state is its state once *)
(* its messages are handled, and no intrusion is missed.  And about        *)
(* DoorWatch, for any sensors, addresses and limits and with late          *)
(* announcements: the grace window of a door comes from a merge.           *)
(***************************************************************************)
EXTENDS MCIntrusion, SequenceTheorems, FiniteSetTheorems, WellFoundedInduction, TLAPS

-----------------------------------------------------------------------------
(* The inductive invariant. *)

\* Message m carries a state of door d.
Tells(m, d) == m.door = d /\ m.kind # "refresh"

NoneTells(q, d) == \A i \in 1 .. Len(q) : ~Tells(q[i], d)

\* What is believed of door d and the last message of q about it are its state.
InStep(q, d, believed, real) ==
  /\ NoneTells(q, d) => believed = real
  /\ \A i \in 1 .. Len(q) :
       Tells(q[i], d) /\ (\A j \in i + 1 .. Len(q) : ~Tells(q[j], d)) => q[i].open = real

DoorsInStep ==
  \A d \in Doors : d \notin missed => InStep(contactIn, d, isOpen[d], doorIs[d])

\* Only an active zone is occupied, and only while somebody is present or the
\* zones are about to be evaluated.
OccupiedInv ==
  \A z \in Zones : occupied[z] =>
    zoneActive[z] /\ (raw \/ "occupancy" \in evaluating)

\* What makes the use-case thread look at zone z with its door open: the event
\* of a door is on its way, or the zone's own; or the zone is about to be left.
DoorEventComes ==
  \/ posting # NoEvent
  \/ ucPc = "trigger"
  \/ \E e \in DoorEvents : Contains(ucIn, e)

Detected(z) == [type |-> "detected", zone |-> z]

ZoneEventComes(z) ==
  \/ ucPc \in {"refresh", "read", "alarm"} /\ ucEvent = Detected(z)
  \/ Contains(ucIn, Detected(z))

IsLeft == "occupancy" \in evaluating /\ ~raw

OwedComes(z) == Unannounced(z) \/ DoorEventComes \/ ZoneEventComes(z) \/ IsLeft

\* An intrusion whose alarm is owed is one, and what sounds it is on its way.
OwedInv ==
  /\ owed \subseteq Intrusions
  /\ \A z \in owed : OwedComes(z)

\* What the use-case thread reads the doors for.
AtHandInv ==
  ucPc \in {"refresh", "read", "alarm"} => \E z \in Zones : ucEvent = Detected(z)

IntrusionIInv ==
  TypeOK /\ DoorsInStep /\ OccupiedInv /\ OwedInv /\ AtHandInv

-----------------------------------------------------------------------------
(* Lemmas about sequences and sets. *)

UseCaseEvents == DoorEvents \cup ZoneEvents

\* A queue is its head and the rest.
LEMMA ContainsHeadTail ==
  ASSUME NEW S, NEW q \in Seq(S), q # <<>>, NEW e, Contains(q, e)
  PROVE  e = Head(q) \/ Contains(Tail(q), e)
<1>1. /\ Len(Tail(q)) = Len(q) - 1 /\ Len(q) \in Nat \ {0} /\ Head(q) = q[1]
      /\ \A i \in 1 .. Len(Tail(q)) : Tail(q)[i] = q[i + 1]
  BY HeadTailProperties, EmptySeq
<1>2. PICK i \in 1 .. Len(q) : q[i] = e
  BY DEF Contains
<1>3. CASE i = 1
  BY <1>1, <1>2, <1>3
<1>4. CASE i # 1
  <2>1. i - 1 \in 1 .. Len(Tail(q)) /\ Tail(q)[i - 1] = e
    BY <1>1, <1>2, <1>4
  <2>2. QED
    BY <2>1 DEF Contains
<1>5. QED
  BY <1>3, <1>4

\* What is put at the end of a queue joins what is in it.
LEMMA ContainsConcat ==
  ASSUME NEW S, NEW q \in Seq(S), NEW r \in Seq(S), NEW e,
         Contains(q, e) \/ Contains(r, e)
  PROVE  Contains(q \o r, e)
<1>1. /\ Len(q) \in Nat /\ Len(r) \in Nat /\ Len(q \o r) = Len(q) + Len(r)
      /\ \A i \in 1 .. Len(q) + Len(r) :
           (q \o r)[i] = IF i <= Len(q) THEN q[i] ELSE r[i - Len(q)]
  BY ConcatProperties, LenProperties
<1>2. CASE Contains(q, e)
  <2>1. PICK i \in 1 .. Len(q) : q[i] = e
    BY <1>2 DEF Contains
  <2>2. i \in 1 .. Len(q \o r) /\ (q \o r)[i] = e
    BY <1>1, <2>1
  <2>3. QED
    BY <2>2 DEF Contains
<1>3. CASE Contains(r, e)
  <2>1. PICK i \in 1 .. Len(r) : r[i] = e
    BY <1>3 DEF Contains
  <2>2. Len(q) + i \in 1 .. Len(q \o r) /\ (q \o r)[Len(q) + i] = e
    BY <1>1, <2>1
  <2>3. QED
    BY <2>2 DEF Contains
<1>4. QED
  BY <1>2, <1>3

\* Nothing is in the empty queue.
LEMMA EmptyContainsNone == \A e : ~Contains(<<>>, e)
  BY EmptySeq DEF Contains

\* SetToSeq enumerates a finite set.
LEMMA SetToSeqEnumerates ==
  ASSUME NEW S, IsFiniteSet(S)
  PROVE  /\ Cardinality(S) \in Nat
         /\ \A i \in 1 .. Cardinality(S) : SetToSeq(S)[i] \in S
         /\ \A x \in S : \E i \in 1 .. Cardinality(S) : SetToSeq(S)[i] = x
<1> DEFINE N == 1 .. Cardinality(S)
<1>1. Cardinality(S) \in Nat /\ ExistsBijection(N, S)
  BY FS_CardinalityType
<1>2. \E f \in [N -> S] : IsInjective(f)
  BY <1>1 DEF ExistsBijection, Bijection, Injection
<1>3. SetToSeq(S) \in [N -> S] /\ IsInjective(SetToSeq(S))
  BY <1>2 DEF SetToSeq
<1>4. SetToSeq(S) \in Injection(N, S)
  BY <1>3 DEF Injection
<1>5. Cardinality(N) = Cardinality(S)
  BY <1>1, FS_Interval
<1>6. SetToSeq(S) \in Surjection(N, S)
  BY <1>4, <1>5, FS_Injection
<1>7. QED
  BY <1>1, <1>3, <1>6 DEF Surjection

\* A subset of the zones, or of the doors, is finite.
LEMMA PartsAreFinite ==
  /\ \A S \in SUBSET Zones : IsFiniteSet(S)
  /\ \A S \in SUBSET Doors : IsFiniteSet(S)
  BY IntrusionAssumption, FS_Subset

-----------------------------------------------------------------------------
(* Lemmas about a door and the messages about it. *)

\* A message that is handled leaves the queue, and its state is believed.
LEMMA TakeInStep ==
  ASSUME NEW S, NEW q \in Seq(S), q # <<>>, NEW d, NEW believed, NEW real,
         InStep(q, d, believed, real)
  PROVE  InStep(Tail(q), d, IF Tells(Head(q), d) THEN Head(q).open ELSE believed, real)
<1>1. /\ Len(Tail(q)) = Len(q) - 1 /\ Len(q) \in Nat \ {0} /\ Head(q) = q[1]
      /\ \A i \in 1 .. Len(Tail(q)) : Tail(q)[i] = q[i + 1]
  BY HeadTailProperties, EmptySeq
<1>2. ASSUME NoneTells(Tail(q), d)
      PROVE  (IF Tells(Head(q), d) THEN Head(q).open ELSE believed) = real
  <2>1. \A j \in 2 .. Len(q) : ~Tells(q[j], d)
    <3>1. ASSUME NEW j \in 2 .. Len(q) PROVE ~Tells(q[j], d)
      <4>1. j - 1 \in 1 .. Len(Tail(q)) /\ Tail(q)[j - 1] = q[j]
        BY <1>1
      <4>2. QED
        BY <1>2, <4>1 DEF NoneTells
    <3>2. QED
      BY <3>1
  <2>2. CASE Tells(q[1], d)
    <3>1. 1 \in 1 .. Len(q) /\ \A j \in 1 + 1 .. Len(q) : ~Tells(q[j], d)
      BY <1>1, <2>1
    <3>2. q[1].open = real
      BY <2>2, <3>1 DEF InStep
    <3>3. QED
      BY <1>1, <2>2, <3>2
  <2>3. CASE ~Tells(q[1], d)
    <3>1. NoneTells(q, d)
      BY <1>1, <2>1, <2>3 DEF NoneTells
    <3>2. QED
      BY <1>1, <2>3, <3>1 DEF InStep
  <2>4. QED
    BY <2>2, <2>3
<1>3. ASSUME NEW i \in 1 .. Len(Tail(q)), Tells(Tail(q)[i], d),
             \A j \in i + 1 .. Len(Tail(q)) : ~Tells(Tail(q)[j], d)
      PROVE  Tail(q)[i].open = real
  <2>1. i + 1 \in 1 .. Len(q) /\ Tail(q)[i] = q[i + 1]
    BY <1>1
  <2>2. ASSUME NEW j \in (i + 1) + 1 .. Len(q) PROVE ~Tells(q[j], d)
    <3>1. j - 1 \in i + 1 .. Len(Tail(q)) /\ j - 1 \in 1 .. Len(Tail(q))
      BY <1>1
    <3>2. Tail(q)[j - 1] = q[j]
      BY <1>1, <3>1
    <3>3. QED
      BY <1>3, <3>1, <3>2
  <2>3. QED
    BY <1>3, <2>1, <2>2 DEF InStep
<1>4. QED
  BY <1>2, <1>3 DEF InStep

\* A message that carries the door's state, or none of it, may be queued.
LEMMA AppendInStep ==
  ASSUME NEW S, NEW q \in Seq(S), NEW m \in S, NEW d, NEW believed, NEW real,
         IF Tells(m, d) THEN m.open = real ELSE InStep(q, d, believed, real)
  PROVE  InStep(Append(q, m), d, believed, real)
<1> DEFINE r == Append(q, m)
<1>1. /\ Len(r) = Len(q) + 1 /\ Len(q) \in Nat /\ r[Len(q) + 1] = m
      /\ \A i \in 1 .. Len(q) : r[i] = q[i]
  BY AppendProperties, LenProperties
<1> HIDE DEF r
<1>2. CASE Tells(m, d)
  <2>1. ~NoneTells(r, d)
    BY <1>1, <1>2 DEF NoneTells
  <2>2. ASSUME NEW i \in 1 .. Len(r), \A j \in i + 1 .. Len(r) : ~Tells(r[j], d)
        PROVE  r[i].open = real
    BY <1>1, <1>2, <2>2
  <2>3. QED
    BY <2>1, <2>2 DEF InStep, r
<1>3. CASE ~Tells(m, d)
  <2>1. InStep(q, d, believed, real)
    BY <1>3
  <2>2. NoneTells(r, d) => NoneTells(q, d)
    BY <1>1 DEF NoneTells
  <2>3. ASSUME NEW i \in 1 .. Len(r), Tells(r[i], d),
               \A j \in i + 1 .. Len(r) : ~Tells(r[j], d)
        PROVE  r[i].open = real
    <3>1. i \in 1 .. Len(q) /\ r[i] = q[i]
      BY <1>1, <1>3, <2>3
    <3>2. \A j \in i + 1 .. Len(q) : ~Tells(q[j], d)
      BY <1>1, <2>3
    <3>3. QED
      BY <2>1, <2>3, <3>1, <3>2 DEF InStep
  <2>4. QED
    BY <2>1, <2>2, <2>3 DEF InStep, r
<1>4. QED
  BY <1>2, <1>3

\* Messages that carry no state of the door may be queued.
LEMMA ConcatInStep ==
  ASSUME NEW S, NEW q \in Seq(S), NEW r \in Seq(S), NEW d, NEW believed, NEW real,
         NoneTells(r, d), InStep(q, d, believed, real)
  PROVE  InStep(q \o r, d, believed, real)
<1>1. /\ Len(q) \in Nat /\ Len(r) \in Nat /\ Len(q \o r) = Len(q) + Len(r)
      /\ \A i \in 1 .. Len(q) + Len(r) :
           (q \o r)[i] = IF i <= Len(q) THEN q[i] ELSE r[i - Len(q)]
  BY ConcatProperties, LenProperties
<1>2. NoneTells(q \o r, d) => NoneTells(q, d)
  BY <1>1 DEF NoneTells
<1>3. ASSUME NEW i \in 1 .. Len(q \o r), Tells((q \o r)[i], d),
             \A j \in i + 1 .. Len(q \o r) : ~Tells((q \o r)[j], d)
      PROVE  (q \o r)[i].open = real
  <2>1. i <= Len(q)
    <3>1. SUFFICES ASSUME i > Len(q) PROVE FALSE
      BY <1>1
    <3>2. i - Len(q) \in 1 .. Len(r) /\ (q \o r)[i] = r[i - Len(q)]
      BY <1>1, <3>1
    <3>3. QED
      BY <1>3, <3>2 DEF NoneTells
  <2>2. i \in 1 .. Len(q) /\ (q \o r)[i] = q[i]
    BY <1>1, <2>1
  <2>3. ASSUME NEW j \in i + 1 .. Len(q) PROVE ~Tells(q[j], d)
    <3>1. j \in i + 1 .. Len(q \o r) /\ (q \o r)[j] = q[j]
      BY <1>1, <2>2
    <3>2. QED
      BY <1>3, <3>1
  <2>4. QED
    BY <1>3, <2>2, <2>3 DEF InStep
<1>4. QED
  BY <1>2, <1>3 DEF InStep

-----------------------------------------------------------------------------
(* What the actions post. *)

\* The events of Evaluate: one for each zone that changed.
LEMMA ZoneEventsPosted ==
  ASSUME NEW zs \in SUBSET Zones, NEW ins,
         NEW es, es = [i \in 1 .. Cardinality(zs) |->
                         LET z == SetToSeq(zs)[i] IN
                           [type |-> IF z \in ins THEN "detected" ELSE "cleared", zone |-> z]]
  PROVE  /\ es \in Seq(UseCaseEvents)
         /\ \A z \in zs \cap ins : Contains(es, Detected(z))
<1>1. /\ Cardinality(zs) \in Nat
      /\ \A i \in 1 .. Cardinality(zs) : SetToSeq(zs)[i] \in zs
      /\ \A z \in zs : \E i \in 1 .. Cardinality(zs) : SetToSeq(zs)[i] = z
  BY PartsAreFinite, SetToSeqEnumerates
<1>2. \A i \in 1 .. Cardinality(zs) : es[i] \in ZoneEvents
  BY <1>1 DEF ZoneEvents
<1>3. es \in Seq(UseCaseEvents) /\ Len(es) = Cardinality(zs)
  BY <1>1, <1>2 DEF UseCaseEvents
<1>4. ASSUME NEW z \in zs \cap ins PROVE Contains(es, Detected(z))
  <2>1. PICK i \in 1 .. Cardinality(zs) : SetToSeq(zs)[i] = z
    BY <1>1
  <2>2. es[i] = Detected(z)
    BY <2>1 DEF Detected
  <2>3. QED
    BY <1>3, <2>2 DEF Contains
<1>5. QED
  BY <1>3, <1>4

\* The events of TriggerIfOccupied: one for each occupied zone.
LEMMA OccupiedPosted ==
  ASSUME NEW zs \in SUBSET Zones,
         NEW es, es = [i \in 1 .. Cardinality(zs) |->
                         [type |-> "detected", zone |-> SetToSeq(zs)[i]]]
  PROVE  /\ es \in Seq(UseCaseEvents)
         /\ \A z \in zs : Contains(es, Detected(z))
<1>1. \A i \in 1 .. Cardinality(zs) : SetToSeq(zs)[i] \in zs
  BY PartsAreFinite, SetToSeqEnumerates
<1>2. es = [i \in 1 .. Cardinality(zs) |->
              LET z == SetToSeq(zs)[i] IN
                [type |-> IF z \in zs THEN "detected" ELSE "cleared", zone |-> z]]
  BY <1>1
<1>3. QED
  BY <1>2, ZoneEventsPosted

\* The reads of RefreshIfStale carry no door's state.
LEMMA ReadsPosted ==
  ASSUME NEW stale \in SUBSET Doors,
         NEW ms, ms = [i \in 1 .. Cardinality(stale) |->
                         [kind |-> "refresh", door |-> SetToSeq(stale)[i]]]
  PROVE  /\ Cardinality(stale) \in Nat
         /\ ms \in Seq(ContactMessages)
         /\ \A d \in Doors : NoneTells(ms, d)
<1>1. /\ Cardinality(stale) \in Nat
      /\ \A i \in 1 .. Cardinality(stale) : SetToSeq(stale)[i] \in Doors
  BY PartsAreFinite, SetToSeqEnumerates
<1>2. \A i \in 1 .. Cardinality(stale) : ms[i] \in ContactMessages /\ ms[i].kind = "refresh"
  BY <1>1 DEF ContactMessages
<1>3. ms \in Seq(ContactMessages) /\ Len(ms) = Cardinality(stale)
  BY <1>1, <1>2
<1>4. QED
  BY <1>1, <1>2, <1>3 DEF NoneTells, Tells

-----------------------------------------------------------------------------
(* The type invariant. *)

\* NoteIntrusions owes alarms only to intrusions that are not sounded, and
\* each was owed before or has just begun.
LEMMA NotedAreIntrusions ==
  ASSUME NEW sounded, NoteIntrusions(sounded)
  PROVE  /\ owed' \subseteq Intrusions'
         /\ \A z \in owed' : z \notin sounded /\ (z \in owed \/ z \notin Intrusions)
  BY DEF NoteIntrusions

LEMMA IntrusionsAreZones == Intrusions \subseteq Zones
  BY DEF Intrusions

LEMMA DoorMovesType ==
  ASSUME TypeOK, NEW d \in Doors, DoorMoves(d)
  PROVE  TypeOK'
<1>1. owed' \subseteq Zones
  BY NotedAreIntrusions DEF DoorMoves, Intrusions
<1>2. [kind |-> "status", door |-> d, open |-> ~doorIs[d]] \in ContactMessages
  BY DEF TypeOK, ContactMessages
<1>3. contactIn' \in Seq(ContactMessages)
  <2>1. contactIn \in Seq(ContactMessages)
    BY DEF TypeOK
  <2>2. \/ contactIn' = Append(contactIn, [kind |-> "status", door |-> d, open |-> ~doorIs[d]])
        \/ contactIn' = contactIn
    BY DEF DoorMoves
  <2>3. QED
    BY <1>2, <2>1, <2>2, AppendProperties
<1>4. QED
  BY <1>1, <1>3 DEF DoorMoves, TypeOK, zoneVars, useCaseVars

LEMMA ContactThreadType ==
  ASSUME TypeOK, ContactThread
  PROVE  TypeOK'
<1>1. ASSUME contactIn # <<>>
      PROVE  Head(contactIn) \in ContactMessages /\ Tail(contactIn) \in Seq(ContactMessages)
  BY <1>1, HeadTailProperties DEF TypeOK
<1>2. CASE StoreStatus
  <2>1. owed' \subseteq Zones
    BY <1>2, NotedAreIntrusions DEF StoreStatus, Intrusions
  <2>2. /\ Head(contactIn).door \in Doors /\ Head(contactIn).open \in BOOLEAN
        /\ Tail(contactIn) \in Seq(ContactMessages)
    BY <1>1, <1>2 DEF StoreStatus, ContactTakes, ContactMessages
  <2>3. posting' \in DoorEvents
    BY <1>2, <2>2 DEF StoreStatus, DoorEvents
  <2>4. QED
    BY <1>2, <2>1, <2>2, <2>3 DEF StoreStatus, TypeOK, zoneVars, useCaseVars
<1>3. CASE PostDoorEvent
  <2>1. posting \in DoorEvents \cup ZoneEvents
    BY <1>3 DEF PostDoorEvent, TypeOK
  <2>2. <<posting>> \in Seq(DoorEvents \cup ZoneEvents)
    BY <2>1
  <2>3. ucIn' \in Seq(DoorEvents \cup ZoneEvents)
    BY <1>3, <2>2, ConcatProperties DEF PostDoorEvent, Post, TypeOK
  <2>4. QED
    BY <1>3, <2>3 DEF PostDoorEvent, TypeOK, zoneVars
<1>4. CASE SendStatusRead
  <2>1. Head(contactIn).door \in Doors /\ Tail(contactIn) \in Seq(ContactMessages)
    BY <1>1, <1>4 DEF SendStatusRead, ContactTakes, ContactMessages
  <2>2. [kind |-> "answer", door |-> Head(contactIn).door,
         open |-> doorIs[Head(contactIn).door]] \in ContactMessages
    BY <2>1 DEF TypeOK, ContactMessages
  <2>3. contactIn' \in Seq(ContactMessages)
    BY <1>4, <2>1, <2>2, AppendProperties DEF SendStatusRead
  <2>4. missed' \subseteq Doors
    BY <1>4 DEF SendStatusRead, TypeOK
  <2>5. QED
    BY <1>4, <2>3, <2>4 DEF SendStatusRead, TypeOK, zoneVars, useCaseVars
<1>5. CASE StoreAnswer
  <2>1. owed' \subseteq Zones
    BY <1>5, NotedAreIntrusions DEF StoreAnswer, Intrusions
  <2>2. /\ Head(contactIn).door \in Doors /\ Head(contactIn).open \in BOOLEAN
        /\ Tail(contactIn) \in Seq(ContactMessages)
    BY <1>1, <1>5 DEF StoreAnswer, ContactTakes, ContactMessages
  <2>3. QED
    BY <1>5, <2>1, <2>2 DEF StoreAnswer, TypeOK, zoneVars, useCaseVars
<1>6. QED
  BY <1>2, <1>3, <1>4, <1>5 DEF ContactThread

LEMMA ZonesType ==
  ASSUME TypeOK,
         \/ ReportPresence \/ ReportDistance
         \/ \E z \in Zones : DeleteZone(z) \/ \E b \in Bands : SetZone(z, b)
         \/ \E t \in {"occupancy", "cli"} : Evaluate(t)
  PROVE  TypeOK'
<1>1. CASE ReportPresence
  BY <1>1 DEF ReportPresence, TypeOK, doorVars, useCaseVars
<1>2. CASE ReportDistance
  BY <1>2 DEF ReportDistance, TypeOK, doorVars, useCaseVars
<1>3. ASSUME NEW z \in Zones, NEW b \in Bands, SetZone(z, b) PROVE TypeOK'
  <2>1. b \in SUBSET Distances
    BY IntrusionAssumption
  <2>2. QED
    BY <1>3, <2>1 DEF SetZone, TypeOK, doorVars, useCaseVars
<1>4. ASSUME NEW z \in Zones, DeleteZone(z) PROVE TypeOK'
  <2>1. owed' \subseteq Zones
    BY <1>4, NotedAreIntrusions DEF DeleteZone, Intrusions
  <2>2. QED
    BY <1>4, <2>1 DEF DeleteZone, TypeOK, doorVars, useCaseVars
<1>5. ASSUME NEW t \in {"occupancy", "cli"}, Evaluate(t) PROVE TypeOK'
  <2> DEFINE active  == {z \in Zones : zoneActive[z]}
             nowIn   == {z \in active : raw /\ dist \in band[z]}
             changed == {z \in active : occupied[z] # (z \in nowIn)}
             es == [i \in 1 .. Cardinality(changed) |->
                      LET z == SetToSeq(changed)[i] IN
                        [type |-> IF z \in nowIn THEN "detected" ELSE "cleared", zone |-> z]]
  <2>1. owed' \subseteq Zones
    BY <1>5, NotedAreIntrusions DEF Evaluate, Intrusions
  <2>2. es \in Seq(DoorEvents \cup ZoneEvents)
    BY ZoneEventsPosted DEF UseCaseEvents
  <2>3. ucIn' = ucIn \o es
    BY <1>5 DEF Evaluate, Post
  <2>4. ucIn' \in Seq(DoorEvents \cup ZoneEvents)
    BY <2>2, <2>3, ConcatProperties DEF TypeOK
  <2>5. occupied' = [z \in Zones |-> IF z \in active THEN z \in nowIn ELSE occupied[z]]
    BY <1>5 DEF Evaluate
  <2>6. occupied' \in [Zones -> BOOLEAN]
    <3> HIDE DEF active, nowIn
    <3>1. ASSUME NEW z \in Zones
          PROVE  (IF z \in active THEN z \in nowIn ELSE occupied[z]) \in BOOLEAN
      <4>1. occupied[z] \in BOOLEAN
        BY DEF TypeOK
      <4>2. (z \in nowIn) \in BOOLEAN
        OBVIOUS
      <4>3. CASE z \in active
        BY <4>2, <4>3
      <4>4. CASE z \notin active
        BY <4>1, <4>4
      <4>5. QED
        BY <4>3, <4>4
    <3>2. QED
      BY <2>5, <3>1
  <2>7. evaluating' \subseteq {"occupancy", "cli"}
    BY <1>5 DEF Evaluate, TypeOK
  <2>8. QED
    BY <1>5, <2>1, <2>4, <2>6, <2>7 DEF Evaluate, TypeOK, doorVars
<1>6. QED
  BY <1>1, <1>2, <1>3, <1>4, <1>5

LEMMA UseCaseThreadType ==
  ASSUME TypeOK, UseCaseThread
  PROVE  TypeOK'
<1>1. CASE TakeEvent
  <2>1. /\ Head(ucIn) \in DoorEvents \cup ZoneEvents
        /\ Tail(ucIn) \in Seq(DoorEvents \cup ZoneEvents)
    BY <1>1, HeadTailProperties DEF TakeEvent, TypeOK
  <2>2. ucPc' \in {"idle", "refresh", "trigger"}
    BY <1>1 DEF TakeEvent
  <2>3. QED
    BY <1>1, <2>1, <2>2 DEF TakeEvent, TypeOK, doorVars, zoneVars
<1>2. CASE RefreshIfStale
  <2>1. PICK stale \in SUBSET Doors :
          /\ refreshes' = refreshes + Cardinality(stale)
          /\ contactIn' = contactIn \o [i \in 1 .. Cardinality(stale) |->
                                          [kind |-> "refresh", door |-> SetToSeq(stale)[i]]]
    BY <1>2 DEF RefreshIfStale
  <2> DEFINE ms == [i \in 1 .. Cardinality(stale) |->
                      [kind |-> "refresh", door |-> SetToSeq(stale)[i]]]
  <2>2. refreshes' \in Nat /\ contactIn' \in Seq(ContactMessages)
    <3>1. Cardinality(stale) \in Nat /\ ms \in Seq(ContactMessages)
      BY ReadsPosted
    <3>2. contactIn' = contactIn \o ms
      BY <2>1
    <3> HIDE DEF ms
    <3>3. contactIn' \in Seq(ContactMessages)
      BY <3>1, <3>2, ConcatProperties DEF TypeOK
    <3>4. QED
      BY <2>1, <3>1, <3>3 DEF TypeOK
  <2>3. QED
    BY <1>2, <2>2 DEF RefreshIfStale, TypeOK, zoneVars
<1>3. CASE ReadDoors
  BY <1>3 DEF ReadDoors, TypeOK, doorVars, zoneVars
<1>4. CASE SoundAlarm
  <2>1. owed' \subseteq Zones
    <3>1. NoteIntrusions({ucEvent.zone})
      BY <1>4 DEF SoundAlarm
    <3>2. owed' \subseteq Intrusions'
      BY <3>1, NotedAreIntrusions
    <3>3. QED
      BY <3>2 DEF Intrusions
  <2>2. QED
    BY <1>4, <2>1 DEF SoundAlarm, TypeOK, doorVars, zoneVars
<1>5. CASE TriggerIfOccupied
  <2> DEFINE zs == {z \in Zones : raw /\ zoneActive[z] /\ occupied[z]}
             es == [i \in 1 .. Cardinality(zs) |->
                      [type |-> "detected", zone |-> SetToSeq(zs)[i]]]
  <2>1. es \in Seq(DoorEvents \cup ZoneEvents)
    BY OccupiedPosted DEF UseCaseEvents
  <2>2. ucIn' = ucIn \o es
    BY <1>5 DEF TriggerIfOccupied, Post
  <2>3. ucIn' \in Seq(DoorEvents \cup ZoneEvents)
    BY <2>1, <2>2, ConcatProperties DEF TypeOK
  <2>4. QED
    BY <1>5, <2>3 DEF TriggerIfOccupied, TypeOK, doorVars, zoneVars
<1>6. QED
  BY <1>1, <1>2, <1>3, <1>4, <1>5 DEF UseCaseThread

-----------------------------------------------------------------------------
(* The doors and what is believed of them. *)

\* A handled message of state: the door of the message takes it, no other does.
LEMMA StoredInStep ==
  ASSUME TypeOK, DoorsInStep, contactIn # <<>>, Head(contactIn).kind # "refresh",
         contactIn' = Tail(contactIn), UNCHANGED <<doorIs, missed>>,
         isOpen' = [isOpen EXCEPT ![Head(contactIn).door] = Head(contactIn).open]
  PROVE  DoorsInStep'
<1>1. contactIn \in Seq(ContactMessages) /\ isOpen \in [Doors -> BOOLEAN]
  BY DEF TypeOK
<1>2. ASSUME NEW d \in Doors, d \notin missed'
      PROVE  InStep(contactIn', d, isOpen'[d], doorIs'[d])
  <2>1. InStep(contactIn, d, isOpen[d], doorIs[d])
    BY <1>2 DEF DoorsInStep
  <2>2. isOpen'[d] = IF Tells(Head(contactIn), d) THEN Head(contactIn).open ELSE isOpen[d]
    BY <1>1 DEF Tells
  <2>3. InStep(Tail(contactIn), d, isOpen'[d], doorIs[d])
    BY <1>1, <2>1, <2>2, TakeInStep
  <2>4. QED
    BY <2>3
<1>3. QED
  BY <1>2 DEF DoorsInStep, InStep, NoneTells

LEMMA DoorsStep ==
  ASSUME TypeOK, DoorsInStep, Next
  PROVE  DoorsInStep'
<1>1. ASSUME NEW c \in Doors, DoorMoves(c) PROVE DoorsInStep'
  <2> DEFINE m == [kind |-> "status", door |-> c, open |-> ~doorIs[c]]
  <2>1. /\ doorIs' = [doorIs EXCEPT ![c] = ~doorIs[c]] /\ isOpen' = isOpen
        /\ doorIs \in [Doors -> BOOLEAN] /\ contactIn \in Seq(ContactMessages)
        /\ m \in ContactMessages
    BY <1>1 DEF DoorMoves, TypeOK, ContactMessages
  <2>2. m.door = c /\ m.kind = "status" /\ m.open = doorIs'[c]
    BY <2>1
  <2>3. \/ contactIn' = Append(contactIn, m) /\ missed' = missed \ {c}
        \/ contactIn' = contactIn /\ missed' = missed \cup {c}
    BY <1>1 DEF DoorMoves
  <2> HIDE DEF m
  <2>4. ASSUME NEW d \in Doors, d \notin missed'
        PROVE  InStep(contactIn', d, isOpen'[d], doorIs'[d])
    <3>1. d # c => doorIs'[d] = doorIs[d] /\ InStep(contactIn, d, isOpen[d], doorIs[d])
      BY <2>1, <2>3, <2>4 DEF DoorsInStep
    <3>2. CASE contactIn' = contactIn /\ missed' = missed \cup {c}
      BY <2>1, <2>4, <3>1, <3>2
    <3>3. CASE contactIn' = Append(contactIn, m)
      <4>1. IF Tells(m, d) THEN m.open = doorIs'[d]
            ELSE InStep(contactIn, d, isOpen'[d], doorIs'[d])
        BY <2>1, <2>2, <3>1 DEF Tells
      <4>2. QED
        BY <2>1, <3>3, <4>1, AppendInStep
    <3>4. QED
      BY <2>3, <3>2, <3>3
  <2>5. QED
    BY <2>4 DEF DoorsInStep, InStep, NoneTells
<1>2. CASE StoreStatus
  BY <1>2, StoredInStep DEF StoreStatus, ContactTakes
<1>3. CASE StoreAnswer
  BY <1>3, StoredInStep DEF StoreAnswer, ContactTakes
<1>4. CASE SendStatusRead
  <2> DEFINE c == Head(contactIn).door
             m == [kind |-> "answer", door |-> c, open |-> doorIs[c]]
  <2>1. /\ contactIn \in Seq(ContactMessages) /\ contactIn # <<>>
        /\ Head(contactIn).kind = "refresh" /\ UNCHANGED <<doorIs, isOpen>>
        /\ \/ contactIn' = Append(Tail(contactIn), m) /\ missed' = missed \ {c}
           \/ contactIn' = Tail(contactIn) /\ missed' = missed
    BY <1>4 DEF SendStatusRead, ContactTakes, TypeOK
  <2>2. Head(contactIn) \in ContactMessages /\ Tail(contactIn) \in Seq(ContactMessages)
    BY <2>1, HeadTailProperties
  <2>3. c \in Doors
    BY <2>1, <2>2 DEF ContactMessages
  <2>4. m \in ContactMessages /\ m.door = c /\ m.open = doorIs[c] /\ m.kind = "answer"
    BY <2>3 DEF ContactMessages, TypeOK
  <2> HIDE DEF c, m
  <2>5. ASSUME NEW d \in Doors, d \notin missed
        PROVE  InStep(Tail(contactIn), d, isOpen[d], doorIs[d])
    <3>1. InStep(contactIn, d, isOpen[d], doorIs[d]) /\ ~Tells(Head(contactIn), d)
      BY <2>1, <2>5 DEF DoorsInStep, Tells
    <3>2. InStep(Tail(contactIn), d,
                 IF Tells(Head(contactIn), d) THEN Head(contactIn).open ELSE isOpen[d],
                 doorIs[d])
      BY <2>1, <3>1, TakeInStep
    <3>3. QED
      BY <3>1, <3>2
  <2>6. ASSUME NEW d \in Doors, d \notin missed'
        PROVE  InStep(contactIn', d, isOpen'[d], doorIs'[d])
    <3>1. CASE contactIn' = Tail(contactIn) /\ missed' = missed
      BY <2>1, <2>5, <2>6, <3>1
    <3>2. CASE contactIn' = Append(Tail(contactIn), m) /\ missed' = missed \ {c}
      <4>1. IF Tells(m, d) THEN m.open = doorIs[d]
            ELSE InStep(Tail(contactIn), d, isOpen[d], doorIs[d])
        BY <2>4, <2>5, <2>6, <3>2 DEF Tells
      <4>2. InStep(Append(Tail(contactIn), m), d, isOpen[d], doorIs[d])
        BY <2>2, <2>4, <4>1, AppendInStep
      <4>3. QED
        BY <2>1, <3>2, <4>2
    <3>3. QED
      BY <2>1, <3>1, <3>2
  <2>7. QED
    BY <2>6 DEF DoorsInStep, InStep, NoneTells
<1>5. CASE RefreshIfStale
  <2>1. PICK stale \in SUBSET Doors :
          contactIn' = contactIn \o [i \in 1 .. Cardinality(stale) |->
                                       [kind |-> "refresh", door |-> SetToSeq(stale)[i]]]
    BY <1>5 DEF RefreshIfStale
  <2> DEFINE ms == [i \in 1 .. Cardinality(stale) |->
                      [kind |-> "refresh", door |-> SetToSeq(stale)[i]]]
  <2>2. ms \in Seq(ContactMessages) /\ \A d \in Doors : NoneTells(ms, d)
    BY ReadsPosted
  <2>3. /\ contactIn' = contactIn \o ms /\ contactIn \in Seq(ContactMessages)
        /\ UNCHANGED <<doorIs, isOpen, missed>>
    BY <1>5, <2>1 DEF RefreshIfStale, TypeOK
  <2> HIDE DEF ms
  <2>4. ASSUME NEW d \in Doors, d \notin missed'
        PROVE  InStep(contactIn', d, isOpen'[d], doorIs'[d])
    <3>1. InStep(contactIn, d, isOpen[d], doorIs[d])
      BY <2>3, <2>4 DEF DoorsInStep
    <3>2. InStep(contactIn \o ms, d, isOpen[d], doorIs[d])
      BY <2>2, <2>3, <3>1, ConcatInStep
    <3>3. QED
      BY <2>3, <3>2
  <2>5. QED
    BY <2>4 DEF DoorsInStep, InStep, NoneTells
<1>6. CASE UNCHANGED <<doorIs, isOpen, contactIn, missed>>
  BY <1>6 DEF DoorsInStep, InStep, NoneTells
<1>7. QED
  BY <1>1, <1>2, <1>3, <1>4, <1>5, <1>6
  DEF Next, ContactThread, UseCaseThread, PostDoorEvent, ReportPresence, ReportDistance,
      SetZone, DeleteZone, Evaluate, TakeEvent, ReadDoors, SoundAlarm,
      TriggerIfOccupied, doorVars

-----------------------------------------------------------------------------
(* The zones and what the threads are about to do with them. *)

\* After Evaluate, only active zones are occupied, and only if somebody is present.
LEMMA EvaluateFollows ==
  ASSUME TypeOK, OccupiedInv, NEW t \in {"occupancy", "cli"}, Evaluate(t)
  PROVE  \A z \in Zones : occupied'[z] => zoneActive[z] /\ raw
  BY DEF Evaluate, TypeOK, OccupiedInv

LEMMA OccupiedStep ==
  ASSUME TypeOK, OccupiedInv, Next
  PROVE  OccupiedInv'
<1>1. CASE ReportPresence
  BY <1>1 DEF ReportPresence, OccupiedInv
<1>2. CASE ReportDistance
  BY <1>2 DEF ReportDistance, OccupiedInv
<1>3. ASSUME NEW z \in Zones, NEW b \in Bands, SetZone(z, b) PROVE OccupiedInv'
  BY <1>3 DEF SetZone, OccupiedInv, TypeOK
<1>4. ASSUME NEW z \in Zones, DeleteZone(z) PROVE OccupiedInv'
  BY <1>4 DEF DeleteZone, OccupiedInv, TypeOK
<1>5. ASSUME NEW t \in {"occupancy", "cli"}, Evaluate(t) PROVE OccupiedInv'
  BY <1>5, EvaluateFollows DEF Evaluate, OccupiedInv
<1>6. CASE UNCHANGED zoneVars
  BY <1>6 DEF zoneVars, OccupiedInv
<1>7. QED
  BY <1>1, <1>2, <1>3, <1>4, <1>5, <1>6
  DEF Next, DoorMoves, ContactThread, StoreStatus, PostDoorEvent, SendStatusRead,
      StoreAnswer, UseCaseThread, TakeEvent, RefreshIfStale, ReadDoors, SoundAlarm,
      TriggerIfOccupied

\* The zone of an event at hand is what the use-case thread took from its queue.
LEMMA AtHandStep ==
  ASSUME TypeOK, AtHandInv, Next
  PROVE  AtHandInv'
<1>1. CASE TakeEvent
  <2>1. Head(ucIn) \in DoorEvents \cup ZoneEvents
    BY <1>1, HeadTailProperties DEF TakeEvent, TypeOK
  <2>2. ASSUME Head(ucIn).type = "detected"
        PROVE  Head(ucIn).zone \in Zones /\ Head(ucIn) = Detected(Head(ucIn).zone)
    BY <2>1, <2>2 DEF DoorEvents, ZoneEvents, Detected
  <2>3. QED
    BY <1>1, <2>2 DEF TakeEvent, AtHandInv
<1>2. CASE RefreshIfStale \/ ReadDoors
  BY <1>2 DEF RefreshIfStale, ReadDoors, AtHandInv
<1>3. CASE SoundAlarm \/ TriggerIfOccupied
  BY <1>3 DEF SoundAlarm, TriggerIfOccupied, AtHandInv
<1>4. CASE UNCHANGED <<ucPc, ucEvent>>
  BY <1>4 DEF AtHandInv
<1>5. QED
  BY <1>1, <1>2, <1>3, <1>4
  DEF Next, DoorMoves, ContactThread, StoreStatus, PostDoorEvent, SendStatusRead,
      StoreAnswer, ReportPresence, ReportDistance, SetZone, DeleteZone, Evaluate,
      UseCaseThread, useCaseVars

-----------------------------------------------------------------------------
(* The alarms that are owed. *)

\* Doors and zones as they were leave the intrusions as they were.
LEMMA SameIntrusions ==
  ASSUME UNCHANGED <<isOpen, occupied>>
  PROVE  Intrusions' = Intrusions
  BY DEF Intrusions, OpenFor, DoorsFor

\* Where no intrusion begins, none is owed that was not.
LEMMA NotedWereOwed ==
  ASSUME NEW sounded, NoteIntrusions(sounded), Intrusions' \subseteq Intrusions
  PROVE  owed' \subseteq owed /\ owed' \subseteq Intrusions'
  BY NotedAreIntrusions

\* A step that takes nothing from the way to the alarm leaves it on its way.
LEMMA OwedComesKept ==
  ASSUME UNCHANGED <<ucPc, ucEvent>>, silently \subseteq silently',
         posting # NoEvent => posting' # NoEvent,
         \A e : Contains(ucIn, e) => Contains(ucIn', e),
         IsLeft => IsLeft',
         NEW z, OwedComes(z)
  PROVE  OwedComes(z)'
<1>1. Unannounced(z) => Unannounced(z)'
  BY DEF Unannounced, DoorsFor
<1>2. DoorEventComes => DoorEventComes'
  BY DEF DoorEventComes, Contains
<1>3. ZoneEventComes(z) => ZoneEventComes(z)'
  BY DEF ZoneEventComes, Contains
<1>4. QED
  BY <1>1, <1>2, <1>3 DEF OwedComes

\* Posted events join those in the queue.
LEMMA PostKeeps ==
  ASSUME TypeOK, NEW es \in Seq(UseCaseEvents), Post(es)
  PROVE  \A e : Contains(ucIn, e) \/ Contains(es, e) => Contains(ucIn', e)
<1>1. ucIn \in Seq(UseCaseEvents) /\ ucIn' = ucIn \o es
  BY DEF TypeOK, Post, UseCaseEvents
<1>2. QED
  BY <1>1, ContainsConcat

LEMMA OwedDoors ==
  ASSUME TypeOK, OwedInv, (\E d \in Doors : DoorMoves(d)) \/ ContactThread
  PROVE  OwedInv'
<1>1. ASSUME NEW d \in Doors, DoorMoves(d) PROVE OwedInv'
  <2>1. owed' \subseteq owed /\ owed' \subseteq Intrusions'
    BY <1>1, SameIntrusions, NotedWereOwed DEF DoorMoves, zoneVars
  <2>2. \A z \in owed : OwedComes(z)'
    BY <1>1, OwedComesKept DEF DoorMoves, zoneVars, useCaseVars, OwedInv, IsLeft
  <2>3. QED
    BY <2>1, <2>2 DEF OwedInv
<1>2. CASE StoreStatus
  <2>1. owed' \subseteq Intrusions'
    BY <1>2, NotedAreIntrusions DEF StoreStatus
  <2>2. posting' # NoEvent
    <3>1. posting'.type \in {"open", "closed"}
      BY <1>2 DEF StoreStatus
    <3>2. QED
      BY <3>1 DEF NoEvent
  <2>3. QED
    BY <2>1, <2>2 DEF OwedInv, OwedComes, DoorEventComes
<1>3. CASE PostDoorEvent
  <2>1. UNCHANGED owed /\ Intrusions' = Intrusions
    BY <1>3, SameIntrusions DEF PostDoorEvent, zoneVars
  <2>2. posting \in DoorEvents /\ <<posting>> \in Seq(UseCaseEvents) /\ Post(<<posting>>)
    BY <1>3 DEF PostDoorEvent, TypeOK, UseCaseEvents
  <2>3. Contains(<<posting>>, posting)
    BY DEF Contains
  <2>4. Contains(ucIn', posting)
    BY <2>2, <2>3, PostKeeps
  <2>5. DoorEventComes'
    BY <2>2, <2>4 DEF DoorEventComes, Contains
  <2>6. QED
    BY <2>1, <2>5 DEF OwedInv, OwedComes
<1>4. CASE SendStatusRead
  <2>1. UNCHANGED owed /\ Intrusions' = Intrusions
    BY <1>4, SameIntrusions DEF SendStatusRead, zoneVars
  <2>2. \A z \in owed : OwedComes(z)'
    BY <1>4, OwedComesKept DEF SendStatusRead, zoneVars, useCaseVars, OwedInv, IsLeft
  <2>3. QED
    BY <2>1, <2>2 DEF OwedInv
<1>5. CASE StoreAnswer
  <2> DEFINE m == Head(contactIn)
  <2>1. /\ isOpen' = [isOpen EXCEPT ![m.door] = m.open]
        /\ silently' = IF isOpen[m.door] # m.open THEN silently \cup {m.door} ELSE silently
        /\ UNCHANGED <<posting, zoneVars, useCaseVars>>
        /\ NoteIntrusions({})
    BY <1>5 DEF StoreAnswer
  <2> HIDE DEF m
  <2>2. owed' \subseteq Intrusions' /\ \A z \in owed' : z \in owed \/ z \notin Intrusions
    BY <2>1, NotedAreIntrusions
  <2>3. \A z \in owed : OwedComes(z)'
    BY <2>1, OwedComesKept DEF zoneVars, useCaseVars, OwedInv, IsLeft
  <2>4. ASSUME NEW z \in Intrusions', z \notin Intrusions PROVE OwedComes(z)'
    <3>1. z \in Zones /\ occupied[z]
      BY <2>1, <2>4 DEF Intrusions, zoneVars
    <3>2. PICK d \in DoorsFor(z) : isOpen'[d]
      BY <2>4 DEF Intrusions, OpenFor, DoorsFor
    <3>3. ~isOpen[d]
      BY <2>4, <3>1 DEF Intrusions, OpenFor
    <3>4. d \in Doors
      BY <3>1, IntrusionAssumption DEF DoorsFor
    <3>5. d = m.door /\ isOpen[m.door] # m.open
      BY <2>1, <3>2, <3>3, <3>4 DEF TypeOK
    <3>6. d \in silently'
      BY <2>1, <3>5
    <3>7. Unannounced(z)'
      BY <3>6 DEF Unannounced, DoorsFor
    <3>8. QED
      BY <3>7 DEF OwedComes
  <2>5. QED
    BY <2>2, <2>3, <2>4 DEF OwedInv
<1>6. QED
  BY <1>1, <1>2, <1>3, <1>4, <1>5 DEF ContactThread

LEMMA OwedZones ==
  ASSUME TypeOK, OccupiedInv, OwedInv,
         \/ ReportPresence \/ ReportDistance
         \/ \E z \in Zones : DeleteZone(z) \/ \E b \in Bands : SetZone(z, b)
         \/ \E t \in {"occupancy", "cli"} : Evaluate(t)
  PROVE  OwedInv'
<1>1. ASSUME ReportPresence \/ ReportDistance \/ \E z \in Zones, b \in Bands : SetZone(z, b)
      PROVE  OwedInv'
  <2>1. UNCHANGED <<owed, doorVars, useCaseVars, occupied>>
    BY <1>1 DEF ReportPresence, ReportDistance, SetZone
  <2>2. IsLeft => IsLeft'
    BY <1>1 DEF ReportPresence, ReportDistance, SetZone, IsLeft
  <2>3. Intrusions' = Intrusions
    BY <2>1, SameIntrusions DEF doorVars
  <2>4. \A z \in owed : OwedComes(z)'
    BY <2>1, <2>2, OwedComesKept DEF doorVars, useCaseVars, OwedInv
  <2>5. QED
    BY <2>1, <2>3, <2>4 DEF OwedInv
<1>2. ASSUME NEW y \in Zones, DeleteZone(y) PROVE OwedInv'
  <2>1. UNCHANGED <<raw, evaluating, doorVars, useCaseVars>>
    BY <1>2 DEF DeleteZone
  <2>2. \A z \in Zones : occupied'[z] => occupied[z]
    BY <1>2 DEF DeleteZone, TypeOK
  <2>3. Intrusions' \subseteq Intrusions
    BY <2>1, <2>2 DEF Intrusions, OpenFor, DoorsFor, doorVars
  <2>4. owed' \subseteq owed /\ owed' \subseteq Intrusions'
    BY <1>2, <2>3, NotedWereOwed DEF DeleteZone
  <2>5. \A z \in owed : OwedComes(z)'
    BY <2>1, OwedComesKept DEF doorVars, useCaseVars, OwedInv, IsLeft
  <2>6. QED
    BY <2>4, <2>5 DEF OwedInv
<1>3. ASSUME NEW t \in {"occupancy", "cli"}, Evaluate(t) PROVE OwedInv'
  <2> DEFINE active  == {z \in Zones : zoneActive[z]}
             nowIn   == {z \in active : raw /\ dist \in band[z]}
             changed == {z \in active : occupied[z] # (z \in nowIn)}
             es == [i \in 1 .. Cardinality(changed) |->
                      LET z == SetToSeq(changed)[i] IN
                        [type |-> IF z \in nowIn THEN "detected" ELSE "cleared", zone |-> z]]
  <2>1. /\ occupied' = [z \in Zones |-> IF z \in active THEN z \in nowIn ELSE occupied[z]]
        /\ Post(es) /\ NoteIntrusions({})
        /\ UNCHANGED <<raw, doorVars, ucPc, ucEvent>>
    BY <1>3 DEF Evaluate
  <2>2. es \in Seq(UseCaseEvents) /\ \A z \in changed \cap nowIn : Contains(es, Detected(z))
    BY ZoneEventsPosted
  <2>3. \A z \in Zones : occupied'[z] => raw
    BY <1>3, EvaluateFollows
  <2>4. ASSUME NEW z \in Zones, occupied'[z], ~occupied[z] PROVE z \in changed \cap nowIn
    BY <2>1, <2>4
  <2> HIDE DEF active, nowIn, changed, es
  <2>5. \A e : Contains(ucIn, e) \/ Contains(es, e) => Contains(ucIn', e)
    BY <2>1, <2>2, PostKeeps
  <2>6. /\ owed' \subseteq Intrusions'
        /\ \A z \in owed' : z \in owed \/ z \notin Intrusions
    BY <2>1, NotedAreIntrusions
  <2>7. ASSUME NEW z \in owed', z \in owed PROVE OwedComes(z)'
    <3>1. z \in Zones /\ occupied'[z]
      BY <2>6 DEF Intrusions
    <3>2. raw /\ ~IsLeft
      BY <2>3, <3>1 DEF IsLeft
    <3>3. OwedComes(z)
      BY <2>7 DEF OwedInv
    <3>4. QED
      BY <2>1, <2>5, <3>2, <3>3, OwedComesKept DEF doorVars
  <2>8. ASSUME NEW z \in Intrusions', z \notin Intrusions PROVE OwedComes(z)'
    <3>1. z \in Zones /\ occupied'[z] /\ OpenFor(z)'
      BY <2>8 DEF Intrusions
    <3>2. OpenFor(z)
      BY <2>1, <3>1 DEF OpenFor, DoorsFor, doorVars
    <3>3. ~occupied[z]
      BY <2>8, <3>1, <3>2 DEF Intrusions
    <3>4. Contains(ucIn', Detected(z))
      BY <2>2, <2>4, <2>5, <3>1, <3>3
    <3>5. ZoneEventComes(z)'
      BY <3>4 DEF ZoneEventComes, Contains
    <3>6. QED
      BY <3>5 DEF OwedComes
  <2>9. QED
    BY <2>6, <2>7, <2>8 DEF OwedInv
<1>4. QED
  BY <1>1, <1>2, <1>3

\* What an event's owner does with what it took: the event of a zone is at
\* hand, the event of a door makes it look at all zones.
LEMMA TakeEventOwed ==
  ASSUME TypeOK, OwedInv, TakeEvent, NEW z \in owed
  PROVE  OwedComes(z)'
<1>1. /\ ucPc = "idle" /\ ucIn # <<>> /\ ucEvent' = Head(ucIn) /\ ucIn' = Tail(ucIn)
      /\ UNCHANGED <<raw, evaluating, posting, silently>>
      /\ ucIn \in Seq(UseCaseEvents) /\ Head(ucIn) \in UseCaseEvents
  BY HeadTailProperties DEF TakeEvent, TypeOK, UseCaseEvents, zoneVars, doorVars
<1>2. CASE Head(ucIn) = Detected(z)
  <2>1. ucPc' = "refresh" /\ ucEvent' = Detected(z)
    BY <1>1, <1>2 DEF TakeEvent, Detected
  <2>2. QED
    BY <2>1 DEF OwedComes, ZoneEventComes
<1>3. CASE Head(ucIn) \in DoorEvents
  <2>1. Head(ucIn).type \in {"open", "closed"}
    BY <1>3 DEF DoorEvents
  <2>2. ucPc' = "trigger"
    BY <2>1 DEF TakeEvent
  <2>3. QED
    BY <2>2 DEF OwedComes, DoorEventComes
<1>4. CASE Head(ucIn) # Detected(z) /\ Head(ucIn) \notin DoorEvents
  <2>1. \A e \in DoorEvents \cup {Detected(z)} : Contains(ucIn, e) => Contains(ucIn', e)
    BY <1>1, <1>4, ContainsHeadTail
  <2>2. OwedComes(z)
    BY DEF OwedInv
  <2>3. Unannounced(z) => Unannounced(z)'
    BY <1>1 DEF Unannounced, DoorsFor
  <2>4. DoorEventComes => DoorEventComes'
    BY <1>1, <2>1 DEF DoorEventComes, Contains
  <2>5. ZoneEventComes(z) => ZoneEventComes(z)'
    BY <1>1, <2>1 DEF ZoneEventComes, Contains
  <2>6. IsLeft => IsLeft'
    BY <1>1 DEF IsLeft
  <2>7. QED
    BY <2>2, <2>3, <2>4, <2>5, <2>6 DEF OwedComes
<1>5. QED
  BY <1>2, <1>3, <1>4

LEMMA OwedUseCase ==
  ASSUME TypeOK, OccupiedInv, OwedInv, AtHandInv, UseCaseThread
  PROVE  OwedInv'
<1>1. CASE TakeEvent
  <2>1. UNCHANGED owed /\ Intrusions' = Intrusions
    BY <1>1, SameIntrusions DEF TakeEvent, doorVars, zoneVars
  <2>2. QED
    BY <1>1, <2>1, TakeEventOwed DEF OwedInv
<1>2. CASE RefreshIfStale
  <2>1. /\ UNCHANGED <<owed, isOpen, occupied, raw, evaluating, posting, silently, ucIn, ucEvent>>
        /\ ucPc = "refresh" /\ ucPc' = "read"
    BY <1>2 DEF RefreshIfStale, zoneVars
  <2>2. Intrusions' = Intrusions
    BY <2>1, SameIntrusions
  <2>3. ASSUME NEW z \in owed PROVE OwedComes(z)'
    BY <2>1 DEF OwedInv, OwedComes, Unannounced, DoorsFor, DoorEventComes, ZoneEventComes,
                IsLeft, Contains
  <2>4. QED
    BY <2>1, <2>2, <2>3 DEF OwedInv
<1>3. CASE ReadDoors
  <2>1. /\ UNCHANGED <<owed, isOpen, occupied, raw, evaluating, posting, silently, ucIn, ucEvent>>
        /\ ucPc = "read" /\ ucPc' = IF OpenFor(ucEvent.zone) THEN "alarm" ELSE "idle"
    BY <1>3 DEF ReadDoors, doorVars, zoneVars
  <2>2. Intrusions' = Intrusions
    BY <2>1, SameIntrusions
  <2>3. ASSUME NEW z \in owed PROVE OwedComes(z)'
    <3>1. OpenFor(z)
      BY DEF OwedInv, Intrusions
    <3>2. ucEvent = Detected(z) => ucPc' = "alarm"
      BY <2>1, <3>1 DEF Detected
    <3>3. ZoneEventComes(z) => ZoneEventComes(z)'
      BY <2>1, <3>2 DEF ZoneEventComes, Contains
    <3>4. QED
      BY <2>1, <3>3 DEF OwedInv, OwedComes, Unannounced, DoorsFor, DoorEventComes, IsLeft,
                        Contains
  <2>4. QED
    BY <2>1, <2>2, <2>3 DEF OwedInv
<1>4. CASE SoundAlarm
  <2>1. /\ UNCHANGED <<isOpen, occupied, raw, evaluating, posting, silently, ucIn, ucEvent>>
        /\ ucPc = "alarm" /\ ucPc' = "idle" /\ NoteIntrusions({ucEvent.zone})
    BY <1>4 DEF SoundAlarm, doorVars, zoneVars
  <2>2. Intrusions' = Intrusions
    BY <2>1, SameIntrusions
  <2>3. owed' \subseteq owed /\ owed' \subseteq Intrusions' /\ ucEvent.zone \notin owed'
    BY <2>1, <2>2, NotedWereOwed, NotedAreIntrusions
  <2>4. ASSUME NEW z \in owed' PROVE OwedComes(z)'
    <3>1. ucEvent # Detected(z)
      BY <2>3, <2>4 DEF Detected
    <3>2. ZoneEventComes(z) => ZoneEventComes(z)'
      BY <2>1, <3>1 DEF ZoneEventComes, Contains
    <3>3. OwedComes(z)
      BY <2>3 DEF OwedInv
    <3>4. QED
      BY <2>1, <3>2, <3>3 DEF OwedComes, Unannounced, DoorsFor, DoorEventComes, IsLeft, Contains
  <2>5. QED
    BY <2>3, <2>4 DEF OwedInv
<1>5. CASE TriggerIfOccupied
  <2> DEFINE zs == {z \in Zones : raw /\ zoneActive[z] /\ occupied[z]}
             es == [i \in 1 .. Cardinality(zs) |->
                      [type |-> "detected", zone |-> SetToSeq(zs)[i]]]
  <2>1. es \in Seq(UseCaseEvents) /\ \A z \in zs : Contains(es, Detected(z))
    BY OccupiedPosted
  <2>2. Post(es) /\ UNCHANGED <<owed, isOpen, occupied, raw, evaluating>>
    BY <1>5 DEF TriggerIfOccupied, doorVars, zoneVars
  <2>3. Intrusions' = Intrusions
    BY <2>2, SameIntrusions
  <2>4. ASSUME NEW z \in owed PROVE OwedComes(z)'
    <3>1. z \in Zones /\ occupied[z]
      BY DEF OwedInv, Intrusions
    <3>2. CASE raw
      <4>1. z \in zs
        BY <3>1, <3>2 DEF OccupiedInv
      <4> HIDE DEF zs, es
      <4>2. Contains(ucIn', Detected(z))
        BY <2>1, <2>2, <4>1, PostKeeps
      <4>3. QED
        BY <4>2 DEF OwedComes, ZoneEventComes, Contains
    <3>3. CASE ~raw
      BY <2>2, <3>1, <3>3 DEF OccupiedInv, OwedComes, IsLeft
    <3>4. QED
      BY <3>2, <3>3
  <2>5. QED
    BY <2>2, <2>3, <2>4 DEF OwedInv
<1>6. QED
  BY <1>1, <1>2, <1>3, <1>4, <1>5 DEF UseCaseThread

-----------------------------------------------------------------------------
(* The theorem. *)

LEMMA IntrusionInit ==
  ASSUME Init
  PROVE  IntrusionIInv
<1>1. TypeOK
  BY IntrusionAssumption, EmptySeq DEF Init, TypeOK
<1>2. DoorsInStep
  BY EmptySeq DEF Init, DoorsInStep, InStep, NoneTells
<1>3. OccupiedInv /\ OwedInv /\ AtHandInv
  BY DEF Init, OccupiedInv, OwedInv, AtHandInv
<1>4. QED
  BY <1>1, <1>2, <1>3 DEF IntrusionIInv

LEMMA IntrusionStep ==
  ASSUME IntrusionIInv, [Next]_vars
  PROVE  IntrusionIInv'
<1>1. CASE Next
  <2>1. TypeOK'
    BY <1>1, DoorMovesType, ContactThreadType, ZonesType, UseCaseThreadType
    DEF Next, IntrusionIInv
  <2>2. OwedInv'
    BY <1>1, OwedDoors, OwedZones, OwedUseCase DEF Next, IntrusionIInv
  <2>3. DoorsInStep' /\ OccupiedInv' /\ AtHandInv'
    BY <1>1, DoorsStep, OccupiedStep, AtHandStep DEF IntrusionIInv
  <2>4. QED
    BY <2>1, <2>2, <2>3 DEF IntrusionIInv
<1>2. CASE UNCHANGED vars
  <2>1. UNCHANGED <<doorVars, zoneVars, useCaseVars, owed>>
    BY <1>2 DEF vars
  <2>2. TypeOK'
    BY <2>1 DEF doorVars, zoneVars, useCaseVars, IntrusionIInv, TypeOK
  <2>3. DoorsInStep' /\ OccupiedInv' /\ AtHandInv'
    BY <2>1 DEF doorVars, zoneVars, useCaseVars, IntrusionIInv, DoorsInStep, InStep,
                NoneTells, OccupiedInv, AtHandInv
  <2>4. Intrusions' = Intrusions
    BY <2>1, SameIntrusions DEF doorVars, zoneVars
  <2>5. \A z \in owed : OwedComes(z)'
    BY <2>1, OwedComesKept DEF doorVars, zoneVars, useCaseVars, IntrusionIInv, OwedInv, IsLeft
  <2>6. QED
    BY <2>1, <2>2, <2>3, <2>4, <2>5 DEF IntrusionIInv, OwedInv
<1>3. QED
  BY <1>1, <1>2

\* With no message about a door in the inbox, the program knows the door's
\* state unless a notification was lost.
LEMMA InStepIsKnown ==
  ASSUME DoorsInStep
  PROVE  DoorsAreKnown
  BY DEF DoorsInStep, InStep, NoneTells, Tells, DoorsAreKnown

\* With nothing on its way, only an unannounced intrusion is owed its alarm.
LEMMA QuietOwesNothing ==
  ASSUME OwedInv
  PROVE  NoMissedIntrusion
<1>1. SUFFICES ASSUME Quiet, NEW z \in owed PROVE Unannounced(z)
  BY DEF NoMissedIntrusion
<1>2. ~DoorEventComes /\ ~ZoneEventComes(z) /\ ~IsLeft
  BY <1>1, EmptyContainsNone DEF Quiet, DoorEventComes, ZoneEventComes, IsLeft
<1>3. QED
  BY <1>2 DEF OwedInv, OwedComes

\* However the contact, occupancy, use-case and operator threads interleave: a
\* door whose messages are handled is known, and once nothing is on its way
\* every intrusion has sounded the sirens, but for a door found by a refresh.
THEOREM IntrusionSafety == Spec => []IntrusionInv
<1>1. Init => IntrusionIInv
  BY IntrusionInit
<1>2. IntrusionIInv /\ [Next]_vars => IntrusionIInv'
  BY IntrusionStep
<1>3. IntrusionIInv => IntrusionInv
  BY InStepIsKnown, QuietOwesNothing DEF IntrusionIInv, IntrusionInv
<1>4. QED
  BY <1>1, <1>2, <1>3, PTL DEF Spec

-----------------------------------------------------------------------------
(* DoorWatch. *)

\* An entry which has not taken over an opening that still counts, dates its status
\* no earlier than its opening.
DatedSlot ==
  {e \in D!Slot : e.merged \/ Grace <= e.openedAge \/ e.statusAge <= e.openedAge}

DoorIInv == D!TypeOK /\ slots \in [1 .. Capacity -> DatedSlot]

\* The ages are natural numbers, the one of a status capped no earlier.
LEMMA AgesAreNats ==
  /\ Capacity \in Nat /\ Grace \in Nat /\ StaleAge \in Nat /\ RetryAge \in Nat
  /\ D!StatusCap \in Nat /\ Grace <= D!StatusCap
  /\ \A a \in Addrs : OwnerOf[a] \in Sensors
BY DoorAssumption DEF D!StatusCap

\* A smallest member of a set of natural numbers that is not empty.
LEMMA SmallestNat ==
  ASSUME NEW is \in SUBSET Nat, is # {}
  PROVE  \E i \in is : \A j \in is : i <= j
<1>1. \E i \in is : \A j \in is : ~(<<j, i>> \in OpToRel(<, Nat))
  BY NatLessThanWellFounded, WFMin
<1>2. PICK i \in is : \A j \in is : ~(<<j, i>> \in OpToRel(<, Nat))
  BY <1>1
<1>3. \A j \in is : i <= j
  <2>1. SUFFICES ASSUME NEW j \in is PROVE i <= j
    OBVIOUS
  <2>2. i \in Nat /\ j \in Nat /\ ~(j < i)
    BY <1>2 DEF OpToRel
  <2>3. QED
    BY <2>2
<1>4. QED
  BY <1>3

\* The loops over the entries find one of those they look for, or none.
LEMMA FirstIsFound ==
  ASSUME NEW is \in SUBSET (1 .. num), num \in Nat
  PROVE  D!FirstOf(is) \in is \cup {0}
<1>1. CASE is = {}
  BY <1>1 DEF D!FirstOf
<1>2. CASE is # {}
  <2>1. \E i \in is : \A j \in is : i <= j
    BY <1>2, SmallestNat
  <2>2. QED
    BY <1>2, <2>1 DEF D!FirstOf
<1>3. QED
  BY <1>1, <1>2

\* The entry of an address.
LEMMA EntryIsFound ==
  ASSUME num \in Nat, NEW a, D!EntryOf(a) # 0
  PROVE  D!EntryOf(a) \in 1 .. num /\ slots[D!EntryOf(a)].addr = a
<1>1. D!EntryOf(a) \in {i \in 1 .. num : slots[i].addr = a} \cup {0}
  BY FirstIsFound DEF D!EntryOf
<1>2. QED
  BY <1>1

\* The invariant, taken apart.
LEMMA DoorFacts ==
  ASSUME DoorIInv
  PROVE  /\ slots \in [1 .. Capacity -> DatedSlot] /\ num \in 0 .. Capacity /\ num \in Nat
         /\ \A i \in 1 .. num : i \in 1 .. Capacity /\ slots[i].addr \in Addrs
         /\ heard \subseteq Addrs /\ cached \subseteq Addrs
BY AgesAreNats DEF DoorIInv, D!TypeOK

\* The rounds of a merge: each works on what the one before has left.
LEMMA MergeIsRounds ==
  ASSUME NEW a, num \in Nat
  PROVE  \E p : /\ D!Merged(a) = p[1] /\ p[num + 1] = D!MergeStart(a)
                /\ \A i \in 1 .. num : p[i] = D!MergeStep(a, i, p[i + 1])
<1> DEFINE Goes(k, p) == p = [i \in k .. num + 1 |->
                                IF i = num + 1 THEN D!MergeStart(a) ELSE D!MergeStep(a, i, p[i + 1])]
           bad == {n \in 0 .. num : ~ \E p : Goes(num + 1 - n, p)}
<1>1. D!Merged(a) = (CHOOSE p : Goes(1, p))[1]
  BY DEF D!Merged
<1>2. \A n \in 0 .. num : n \notin bad => \E p : Goes(num + 1 - n, p)
  OBVIOUS
<1>3. bad = {}
  <2>1. SUFFICES ASSUME bad # {} PROVE FALSE
    OBVIOUS
  <2>2. bad \in SUBSET Nat
    OBVIOUS
  <2>3. PICK n \in bad : \A m \in bad : n <= m
    BY <2>1, <2>2, SmallestNat
  <2>4. n \in 0 .. num /\ ~ \E p : Goes(num + 1 - n, p)
    OBVIOUS
  <2>5. n # 0
    <3>1. SUFFICES ASSUME n = 0 PROVE FALSE
      OBVIOUS
    <3>2. num + 1 - n = num + 1 /\ num + 1 .. num + 1 = {num + 1}
      BY <3>1
    <3>3. Goes(num + 1 - n, [i \in {num + 1} |-> D!MergeStart(a)])
      BY <3>2
    <3>4. QED
      BY <2>4, <3>3
  <2>6. n - 1 \in 0 .. num /\ n - 1 \notin bad
    <3>1. n - 1 \in 0 .. num /\ ~(n <= n - 1)
      BY <2>4, <2>5
    <3> HIDE DEF bad
    <3>2. QED
      BY <2>3, <3>1
  <2>7. PICK q : Goes(num + 1 - (n - 1), q)
    BY <1>2, <2>6
  <2> DEFINE k == num + 1 - n
             p == [i \in k .. num + 1 |-> IF i = k THEN D!MergeStep(a, k, q[k + 1]) ELSE q[i]]
  <2>8. k \in 1 .. num /\ num + 1 - (n - 1) = k + 1
    BY <2>4, <2>5
  <2>9. \A i \in k + 1 .. num + 1 :
          q[i] = IF i = num + 1 THEN D!MergeStart(a) ELSE D!MergeStep(a, i, q[i + 1])
    BY <2>7, <2>8
  <2>10. \A i \in k .. num + 1 :
           p[i] = IF i = num + 1 THEN D!MergeStart(a) ELSE D!MergeStep(a, i, p[i + 1])
    BY <2>8, <2>9
  <2>11. Goes(k, p)
    BY <2>10
  <2>12. QED
    BY <2>4, <2>11
<1>4. PICK p : p = (CHOOSE q : Goes(1, q)) /\ Goes(1, p)
  <2> HIDE DEF bad
  <2>1. num \in 0 .. num /\ num \notin bad /\ num + 1 - num = 1
    BY <1>3
  <2>2. \E q : Goes(num + 1 - num, q)
    BY <1>2, <2>1
  <2>3. QED
    BY <2>1, <2>2
<1>5. \A i \in 1 .. num + 1 :
        p[i] = IF i = num + 1 THEN D!MergeStart(a) ELSE D!MergeStep(a, i, p[i + 1])
  BY <1>4
<1>6. p[num + 1] = D!MergeStart(a) /\ \A i \in 1 .. num : p[i] = D!MergeStep(a, i, p[i + 1])
  BY <1>5
<1>7. QED
  BY <1>1, <1>4, <1>6

\* What r, the table during a merge, is like when the entries from i on were passed.
Merging(i, r) ==
  /\ r.slots \in [1 .. Capacity -> DatedSlot] /\ r.num \in i - 1 .. num
  /\ \A j \in 1 .. r.num : r.slots[j].addr \in Addrs

\* The entry of a gets its IEEE address.
LEMMA MergeBegins ==
  ASSUME DoorIInv, NEW a \in Addrs, D!Registered(a)
  PROVE  Merging(num + 1, D!MergeStart(a))
<1> DEFINE t == D!EntryOf(a)
           x == [slots[t] EXCEPT !.ieee = OwnerOf[a]]
<1>1. t \in 1 .. num /\ t \in 1 .. Capacity /\ slots[t] \in DatedSlot /\ slots[t].addr \in Addrs
  BY DoorFacts, EntryIsFound DEF D!Registered
<1>2. x \in DatedSlot /\ x.addr = slots[t].addr
  BY <1>1, AgesAreNats DEF DatedSlot, D!Slot
<1>3. D!MergeStart(a) = [slots |-> [slots EXCEPT ![t] = x], num |-> num, target |-> t]
  BY DEF D!MergeStart
<1> HIDE DEF t, x
<1>4. QED
  BY <1>1, <1>2, <1>3, DoorFacts DEF Merging

\* A round, which removes entry i or leaves it: what the entry that stays takes over
\* is marked, and entries that move down keep their dates.
LEMMA MergeRound ==
  ASSUME DoorIInv, NEW a, NEW i \in 1 .. num, NEW r, Merging(i + 1, r)
  PROVE  Merging(i, D!MergeStep(a, i, r))
<1> DEFINE e == r.slots[i]
           t == r.target
           n == r.num
           kept == [r.slots EXCEPT ![t] = D!TakeOver(e, r.slots[t])]
<1>1. n \in i .. num /\ i \in 1 .. n /\ num \in Nat /\ num <= Capacity /\ Capacity \in Nat
  BY DoorFacts, AgesAreNats DEF Merging
<1>2. CASE e.addr = a \/ e.ieee # OwnerOf[a]
  <2>1. D!MergeStep(a, i, r) = r
    BY <1>2 DEF D!MergeStep
  <2>2. QED
    BY <1>1, <2>1 DEF Merging
<1>3. CASE ~(e.addr = a \/ e.ieee # OwnerOf[a])
  <2>1. /\ D!MergeStep(a, i, r).slots = D!MoveDown(kept, i, n)
        /\ D!MergeStep(a, i, r).num = n - 1
    BY <1>3 DEF D!MergeStep
  <2>2. e \in DatedSlot
    BY <1>1 DEF Merging
  <2>3. ASSUME NEW y \in DatedSlot
        PROVE  D!TakeOver(e, y) \in DatedSlot /\ D!TakeOver(e, y).addr = y.addr
    BY <2>2, <2>3 DEF D!TakeOver, DatedSlot, D!Slot
  <2>4. /\ kept \in [1 .. Capacity -> DatedSlot]
        /\ \A j \in 1 .. Capacity : kept[j].addr = r.slots[j].addr
    BY <2>3 DEF Merging
  <2> HIDE DEF kept
  <2>5. /\ DOMAIN kept = 1 .. Capacity
        /\ \A j \in 1 .. Capacity : j \in i .. n - 1 => j + 1 \in 1 .. Capacity
        /\ \A j \in 1 .. n - 1 : j \in 1 .. n /\ j + 1 \in 1 .. n /\ j \in 1 .. Capacity
                                 /\ j + 1 \in 1 .. Capacity
    BY <1>1, <2>4
  <2>6. D!MoveDown(kept, i, n) \in [1 .. Capacity -> DatedSlot]
    BY <2>4, <2>5 DEF D!MoveDown
  <2>7. ASSUME NEW j \in 1 .. n - 1
        PROVE  D!MoveDown(kept, i, n)[j].addr \in Addrs
    BY <2>4, <2>5 DEF D!MoveDown, Merging
  <2>8. n - 1 \in i - 1 .. num
    BY <1>1
  <2>9. QED
    BY <2>1, <2>6, <2>7, <2>8 DEF Merging
<1>4. QED
  BY <1>2, <1>3

\* What the loop leaves.
LEMMA MergedIsDated ==
  ASSUME DoorIInv, NEW a \in Addrs, D!Registered(a)
  PROVE  Merging(1, D!Merged(a))
<1>1. PICK p : /\ D!Merged(a) = p[1] /\ p[num + 1] = D!MergeStart(a)
               /\ \A i \in 1 .. num : p[i] = D!MergeStep(a, i, p[i + 1])
  BY DoorFacts, MergeIsRounds
<1> DEFINE Holds(i) == Merging(i, p[i])
           bad == {n \in 0 .. num : ~ Holds(num + 1 - n)}
<1>2. \A n \in 0 .. num : n \notin bad => Holds(num + 1 - n)
  OBVIOUS
<1>3. bad = {}
  <2>1. SUFFICES ASSUME bad # {} PROVE FALSE
    OBVIOUS
  <2>2. bad \in SUBSET Nat
    OBVIOUS
  <2>3. PICK n \in bad : \A m \in bad : n <= m
    BY <2>1, <2>2, SmallestNat
  <2>4. n \in 0 .. num /\ ~ Holds(num + 1 - n) /\ num \in Nat
    BY DoorFacts
  <2>5. n # 0
    <3>1. SUFFICES ASSUME n = 0 PROVE FALSE
      OBVIOUS
    <3>2. num + 1 - n = num + 1
      BY <2>4, <3>1
    <3>3. QED
      BY <1>1, <2>4, <3>2, MergeBegins
  <2>6. n - 1 \in 0 .. num /\ n - 1 \notin bad
    <3>1. n - 1 \in 0 .. num /\ ~(n <= n - 1)
      BY <2>4, <2>5
    <3> HIDE DEF bad
    <3>2. QED
      BY <2>3, <3>1
  <2> DEFINE k == num + 1 - n
  <2>7. k \in 1 .. num /\ num + 1 - (n - 1) = k + 1
    BY <2>4, <2>5
  <2>8. Merging(k + 1, p[k + 1])
    <3> HIDE DEF bad
    <3>1. Holds(num + 1 - (n - 1))
      BY <1>2, <2>6
    <3>2. QED
      BY <2>7, <3>1
  <2> HIDE DEF k
  <2>9. Merging(k, D!MergeStep(a, k, p[k + 1]))
    BY <2>7, <2>8, MergeRound
  <2>10. Holds(k)
    BY <1>1, <2>7, <2>9
  <2>11. QED
    BY <2>4, <2>10 DEF k
<1>4. Holds(num + 1 - num) /\ num + 1 - num = 1
  <2> HIDE DEF bad
  <2>1. num \in 0 .. num /\ num \notin bad /\ num + 1 - num = 1
    BY <1>3, DoorFacts
  <2>2. QED
    BY <1>2, <2>1
<1>5. QED
  BY <1>1, <1>4

\* The doors and their sensors: no entry changes but by growing older.
LEMMA SensorsStep ==
  ASSUME DoorIInv,
         \/ D!Tick \/ D!ReportLost
         \/ \E d \in Sensors : D!DoorMoves(d)
         \/ \E a \in Addrs : D!SensorAnswers(a) \/ D!ReadLost(a) \/ D!Join(a)
  PROVE  DoorIInv'
<1>1. CASE D!Tick
  <2> DEFINE Aged(e) == [e EXCEPT !.openedAge = D!Older(@, Grace),
                                  !.statusAge = D!Older(@, D!StatusCap),
                                  !.readAge = D!Older(@, RetryAge)]
  <2>1. ASSUME NEW e \in DatedSlot PROVE Aged(e) \in DatedSlot /\ Aged(e).addr = e.addr
    <3> DEFINE o == D!Older(e.openedAge, Grace)
               s == D!Older(e.statusAge, D!StatusCap)
               r == D!Older(e.readAge, RetryAge)
    <3>1. /\ e \in D!Slot /\ e.openedAge \in 0 .. Grace /\ e.statusAge \in 0 .. D!StatusCap
          /\ e.readAge \in 0 .. RetryAge
          /\ e.merged \/ Grace <= e.openedAge \/ e.statusAge <= e.openedAge
      BY <2>1 DEF DatedSlot, D!Slot
    <3>2. o \in 0 .. Grace /\ s \in 0 .. D!StatusCap /\ r \in 0 .. RetryAge
      BY <3>1, AgesAreNats DEF D!Older
    <3>3. e.merged \/ Grace <= o \/ s <= o
      BY <3>1, AgesAreNats DEF D!Older
    <3>4. Aged(e) = [e EXCEPT !.openedAge = o, !.statusAge = s, !.readAge = r]
      BY <3>1 DEF D!Slot
    <3> HIDE DEF o, s, r, Aged
    <3>5. QED
      BY <3>1, <3>2, <3>3, <3>4 DEF DatedSlot, D!Slot
  <2>2. slots' = [i \in 1 .. Capacity |-> Aged(slots[i])]
    BY <1>1 DEF D!Tick
  <2> HIDE DEF Aged
  <2>3. /\ slots' \in [1 .. Capacity -> DatedSlot]
        /\ \A i \in 1 .. num : slots'[i].addr \in Addrs
    BY <2>1, <2>2, DoorFacts
  <2>4. slots' \in [1 .. Capacity -> D!Slot]
    BY <2>3 DEF DatedSlot
  <2>5. QED
    BY <1>1, <2>3, <2>4 DEF D!Tick, D!sensorVars, D!joinVars, DoorIInv, D!TypeOK
<1>2. CASE D!ReportLost
  <2>1. sent' \in Seq(D!Report)
    BY <1>2 DEF D!ReportLost, DoorIInv, D!TypeOK
  <2>2. losses' \in 0 .. MaxLosses
    BY <1>2, DoorAssumption DEF D!ReportLost, DoorIInv, D!TypeOK
  <2>3. QED
    BY <1>2, <2>1, <2>2 DEF D!ReportLost, D!sensorVars, D!joinVars, DoorIInv, D!TypeOK
<1>3. ASSUME NEW d \in Sensors, D!DoorMoves(d) PROVE DoorIInv'
  <2>1. sent' \in Seq(D!Report)
    <3>1. CASE at[d] = NoAddr
      BY <1>3, <3>1 DEF D!DoorMoves, DoorIInv, D!TypeOK
    <3>2. CASE at[d] # NoAddr
      <4>1. [addr |-> at[d], kind |-> "notification", open |-> ~ajar[d]] \in D!Report
        BY <3>2 DEF D!Report, DoorIInv, D!TypeOK
      <4>2. QED
        BY <1>3, <3>2, <4>1 DEF D!DoorMoves, DoorIInv, D!TypeOK
    <3>3. QED
      BY <3>1, <3>2
  <2>2. turns' \in 0 .. MaxTurns
    BY <1>3, DoorAssumption DEF D!DoorMoves, DoorIInv, D!TypeOK
  <2>3. QED
    BY <1>3, <2>1, <2>2 DEF D!DoorMoves, D!joinVars, DoorIInv, D!TypeOK
<1>4. ASSUME NEW a \in Addrs, D!SensorAnswers(a) PROVE DoorIInv'
  <2>1. OwnerOf[a] \in Sensors /\ ajar[OwnerOf[a]] \in BOOLEAN
    BY AgesAreNats DEF DoorIInv, D!TypeOK
  <2>2. [addr |-> a, kind |-> "answer", open |-> ajar[OwnerOf[a]]] \in D!Report
    BY <2>1 DEF D!Report
  <2>3. sent' \in Seq(D!Report) /\ reads' \subseteq Addrs
    BY <1>4, <2>2 DEF D!SensorAnswers, DoorIInv, D!TypeOK
  <2>4. QED
    BY <1>4, <2>3 DEF D!SensorAnswers, D!sensorVars, D!joinVars, DoorIInv, D!TypeOK
<1>5. ASSUME NEW a \in Addrs, D!ReadLost(a) PROVE DoorIInv'
  <2>1. losses' \in 0 .. MaxLosses /\ reads' \subseteq Addrs
    BY <1>5, DoorAssumption DEF D!ReadLost, DoorIInv, D!TypeOK
  <2>2. QED
    BY <1>5, <2>1 DEF D!ReadLost, D!sensorVars, D!joinVars, DoorIInv, D!TypeOK
<1>6. ASSUME NEW a \in Addrs, D!Join(a) PROVE DoorIInv'
  BY <1>6, AgesAreNats DEF D!Join, DoorIInv, D!TypeOK
<1>7. QED
  BY <1>1, <1>2, <1>3, <1>4, <1>5, <1>6

\* The main thread: a slot that is used again, and an entry that moves, keep their
\* dates; what a merge takes over is marked.
LEMMA RegistryStep ==
  ASSUME DoorIInv, NEW a \in Addrs,
         D!Announce(a) \/ D!Discover(a) \/ D!IeeeResponse(a) \/ D!SetUp(a)
  PROVE  DoorIInv'
<1>1. CASE D!Announce(a)
  BY <1>1 DEF D!Announce, D!sensorVars, D!joinVars, DoorIInv, D!TypeOK
<1>2. ASSUME slots' \in [1 .. Capacity -> DatedSlot], num' \in 0 .. Capacity,
             \A i \in 1 .. num' : slots'[i].addr \in Addrs,
             cached' \subseteq Addrs, UNCHANGED <<D!sensorVars, sent, reads, losses>>
      PROVE  DoorIInv'
  BY <1>2 DEF DatedSlot, D!sensorVars, DoorIInv, D!TypeOK
<1>3. ASSUME NEW y \in DatedSlot, NEW i \in Sensors \cup {NoIeee}, NEW c \in BOOLEAN
      PROVE  /\ [y EXCEPT !.addr = a, !.ieee = i, !.configured = c, !.isOpen = FALSE] \in DatedSlot
             /\ [y EXCEPT !.addr = a, !.configured = c, !.ieee = i] \in DatedSlot
             /\ [y EXCEPT !.configured = c, !.ieee = i] \in DatedSlot
  BY <1>3 DEF DatedSlot, D!Slot
<1>4. CASE D!Discover(a)
  <2> DEFINE i == D!FirstOf({j \in 1 .. num : slots[j].addr = a
                                              \/ (a \in cached /\ slots[j].ieee = OwnerOf[a])})
  <2>1. i \in 1 .. num \/ i = 0
    BY FirstIsFound, DoorFacts
  <2>2. CASE i = 0
    <3>1. D!Register(a)
      BY <1>4, <2>2 DEF D!Discover
    <3>2. CASE num < Capacity
      <4>1. num + 1 \in 1 .. Capacity
        BY <3>2, DoorFacts, AgesAreNats
      <4> DEFINE x == [slots[num + 1] EXCEPT
                         !.addr = a, !.ieee = IF a \in cached THEN OwnerOf[a] ELSE NoIeee,
                         !.configured = FALSE, !.isOpen = FALSE]
      <4>2. x \in DatedSlot /\ x.addr = a
        <5>1. slots[num + 1] \in DatedSlot /\ OwnerOf[a] \in Sensors
          BY <4>1, DoorFacts, AgesAreNats
        <5>2. (IF a \in cached THEN OwnerOf[a] ELSE NoIeee) \in Sensors \cup {NoIeee}
          BY <5>1
        <5>3. x \in DatedSlot
          BY <1>3, <5>1, <5>2
        <5>4. QED
          BY <5>1, <5>3 DEF DatedSlot, D!Slot
      <4>3. slots' = [slots EXCEPT ![num + 1] = x] /\ num' = num + 1
        BY <3>1, <3>2 DEF D!Register
      <4> HIDE DEF x
      <4>4. slots' \in [1 .. Capacity -> DatedSlot] /\ num' \in 0 .. Capacity
        BY <4>1, <4>2, <4>3, DoorFacts
      <4>5. \A j \in 1 .. num' : j \in 1 .. num \/ j = num + 1
        BY <4>3, DoorFacts
      <4>6. \A j \in 1 .. num' : slots'[j].addr \in Addrs
        BY <4>1, <4>2, <4>3, <4>5, DoorFacts
      <4>7. QED
        BY <1>2, <1>4, <4>4, <4>6, DoorFacts DEF D!Discover
    <3>3. CASE ~(num < Capacity)
      BY <1>2, <1>4, <3>1, <3>3, DoorFacts DEF D!Discover, D!Register
    <3>4. QED
      BY <3>2, <3>3
  <2>3. CASE i # 0
    <3>1. D!Refresh(i, a) /\ i \in 1 .. num
      BY <1>4, <2>1, <2>3 DEF D!Discover
    <3> HIDE DEF i
    <3> DEFINE x == [slots[i] EXCEPT
                       !.addr = a, !.configured = slots[i].configured /\ slots[i].addr = a,
                       !.ieee = IF slots[i].ieee = NoIeee /\ a \in cached THEN OwnerOf[a]
                                ELSE slots[i].ieee]
    <3>2. x \in DatedSlot /\ x.addr = a
      <4>1. slots[i] \in DatedSlot /\ OwnerOf[a] \in Sensors
        BY <3>1, DoorFacts, AgesAreNats
      <4>2. slots[i].configured \in BOOLEAN /\ slots[i].ieee \in Sensors \cup {NoIeee}
        BY <4>1 DEF DatedSlot, D!Slot
      <4>3. /\ (slots[i].configured /\ slots[i].addr = a) \in BOOLEAN
            /\ (IF slots[i].ieee = NoIeee /\ a \in cached THEN OwnerOf[a] ELSE slots[i].ieee)
                  \in Sensors \cup {NoIeee}
        BY <4>1, <4>2
      <4>4. x \in DatedSlot
        BY <1>3, <4>1, <4>3
      <4>5. QED
        BY <4>1, <4>4 DEF DatedSlot, D!Slot
    <3>3. slots' = [slots EXCEPT ![i] = x] /\ num' = num
      <4>1. slots[i] \in D!Slot
        BY <3>1, DoorFacts DEF DatedSlot
      <4>2. QED
        BY <3>1, <4>1 DEF D!Refresh, D!Slot
    <3> HIDE DEF x
    <3>4. slots' \in [1 .. Capacity -> DatedSlot] /\ \A j \in 1 .. num : slots'[j].addr \in Addrs
      BY <3>1, <3>2, <3>3, DoorFacts
    <3>5. QED
      BY <1>2, <1>4, <3>3, <3>4, DoorFacts DEF D!Discover
  <2>4. QED
    BY <2>2, <2>3
<1>5. CASE D!IeeeResponse(a)
  <2>1. cached' \subseteq Addrs
    BY <1>5, DoorFacts DEF D!IeeeResponse
  <2>2. CASE D!Registered(a)
    <3>1. Merging(1, D!Merged(a)) /\ slots' = D!Merged(a).slots /\ num' = D!Merged(a).num
      BY <1>5, <2>2, MergedIsDated DEF D!IeeeResponse
    <3>2. num' \in 0 .. Capacity
      BY <3>1, DoorFacts, AgesAreNats DEF Merging
    <3>3. QED
      BY <1>2, <1>5, <2>1, <3>1, <3>2 DEF Merging, D!IeeeResponse
  <2>3. CASE ~D!Registered(a)
    BY <1>2, <1>5, <2>1, <2>3, DoorFacts DEF D!IeeeResponse
  <2>4. QED
    BY <2>2, <2>3
<1>6. CASE D!SetUp(a)
  <2> DEFINE i == D!EntryOf(a)
             x == [slots[i] EXCEPT !.configured = TRUE,
                                   !.ieee = IF @ = NoIeee THEN OwnerOf[a] ELSE @]
  <2>1. i \in 1 .. num /\ slots[i] \in DatedSlot
    BY <1>6, DoorFacts, EntryIsFound DEF D!SetUp, D!Registered
  <2>2. x \in DatedSlot /\ x.addr = slots[i].addr
    BY <2>1, AgesAreNats DEF DatedSlot, D!Slot
  <2>3. slots' = [slots EXCEPT ![i] = x]
    BY <1>6 DEF D!SetUp
  <2> HIDE DEF i, x
  <2>4. slots' \in [1 .. Capacity -> DatedSlot] /\ \A j \in 1 .. num : slots'[j].addr \in Addrs
    BY <2>1, <2>2, <2>3, DoorFacts
  <2>5. QED
    BY <1>2, <1>6, <2>4, DoorFacts DEF D!SetUp
<1>7. QED
  BY <1>1, <1>4, <1>5, <1>6

\* The contact thread and the reads: a report that dates an opening dates the status,
\* and ends what was taken over.
LEMMA ReportsStep ==
  ASSUME DoorIInv, D!StoreNotification \/ D!StoreAnswer \/ D!RefreshIfStale
  PROVE  DoorIInv'
<1> DEFINE Dated(y, o, g) ==
             [y EXCEPT !.isOpen = o, !.openedAge = g, !.statusAge = 0, !.merged = FALSE]
<1>1. ASSUME NEW y \in DatedSlot, NEW o \in BOOLEAN, NEW g \in {0, y.openedAge}
      PROVE  Dated(y, o, g) \in DatedSlot /\ Dated(y, o, g).addr = y.addr
  <2>1. /\ y \in D!Slot /\ g \in 0 .. Grace /\ 0 \in 0 .. D!StatusCap
        /\ Grace <= g \/ 0 <= g
    BY <1>1, AgesAreNats DEF DatedSlot, D!Slot
  <2>2. QED
    BY <2>1 DEF DatedSlot, D!Slot
<1>2. CASE D!StoreNotification \/ D!StoreAnswer
  <2> DEFINE a == Head(sent).addr
             i == D!EntryOf(a)
             o == Head(sent).open
             y == slots[i]
             g == IF o /\ (D!StoreNotification \/ ~y.isOpen) THEN 0 ELSE y.openedAge
             x == Dated(y, o, g)
  <2>1. sent # <<>> /\ sent' = Tail(sent) /\ UNCHANGED <<D!sensorVars, cached, num, reads, losses>>
    BY <1>2 DEF D!StoreNotification, D!StoreAnswer, D!Take
  <2>2. sent' \in Seq(D!Report) /\ o \in BOOLEAN
    <3>1. sent \in Seq(D!Report) /\ sent # <<>>
      BY <2>1 DEF DoorIInv, D!TypeOK
    <3>2. Head(sent) \in D!Report /\ Tail(sent) \in Seq(D!Report)
      BY <3>1
    <3>3. QED
      BY <2>1, <3>2 DEF D!Report
  <2>3. slots' = IF i = 0 THEN slots ELSE [slots EXCEPT ![i] = x]
    <3>1. CASE D!StoreNotification
      BY <3>1 DEF D!StoreNotification, D!StoredFor, D!Reported
    <3>2. CASE D!StoreAnswer /\ ~D!StoreNotification
      BY <3>2 DEF D!StoreAnswer, D!StoredFor, D!Reported
    <3>3. QED
      BY <1>2, <3>1, <3>2
  <2>4. i # 0 => i \in 1 .. num /\ y \in DatedSlot
    BY DoorFacts, EntryIsFound
  <2>5. g \in {0, y.openedAge}
    OBVIOUS
  <2>6. i # 0 => x \in DatedSlot /\ x.addr = y.addr
    <3>1. SUFFICES ASSUME i # 0 PROVE x \in DatedSlot /\ x.addr = y.addr
      OBVIOUS
    <3>2. y \in DatedSlot
      BY <2>4, <3>1
    <3> HIDE DEF g, y, o, Dated
    <3>3. QED
      BY <1>1, <2>2, <2>5, <3>2
  <2> HIDE DEF i, x
  <2>7. slots' \in [1 .. Capacity -> DatedSlot] /\ \A j \in 1 .. num : slots'[j].addr \in Addrs
    BY <2>3, <2>4, <2>6, DoorFacts
  <2>8. slots' \in [1 .. Capacity -> D!Slot]
    BY <2>7 DEF DatedSlot
  <2>9. QED
    BY <2>1, <2>2, <2>7, <2>8 DEF D!sensorVars, D!joinVars, DoorIInv, D!TypeOK
<1>3. CASE D!RefreshIfStale
  <2> DEFINE is == {i \in 1 .. num : D!IsStale(slots[i])}
  <2>1. D!Read(is)
    BY <1>3 DEF D!RefreshIfStale
  <2> HIDE DEF is
  <2>2. reads' \subseteq Addrs
    <3>1. is \subseteq 1 .. num
      BY DEF is
    <3>2. QED
      BY <2>1, <3>1, DoorFacts DEF D!Read, DoorIInv, D!TypeOK
  <2>3. ASSUME NEW y \in DatedSlot
        PROVE  [y EXCEPT !.readAge = 0] \in DatedSlot /\ [y EXCEPT !.readAge = 0].addr = y.addr
    BY <2>3, AgesAreNats DEF DatedSlot, D!Slot
  <2>4. slots' = [i \in 1 .. Capacity |-> IF i \in is THEN [slots[i] EXCEPT !.readAge = 0]
                                          ELSE slots[i]]
    BY <2>1 DEF D!Read
  <2>5. slots' \in [1 .. Capacity -> DatedSlot] /\ \A j \in 1 .. num : slots'[j].addr \in Addrs
    BY <2>3, <2>4, DoorFacts
  <2>6. slots' \in [1 .. Capacity -> D!Slot]
    BY <2>5 DEF DatedSlot
  <2>7. QED
    BY <2>1, <2>2, <2>5, <2>6 DEF D!Read, D!sensorVars, D!joinVars, DoorIInv, D!TypeOK
<1>4. QED
  BY <1>2, <1>3

\* However reports, reads, rejoins and merges of any number of sensors interleave: the
\* grace window counts a door as open that is believed closed only where an opening
\* was taken over from the entry of an older address, and nothing was reported since.
THEOREM DoorSafety == MCSpec => []DoorInv
<1>1. MCInit => DoorIInv
  <2> SUFFICES ASSUME MCInit PROVE DoorIInv
    OBVIOUS
  <2>1. D!NoSlot \in DatedSlot
    BY AgesAreNats DEF D!NoSlot, DatedSlot, D!Slot
  <2>2. slots \in [1 .. Capacity -> DatedSlot] /\ slots \in [1 .. Capacity -> D!Slot]
    BY <2>1 DEF MCInit, D!Init, DatedSlot
  <2>3. heard \subseteq Addrs /\ at \in [Sensors -> Addrs \cup {NoAddr}]
    BY DoorAssumption DEF MCInit, D!Init
  <2>4. num = 0 /\ num \in 0 .. Capacity /\ turns \in 0 .. MaxTurns /\ losses \in 0 .. MaxLosses
    BY AgesAreNats, DoorAssumption DEF MCInit, D!Init
  <2>5. QED
    BY <2>2, <2>3, <2>4 DEF MCInit, D!Init, DoorIInv, D!TypeOK
<1>2. DoorIInv /\ [IntrusionNext \/ DoorNext]_<<vars, watchVars, subject>> => DoorIInv'
  <2> SUFFICES ASSUME DoorIInv, [IntrusionNext \/ DoorNext]_<<vars, watchVars, subject>>
               PROVE  DoorIInv'
    OBVIOUS
  <2>1. CASE D!Next
    BY <2>1, SensorsStep, RegistryStep, ReportsStep DEF D!Next
  <2>2. CASE UNCHANGED watchVars
    BY <2>2 DEF watchVars, DoorIInv, D!TypeOK
  <2>3. QED
    BY <2>1, <2>2 DEF IntrusionNext, DoorNext
<1>3. DoorIInv => DoorInv
  <2> SUFFICES ASSUME DoorIInv PROVE DoorInv
    OBVIOUS
  <2>1. ASSUME NEW i \in 1 .. num, ~slots[i].merged
        PROVE  D!ContactCountsAsOpen(slots[i]) <=> slots[i].isOpen
    <3>1. slots[i] \in DatedSlot
      BY DoorFacts
    <3>2. QED
      BY <2>1, <3>1, AgesAreNats DEF D!ContactCountsAsOpen, DatedSlot, D!Slot
  <2>2. QED
    BY <2>1 DEF DoorIInv, DoorInv, D!DoorInv, D!GraceComesFromMerges
<1>4. QED
  BY <1>1, <1>2, <1>3, PTL DEF MCSpec

=============================================================================
