--------------------------- MODULE MCTables_proofs ---------------------------
(***************************************************************************)
(* Proofs about two tables: the presses of the Aqara buttons (AqaraSos),   *)
(* for any number of buttons, any window and any delay of the use-case     *)
(* thread; and the registry of the contact sensors (ContactRegistry), for  *)
(* any sensors, addresses, capacity and number of restarts.                *)
(***************************************************************************)
EXTENDS MCTables, SequenceTheorems, FiniteSetTheorems, WellFoundedInduction, TLAPS

-----------------------------------------------------------------------------
\* What is remembered of a button: the presses p that wait for a third, the
\* presses l that counted, and the last one e that was no duplicate.
Remembered(p, l, e) ==
  LET n == Len(l) IN
    /\ n <= 4 /\ e <= now
    /\ \A i \in 1 .. n : l[i] <= e
    /\ \A i \in 1 .. n - 1 : l[i] <= l[i + 1]
    /\ Len(p) <= 2 /\ Len(p) <= n
    /\ \A i \in 1 .. Len(p) : p[i] = l[n - Len(p) + i]
    /\ Len(p) = 2 => p[2] - p[1] \in Debounce .. Gap
    \* how many wait follows from the intervals between those that counted
    /\ n = 1 => Len(p) = 1
    /\ n = 2 /\ l[2] - l[1] <= Gap => Len(p) = 2
    /\ n >= 2 /\ l[n] - l[n - 1] > Gap => Len(p) = 1
    /\ n >= 3 /\ l[n - 1] - l[n - 2] > Gap /\ l[n] - l[n - 1] <= Gap => Len(p) = 2

SosIInv == A!TypeOK /\ \A b \in Buttons : Remembered(pressTimes[b], log[b], lastEventTime[b])

LEMMA PressConstants ==
  /\ MaxHistory \in Nat /\ MaxDelay \in Nat /\ MaxTime \in Nat /\ MaxPresses \in Nat
  /\ Debounce \in Nat \ {0} /\ Window \in Nat \ {0} /\ Gap \in Nat \ {0}
  /\ Debounce <= Window /\ Window <= Gap /\ Debounce <= MaxTime
BY PressAssumption

\* A sequence with one more at its end, of which the last four are kept.
LEMMA LastFourOfAppend ==
  ASSUME NEW T, NEW s \in Seq(T), NEW x \in T, Len(s) <= 4
  PROVE  LET t == A!LastFour(Append(s, x)) IN
           /\ t \in Seq(T) /\ Len(t) \in Nat /\ Len(s) \in Nat
           /\ Len(t) = IF Len(s) < 4 THEN Len(s) + 1 ELSE 4
           /\ t[Len(t)] = x
           /\ \A i \in 1 .. Len(t) - 1 : t[i] = s[Len(s) - Len(t) + 1 + i]
<1> DEFINE u == Append(s, x)
<1>1. /\ Len(s) \in Nat /\ u \in Seq(T) /\ Len(u) = Len(s) + 1 /\ u[Len(s) + 1] = x
      /\ \A i \in 1 .. Len(s) : u[i] = s[i]
  BY AppendProperties
<1> HIDE DEF u
<1>2. CASE Len(u) <= 4
  BY <1>1, <1>2 DEF A!LastFour, u
<1>3. CASE ~(Len(u) <= 4)
  <2> DEFINE a == Len(s)
  <2>1. a = 4 /\ Len(u) = 5
    <3>1. a \in Nat /\ a <= 4 /\ Len(u) = a + 1 /\ ~(Len(u) <= 4)
      BY <1>1, <1>3
    <3> HIDE DEF a
    <3>2. QED
      BY <3>1
  <2> DEFINE t == SubSeq(u, 2, 5)
  <2>2. A!LastFour(u) = t
    BY <1>3, <2>1 DEF A!LastFour
  <2>3. t \in Seq(T) /\ Len(t) = 4 /\ \A i \in 1 .. 4 : t[i] = u[i + 1]
    <3>1. \A i \in 2 .. 5 : u[i] \in T
      BY <1>1, <2>1, ElementOfSeq
    <3>2. /\ t \in Seq(T) /\ Len(t) = (IF 2 <= 5 THEN 5 - 2 + 1 ELSE 0)
          /\ \A i \in 1 .. 5 - 2 + 1 : t[i] = u[2 + i - 1]
      BY <3>1, SubSeqProperties
    <3> HIDE DEF t
    <3>3. Len(t) = 4 /\ \A i \in 1 .. 4 : t[i] = u[2 + i - 1] /\ 2 + i - 1 = i + 1
      BY <3>2
    <3>4. QED
      BY <3>2, <3>3
  <2> HIDE DEF t
  <2>4. t[4] = x /\ \A i \in 1 .. 3 : t[i] = s[i + 1]
    BY <1>1, <2>1, <2>3
  <2>5. QED
    BY <2>1, <2>2, <2>3, <2>4 DEF u
<1>4. QED
  BY <1>2, <1>3

\* The presses that wait, without the stale ones, and the next one.
LEMMA CountedNext ==
  ASSUME A!TypeOK, NEW b \in Buttons, Remembered(pressTimes[b], log[b], lastEventTime[b]),
         ~A!IsDuplicate(b)
  PROVE  LET q == A!Pending(b)
             p == Append(q, now)
             l == A!LastFour(Append(log[b], now))
             n == Len(l)
             m == Len(q)
         IN /\ p \in Seq(A!Times) /\ l \in Seq(A!Times) /\ Len(p) = m + 1 /\ m \in 0 .. 2
            /\ n \in 1 .. 4 /\ m < n
            /\ q = <<>> \/ (q = pressTimes[b] /\ Len(q) > 0)
            /\ p[m + 1] = now /\ l[n] = now
            /\ \A i \in 1 .. n : l[i] <= now
            /\ \A i \in 1 .. n - 1 : l[i] <= l[i + 1]
            /\ \A i \in 1 .. m : p[i] = l[n - (m + 1) + i]
            /\ m >= 1 => p[m + 1] - p[m] \in Debounce .. Gap
            /\ m = 2 => p[2] - p[1] \in Debounce .. Gap
            /\ n = 1 => m = 0
            /\ n >= 2 /\ l[n] - l[n - 1] > Gap => m = 0
            /\ n = 2 /\ l[2] - l[1] <= Gap => m = 1
            /\ n >= 3 /\ l[n - 1] - l[n - 2] > Gap /\ l[n] - l[n - 1] <= Gap => m = 1
            /\ n = 3 /\ l[2] - l[1] <= Gap /\ l[3] - l[2] <= Gap => m = 2
            /\ n = 4 /\ l[2] - l[1] > Gap /\ l[3] - l[2] <= Gap /\ l[4] - l[3] <= Gap => m = 2
<1> DEFINE w == pressTimes[b]
           s == log[b]
           e == lastEventTime[b]
           q == A!Pending(b)
           p == Append(q, now)
           l == A!LastFour(Append(s, now))
           k == Len(s)
           n == Len(l)
           m == Len(q)
<1>1. /\ w \in Seq(A!Times) /\ s \in Seq(A!Times) /\ e \in A!Times /\ now \in A!Times
      /\ Remembered(w, s, e) /\ now - e >= Debounce
  BY PressConstants DEF A!TypeOK, A!Times, A!IsDuplicate
<1>2. /\ now \in Nat /\ e \in Nat /\ k \in Nat /\ Len(w) \in Nat
      /\ \A i \in 1 .. k : s[i] \in Nat
      /\ \A i \in 1 .. Len(w) : w[i] \in Nat
      /\ w = <<>> <=> Len(w) = 0
  <2>1. now \in Nat /\ e \in Nat
    <3> HIDE DEF e
    <3>1. now \in A!Times /\ e \in A!Times
      BY <1>1
    <3>2. QED
      BY ONLY <3>1, PressConstants DEF A!Times
  <2>2. \A i \in 1 .. k : s[i] \in Nat
    <3> HIDE DEF w, s
    <3>1. \A i \in 1 .. Len(s) : s[i] \in A!Times
      BY <1>1, ElementOfSeq
    <3>2. A!Times \subseteq Nat
      BY ONLY PressConstants DEF A!Times
    <3>3. QED
      BY <3>1, <3>2
  <2>3. \A i \in 1 .. Len(w) : w[i] \in Nat
    <3> HIDE DEF w, s
    <3>1. \A i \in 1 .. Len(w) : w[i] \in A!Times
      BY <1>1, ElementOfSeq
    <3>2. A!Times \subseteq Nat
      BY ONLY PressConstants DEF A!Times
    <3>3. QED
      BY <3>1, <3>2
  <2>4. k \in Nat /\ Len(w) \in Nat /\ (w = <<>> <=> Len(w) = 0)
    BY <1>1, EmptySeq, LenProperties
  <2>5. QED
    BY <2>1, <2>2, <2>3, <2>4
<1>3. /\ k <= 4 /\ e <= now /\ Len(w) <= 2 /\ Len(w) <= k
      /\ \A i \in 1 .. k : s[i] <= e
      /\ \A i \in 1 .. k - 1 : s[i] <= s[i + 1]
      /\ \A i \in 1 .. Len(w) : w[i] = s[k - Len(w) + i]
      /\ Len(w) = 2 => w[2] - w[1] \in Debounce .. Gap
      /\ k = 1 => Len(w) = 1
      /\ k = 2 /\ s[2] - s[1] <= Gap => Len(w) = 2
      /\ k >= 2 /\ s[k] - s[k - 1] > Gap => Len(w) = 1
      /\ k >= 3 /\ s[k - 1] - s[k - 2] > Gap /\ s[k] - s[k - 1] <= Gap => Len(w) = 2
  BY <1>1 DEF Remembered
<1> HIDE DEF w, s, e
<1>4. /\ l \in Seq(A!Times) /\ n \in Nat /\ n = (IF k < 4 THEN k + 1 ELSE 4) /\ l[n] = now
      /\ \A i \in 1 .. n - 1 : l[i] = s[k - n + 1 + i]
  BY <1>1, <1>3, LastFourOfAppend
<1> HIDE DEF l, k, n
<1>5. /\ q = (IF w # <<>> /\ now - w[Len(w)] > Gap THEN <<>> ELSE w)
      /\ q \in Seq(A!Times)
  BY <1>1 DEF A!Pending, w
<1> DEFINE j == Len(w)
<1>6. \/ m = 0 /\ q = <<>> /\ j > 0 /\ now - w[j] > Gap
      \/ m = 0 /\ q = <<>> /\ j = 0
      \/ m = j /\ q = w /\ j > 0 /\ now - w[j] <= Gap
  <2>1. m \in Nat /\ (q = <<>> <=> m = 0) /\ j \in Nat /\ (w = <<>> <=> j = 0)
    BY <1>2, <1>5, EmptySeq
  <2>2. CASE w # <<>> /\ now - w[j] > Gap
    <3>1. q = <<>>
      BY <1>5, <2>2
    <3> HIDE DEF m, j
    <3>2. QED
      BY <2>1, <2>2, <3>1
  <2>3. CASE ~(w # <<>> /\ now - w[j] > Gap)
    <3>1. q = w /\ m = j
      BY <1>5, <2>3
    <3>2. j > 0 => now \in Int /\ w[j] \in Int /\ Gap \in Int /\ ~(now - w[j] > Gap)
      BY <1>2, <2>1, <2>3, PressConstants
    <3> HIDE DEF m, j
    <3>3. j > 0 => now - w[j] <= Gap
      BY <3>2
    <3>4. QED
      BY <2>1, <3>1, <3>3
  <2>4. QED
    BY <2>2, <2>3
<1>7. /\ p \in Seq(A!Times) /\ Len(p) = m + 1 /\ p[m + 1] = now
      /\ \A i \in 1 .. m : p[i] = q[i]
  BY <1>1, <1>5, AppendProperties
<1>8. /\ now \in Int /\ e \in Int /\ k \in 0 .. 4 /\ j \in 0 .. 2 /\ j <= k
      /\ e <= now /\ now - e >= Debounce
      /\ \A i \in 1 .. k : s[i] \in Int /\ s[i] <= e
      /\ \A i \in 1 .. j : w[i] \in Int /\ w[i] = s[k - j + i]
      /\ Debounce \in Int /\ Gap \in Int
  <2>1. k \in 0 .. 4 /\ j \in 0 .. 2 /\ j <= k
    <3>1. k \in Nat /\ j \in Nat /\ k <= 4 /\ j <= 2 /\ j <= k
      BY <1>2, <1>3
    <3> HIDE DEF j
    <3>2. QED
      BY <3>1
  <2>2. \A i \in 1 .. k : s[i] \in Int /\ s[i] <= e
    BY <1>2, <1>3
  <2>3. \A i \in 1 .. j : w[i] \in Int /\ w[i] = s[k - j + i]
    BY <1>2, <1>3
  <2>4. now \in Int /\ e \in Int /\ e <= now /\ now - e >= Debounce
    BY <1>1, <1>2, <1>3
  <2>5. QED
    BY <2>1, <2>2, <2>3, <2>4, PressConstants
<1>9. /\ j = 2 => w[2] - w[1] \in Debounce .. Gap
      /\ k = 1 => j = 1
      /\ k = 2 /\ s[2] - s[1] <= Gap => j = 2
      /\ k >= 2 /\ s[k] - s[k - 1] > Gap => j = 1
      /\ k >= 3 /\ s[k - 1] - s[k - 2] > Gap /\ s[k] - s[k - 1] <= Gap => j = 2
      /\ \A i \in 1 .. k - 1 : s[i] <= s[i + 1]
  BY <1>3
<1>10. n = (IF k < 4 THEN k + 1 ELSE 4) /\ n \in 1 .. 4
  BY <1>4, <1>8
<1>11. /\ \A i \in 1 .. m : p[i] = w[i]
       /\ m \in 0 .. 2 /\ m <= j
  BY <1>6, <1>7, <1>8
<1> HIDE DEF q, p, m, j
<1>12. m < n
  BY <1>8, <1>10, <1>11
<1>13. \A i \in 1 .. n - 1 : k - n + 1 + i \in 1 .. k /\ l[i] = s[k - n + 1 + i]
  BY <1>4, <1>8, <1>10
<1>14. \A i \in 1 .. n - 1 : l[i] \in Int /\ l[i] <= e
  BY <1>8, <1>13
<1>15. /\ \A i \in 1 .. n : l[i] <= now
       /\ \A i \in 1 .. n - 1 : l[i] <= l[i + 1]
  <2>1. ASSUME NEW i \in 1 .. n PROVE l[i] <= now
    <3>1. CASE i = n
      BY <1>4, <1>8, <3>1
    <3>2. CASE i # n
      <4>1. i \in 1 .. n - 1
        BY <1>10, <3>2
      <4>2. QED
        BY <1>8, <1>14, <4>1
    <3>3. QED
      BY <3>1, <3>2
  <2>2. ASSUME NEW i \in 1 .. n - 1 PROVE l[i] <= l[i + 1]
    <3>1. CASE i = n - 1
      <4>1. i + 1 = n /\ l[n] = now
        BY <1>4, <1>10, <3>1
      <4>2. QED
        BY <1>8, <1>14, <4>1
    <3>2. CASE i # n - 1
      <4>1. /\ i + 1 \in 1 .. n - 1 /\ k - n + 1 + i \in 1 .. k - 1
            /\ k - n + 1 + (i + 1) = (k - n + 1 + i) + 1
        BY <1>8, <1>10, <3>2
      <4>2. l[i] = s[k - n + 1 + i] /\ l[i + 1] = s[(k - n + 1 + i) + 1]
        BY <1>13, <4>1
      <4>3. QED
        BY <1>9, <4>1, <4>2
    <3>3. QED
      BY <3>1, <3>2
  <2>3. QED
    BY <2>1, <2>2
<1>16. \A i \in 1 .. m : p[i] = l[n - (m + 1) + i]
  <2>1. ASSUME NEW i \in 1 .. m PROVE p[i] = l[n - (m + 1) + i]
    <3>1. m = j /\ p[i] = w[i] /\ w[i] = s[k - j + i]
      <4>1. m = j
        BY <1>6, <2>1
      <4>2. QED
        BY <1>8, <1>11, <4>1
    <3>2. n - (m + 1) + i \in 1 .. n - 1 /\ k - n + 1 + (n - (m + 1) + i) = k - m + i
      BY <1>8, <1>10, <1>11, <1>12
    <3>3. QED
      BY <1>13, <3>1, <3>2
  <2>2. QED
    BY <2>1
<1>17. /\ m >= 1 => p[m + 1] - p[m] \in Debounce .. Gap
       /\ m = 2 => p[2] - p[1] \in Debounce .. Gap
  <2>1. ASSUME m >= 1 PROVE p[m + 1] - p[m] \in Debounce .. Gap
    <3>1. m = j /\ p[m] = w[j] /\ now - w[j] <= Gap /\ p[m + 1] = now
      BY <1>6, <1>7, <1>11, <2>1
    <3>2. w[j] \in Int /\ w[j] <= e
      BY <1>8, <1>11, <2>1
    <3>3. QED
      BY <1>8, <3>1, <3>2
  <2>2. ASSUME m = 2 PROVE p[2] - p[1] \in Debounce .. Gap
    <3>1. j = 2 /\ p[1] = w[1] /\ p[2] = w[2]
      BY <1>6, <1>11, <2>2
    <3>2. QED
      BY <1>9, <3>1
  <2>3. QED
    BY <2>1, <2>2
\* Who waits is known from the gaps: now and the last one counted, and before.
<1>18. ASSUME k >= 1
       PROVE  /\ l[n - 1] = s[k] /\ n >= 2 /\ s[k] \in Int
              /\ now - s[k] > Gap => m = 0
              /\ now - s[k] <= Gap /\ j > 0 => m = j
  <2>1. n >= 2 /\ n - 1 \in 1 .. n - 1 /\ k - n + 1 + (n - 1) = k
    BY <1>8, <1>10, <1>18
  <2>2. l[n - 1] = s[k] /\ s[k] \in Int
    BY <1>8, <1>13, <1>18, <2>1
  <2>3. j > 0 => w[j] = s[k]
    BY <1>8
  <2>4. now - s[k] > Gap => m = 0
    BY <1>6, <1>8, <2>2, <2>3
  <2>5. now - s[k] <= Gap /\ j > 0 => m = j
    BY <1>6, <1>8, <2>2, <2>3
  <2>6. QED
    BY <2>1, <2>2, <2>4, <2>5
<1>19. ASSUME k >= 2 PROVE l[n - 2] = s[k - 1] /\ n >= 3 /\ s[k - 1] \in Int
  <2>1. n >= 3 /\ n - 2 \in 1 .. n - 1 /\ k - n + 1 + (n - 2) = k - 1 /\ k - 1 \in 1 .. k
    BY <1>8, <1>10, <1>19
  <2>2. QED
    BY <1>8, <1>13, <2>1
<1>20. l[n] = now
  BY <1>4
<1>21. n >= 2 /\ l[n] - l[n - 1] > Gap => m = 0
  BY <1>8, <1>10, <1>18, <1>20
<1>22. n = 2 /\ l[2] - l[1] <= Gap => m = 1
  BY <1>8, <1>9, <1>10, <1>18, <1>20
<1>23. n >= 3 /\ l[n - 1] - l[n - 2] > Gap /\ l[n] - l[n - 1] <= Gap => m = 1
  BY <1>8, <1>9, <1>10, <1>18, <1>19, <1>20
<1>24. n = 3 /\ l[2] - l[1] <= Gap /\ l[3] - l[2] <= Gap => m = 2
  BY <1>8, <1>9, <1>10, <1>18, <1>19, <1>20
<1>25. n = 4 /\ l[2] - l[1] > Gap /\ l[3] - l[2] <= Gap /\ l[4] - l[3] <= Gap => m = 2
  <2>1. SUFFICES ASSUME n = 4, l[2] - l[1] > Gap, l[3] - l[2] <= Gap, l[4] - l[3] <= Gap
                 PROVE  m = 2
    OBVIOUS
  <2>2. k \in {3, 4}
    BY <1>8, <1>10, <2>1
  <2>3. l[1] = s[k - 2] /\ l[2] = s[k - 1] /\ l[3] = s[k]
    BY <1>13, <2>1, <2>2
  <2>4. j = 2
    BY <1>9, <2>1, <2>2, <2>3
  <2>5. QED
    BY <1>18, <1>20, <2>1, <2>2, <2>3, <2>4
<1>26. n = 1 => m = 0
  BY <1>11, <1>12
<1>27. q = <<>> \/ (q = pressTimes[b] /\ m > 0)
  BY <1>6, <1>8 DEF w
<1> USE DEF q, p, l, k, n, m, s
<1>28. QED
  BY <1>4, <1>7, <1>10, <1>11, <1>12, <1>15, <1>16, <1>17, <1>21, <1>22, <1>23, <1>24, <1>25,
     <1>26, <1>27

\* Nothing is remembered of a button whose presses were cleared.
LEMMA NothingRemembered ==
  ASSUME NEW e \in Nat, e <= now
  PROVE  Remembered(<<>>, <<>>, e)
<1>1. Len(<<>>) = 0
  OBVIOUS
<1>2. QED
  BY <1>1 DEF Remembered

LEMMA SosInit ==
  ASSUME A!Init
  PROVE  SosIInv
<1>1. A!TypeOK
  <2>1. /\ now \in A!Times /\ tracked \subseteq Buttons /\ active \in BOOLEAN
        /\ lastEventTime \in [Buttons -> A!Times]
    <3>1. Debounce \in A!Times /\ 0 \in A!Times
      BY PressConstants DEF A!Times
    <3>2. now \in A!Times /\ tracked \subseteq Buttons
      BY <3>1 DEF A!Init
    <3>3. active \in BOOLEAN
      BY DEF A!Init
    <3>4. lastEventTime \in [Buttons -> A!Times]
      BY <3>1 DEF A!Init
    <3>5. QED
      BY <3>2, <3>3, <3>4
  <2>2. inbox \in Seq([button : Buttons, at : A!Times])
    BY DEF A!Init
  <2>3. pressTimes \in [Buttons -> Seq(A!Times)] /\ log \in [Buttons -> Seq(A!Times)]
    BY DEF A!Init
  <2>4. QED
    BY <2>1, <2>2, <2>3 DEF A!TypeOK
<1>2. ASSUME NEW b \in Buttons PROVE Remembered(pressTimes[b], log[b], lastEventTime[b])
  <2>1. pressTimes[b] = <<>> /\ log[b] = <<>> /\ lastEventTime[b] = 0 /\ 0 <= now
    BY PressConstants DEF A!Init
  <2>2. QED
    BY <2>1, NothingRemembered
<1>3. QED
  BY <1>1, <1>2 DEF SosIInv

\* Time passes, buttons are pressed, and other events switch the sirens.
LEMMA WorldKeeps ==
  ASSUME SosIInv, A!Tick \/ A!OtherEvent \/ (\E b \in Buttons : A!Press(b))
  PROVE  SosIInv'
<1>1. UNCHANGED <<tracked, lastEventTime, pressTimes, log>>
  BY DEF A!Tick, A!OtherEvent, A!Press
<1>2. A!TypeOK /\ MaxTime \in Nat
  BY PressConstants DEF SosIInv
<1>3. /\ now \in Nat /\ now' \in A!Times /\ now' \in Nat /\ now' >= now
      /\ active' \in BOOLEAN
  <2>1. now \in A!Times /\ active \in BOOLEAN
    BY <1>2 DEF A!TypeOK
  <2>2. now' \in A!Times /\ now' \in Nat /\ now' >= now /\ now \in Nat
    <3>1. now \in 0 .. MaxTime /\ MaxTime \in Nat
      BY <1>2, <2>1 DEF A!Times
    <3>2. now' = now \/ (now < MaxTime /\ now' = now + 1)
      BY DEF A!Tick, A!OtherEvent, A!Press
    <3>3. now' \in 0 .. MaxTime /\ now' \in Nat /\ now' >= now /\ now \in Nat
      BY <3>1, <3>2
    <3>4. QED
      BY <3>3 DEF A!Times
  <2>3. active' \in BOOLEAN
    BY <2>1 DEF A!Tick, A!OtherEvent, A!Press
  <2>4. QED
    BY <2>2, <2>3
<1>4. inbox' \in Seq([button : Buttons, at : A!Times])
  <2> DEFINE R == [button : Buttons, at : A!Times]
  <2>1. inbox \in Seq(R) /\ now \in A!Times
    BY <1>2 DEF A!TypeOK
  <2>2. inbox' = inbox \/ \E r \in R : inbox' = Append(inbox, r)
    BY <2>1 DEF A!Tick, A!OtherEvent, A!Press
  <2> HIDE DEF R
  <2>3. inbox' \in Seq(R)
    BY <2>1, <2>2, AppendProperties
  <2>4. QED
    BY <2>3 DEF R
<1>5. A!TypeOK'
  BY <1>1, <1>2, <1>3, <1>4 DEF A!TypeOK, A!Times
<1>6. ASSUME NEW b \in Buttons PROVE Remembered(pressTimes[b], log[b], lastEventTime[b])'
  <2>1. Remembered(pressTimes[b], log[b], lastEventTime[b]) /\ lastEventTime[b] \in Nat
    BY <1>2 DEF SosIInv, A!TypeOK, A!Times
  <2>2. lastEventTime[b] <= now'
    BY <1>3, <2>1 DEF Remembered
  <2>3. QED
    BY <1>1, <2>1, <2>2 DEF Remembered
<1>7. QED
  BY <1>5, <1>6 DEF SosIInv

\* A press of another button leaves what is remembered of this one.
LEMMA OthersRemembered ==
  ASSUME SosIInv, NEW b \in Buttons, now' = now,
         \E t \in A!Times : lastEventTime' = [lastEventTime EXCEPT ![b] = t],
         \E p \in Seq(A!Times) : pressTimes' = [pressTimes EXCEPT ![b] = p],
         \E l \in Seq(A!Times) : log' = [log EXCEPT ![b] = l],
         Remembered(pressTimes'[b], log'[b], lastEventTime'[b])
  PROVE  /\ \A c \in Buttons : Remembered(pressTimes[c], log[c], lastEventTime[c])'
         /\ lastEventTime' \in [Buttons -> A!Times]
         /\ pressTimes' \in [Buttons -> Seq(A!Times)] /\ log' \in [Buttons -> Seq(A!Times)]
<1>1. /\ lastEventTime \in [Buttons -> A!Times] /\ pressTimes \in [Buttons -> Seq(A!Times)]
      /\ log \in [Buttons -> Seq(A!Times)]
  BY DEF SosIInv, A!TypeOK
<1>2. /\ lastEventTime' \in [Buttons -> A!Times]
      /\ pressTimes' \in [Buttons -> Seq(A!Times)] /\ log' \in [Buttons -> Seq(A!Times)]
  BY <1>1
<1>3. ASSUME NEW c \in Buttons PROVE Remembered(pressTimes'[c], log'[c], lastEventTime'[c])
  <2>1. CASE c = b
    BY <2>1
  <2>2. CASE c # b
    <3>1. pressTimes'[c] = pressTimes[c] /\ log'[c] = log[c] /\ lastEventTime'[c] = lastEventTime[c]
      BY <1>1, <2>2
    <3>2. Remembered(pressTimes[c], log[c], lastEventTime[c])
      BY DEF SosIInv
    <3>3. QED
      BY <3>1, <3>2
  <2>3. QED
    BY <2>1, <2>2
<1>4. \A c \in Buttons : Remembered(pressTimes[c], log[c], lastEventTime[c])'
  BY <1>3 DEF Remembered
<1>5. QED
  BY <1>2, <1>4

\* The use-case thread takes a press of b from its inbox.
LEMMA PressTaken ==
  ASSUME SosIInv, NEW b \in Buttons, A!NextIs(b)
  PROVE  /\ inbox' \in Seq([button : Buttons, at : A!Times])
         /\ now' = now /\ now \in A!Times /\ now \in Nat
<1> DEFINE R == [button : Buttons, at : A!Times]
<1>1. inbox \in Seq(R) /\ inbox # <<>> /\ inbox' = Tail(inbox) /\ now' = now
  BY DEF SosIInv, A!TypeOK, A!NextIs
<1>2. inbox' \in Seq(R)
  <2> HIDE DEF R
  <2>1. QED
    BY <1>1, HeadTailProperties
<1>3. now \in A!Times /\ now \in Nat
  BY PressConstants DEF SosIInv, A!TypeOK, A!Times
<1>4. QED
  BY <1>1, <1>2, <1>3

LEMMA DroppedKeeps ==
  ASSUME SosIInv, NEW b \in Buttons, A!IgnorePress(b) \/ A!DropDuplicate(b)
  PROVE  SosIInv'
<1>1. /\ inbox' \in Seq([button : Buttons, at : A!Times])
      /\ now' = now /\ tracked' \subseteq Buttons
      /\ UNCHANGED <<lastEventTime, pressTimes, active, log>>
  BY PressTaken DEF A!IgnorePress, A!DropDuplicate, SosIInv, A!TypeOK
<1>2. A!TypeOK'
  BY <1>1 DEF SosIInv, A!TypeOK, A!Times
<1>3. \A c \in Buttons : Remembered(pressTimes[c], log[c], lastEventTime[c])'
  BY <1>1 DEF SosIInv, Remembered
<1>4. QED
  BY <1>2, <1>3 DEF SosIInv

LEMMA StopPressKeeps ==
  ASSUME SosIInv, NEW b \in Buttons, A!StopPress(b)
  PROVE  SosIInv'
<1>1. /\ inbox' \in Seq([button : Buttons, at : A!Times])
      /\ now' = now /\ now \in A!Times /\ now \in Nat /\ tracked' \subseteq Buttons
      /\ active' = FALSE
      /\ lastEventTime' = [lastEventTime EXCEPT ![b] = now]
      /\ pressTimes' = [pressTimes EXCEPT ![b] = <<>>] /\ log' = [log EXCEPT ![b] = <<>>]
  BY PressTaken DEF A!StopPress, A!Remember, SosIInv, A!TypeOK
<1>2. /\ lastEventTime \in [Buttons -> A!Times] /\ pressTimes \in [Buttons -> Seq(A!Times)]
      /\ log \in [Buttons -> Seq(A!Times)]
  BY DEF SosIInv, A!TypeOK
<1>3. <<>> \in Seq(A!Times)
  OBVIOUS
<1>4. lastEventTime'[b] = now /\ pressTimes'[b] = <<>> /\ log'[b] = <<>>
  BY <1>1, <1>2
<1>5. Remembered(<<>>, <<>>, now)
  BY <1>1, NothingRemembered
<1>6. /\ \A c \in Buttons : Remembered(pressTimes[c], log[c], lastEventTime[c])'
      /\ lastEventTime' \in [Buttons -> A!Times]
      /\ pressTimes' \in [Buttons -> Seq(A!Times)] /\ log' \in [Buttons -> Seq(A!Times)]
  BY <1>1, <1>3, <1>4, <1>5, OthersRemembered
<1>7. A!TypeOK'
  BY <1>1, <1>6 DEF A!TypeOK, A!Times
<1>8. QED
  BY <1>6, <1>7 DEF SosIInv

LEMMA CountPressKeeps ==
  ASSUME SosIInv, NEW b \in Buttons, A!CountPress(b)
  PROVE  SosIInv'
<1> DEFINE q == A!Pending(b)
           p == Append(q, now)
           l == A!LastFour(Append(log[b], now))
           sos == Len(p) = 3 /\ p[3] - p[1] <= Window
           r == IF Len(p) = 3 THEN <<>> ELSE p
           n == Len(l)
           m == Len(q)
<1>1. /\ inbox' \in Seq([button : Buttons, at : A!Times])
      /\ now' = now /\ now \in A!Times /\ now \in Nat /\ tracked' \subseteq Buttons
      /\ lastEventTime' = [lastEventTime EXCEPT ![b] = now] /\ ~A!IsDuplicate(b)
  BY PressTaken DEF A!CountPress, A!Remember, SosIInv, A!TypeOK
<1>2. /\ pressTimes' = [pressTimes EXCEPT ![b] = r] /\ active' = sos
      /\ log' = [log EXCEPT ![b] = l]
  BY DEF A!CountPress
<1>3. /\ lastEventTime \in [Buttons -> A!Times] /\ pressTimes \in [Buttons -> Seq(A!Times)]
      /\ log \in [Buttons -> Seq(A!Times)]
  BY DEF SosIInv, A!TypeOK
<1>4. /\ p \in Seq(A!Times) /\ l \in Seq(A!Times) /\ Len(p) = m + 1 /\ m \in 0 .. 2
      /\ n \in 1 .. 4 /\ m < n
      /\ p[m + 1] = now /\ l[n] = now
      /\ \A i \in 1 .. n : l[i] <= now
      /\ \A i \in 1 .. n - 1 : l[i] <= l[i + 1]
      /\ \A i \in 1 .. m : p[i] = l[n - (m + 1) + i]
      /\ m >= 1 => p[m + 1] - p[m] \in Debounce .. Gap
      /\ m = 2 => p[2] - p[1] \in Debounce .. Gap
      /\ n = 1 => m = 0
      /\ n >= 2 /\ l[n] - l[n - 1] > Gap => m = 0
      /\ n = 2 /\ l[2] - l[1] <= Gap => m = 1
      /\ n >= 3 /\ l[n - 1] - l[n - 2] > Gap /\ l[n] - l[n - 1] <= Gap => m = 1
  BY <1>1, CountedNext DEF SosIInv
<1>5. active' \in BOOLEAN
  BY <1>2
<1> HIDE DEF p, q, l, sos, n, m
<1>6. r \in Seq(A!Times) /\ Len(r) = IF m = 2 THEN 0 ELSE m + 1
  BY <1>4
<1>7. \A i \in 1 .. Len(r) : r[i] = p[i]
  BY <1>4, <1>6
<1> HIDE DEF r
<1>8. \A i \in 1 .. m + 1 : p[i] = l[n - (m + 1) + i]
  <2>1. ASSUME NEW i \in 1 .. m + 1 PROVE p[i] = l[n - (m + 1) + i]
    <3>1. CASE i = m + 1
      <4>1. n - (m + 1) + i = n
        BY <1>4, <3>1
      <4>2. QED
        BY <1>4, <3>1, <4>1
    <3>2. CASE i # m + 1
      BY <1>4, <3>2
    <3>3. QED
      BY <3>1, <3>2
  <2>2. QED
    BY <2>1
<1>9. /\ Len(r) <= 2 /\ Len(r) <= n
      /\ \A i \in 1 .. Len(r) : r[i] = l[n - Len(r) + i]
      /\ Len(r) = 2 => r[2] - r[1] \in Debounce .. Gap
  <2>1. CASE m = 2
    BY <1>4, <1>6, <2>1
  <2>2. CASE m # 2
    <3>1. Len(r) = m + 1 /\ m \in 0 .. 1
      BY <1>4, <1>6, <2>2
    <3>2. \A i \in 1 .. Len(r) : r[i] = l[n - Len(r) + i]
      BY <1>7, <1>8, <3>1
    <3>3. ASSUME Len(r) = 2 PROVE r[2] - r[1] \in Debounce .. Gap
      <4>1. m = 1 /\ p[2] - p[1] \in Debounce .. Gap
        <5>1. m = 1
          BY <3>1, <3>3
        <5>2. p[m + 1] - p[m] \in Debounce .. Gap
          BY <1>4, <5>1
        <5>3. QED
          BY <5>1, <5>2
      <4>2. r[1] = p[1] /\ r[2] = p[2]
        BY <1>7, <3>3
      <4>3. QED
        BY <4>1, <4>2
    <3>4. QED
      BY <1>4, <3>1, <3>2, <3>3
  <2>3. QED
    BY <2>1, <2>2
<1>10. /\ n = 1 => Len(r) = 1
       /\ n = 2 /\ l[2] - l[1] <= Gap => Len(r) = 2
       /\ n >= 2 /\ l[n] - l[n - 1] > Gap => Len(r) = 1
       /\ n >= 3 /\ l[n - 1] - l[n - 2] > Gap /\ l[n] - l[n - 1] <= Gap => Len(r) = 2
  BY <1>4, <1>6
<1>11. Remembered(r, l, now)
  <2>1. /\ n <= 4 /\ now <= now
        /\ \A i \in 1 .. n : l[i] <= now
        /\ \A i \in 1 .. n - 1 : l[i] <= l[i + 1]
    BY <1>1, <1>4
  <2>2. QED
    BY <1>9, <1>10, <2>1 DEF Remembered, n
<1>12. lastEventTime'[b] = now /\ pressTimes'[b] = r /\ log'[b] = l
  BY <1>1, <1>2, <1>3
<1>13. /\ \A c \in Buttons : Remembered(pressTimes[c], log[c], lastEventTime[c])'
       /\ lastEventTime' \in [Buttons -> A!Times]
       /\ pressTimes' \in [Buttons -> Seq(A!Times)] /\ log' \in [Buttons -> Seq(A!Times)]
  BY <1>1, <1>2, <1>4, <1>6, <1>11, <1>12, OthersRemembered
<1>14. A!TypeOK'
  BY <1>1, <1>5, <1>13 DEF A!TypeOK, A!Times
<1>15. QED
  BY <1>13, <1>14 DEF SosIInv

LEMMA SosStep ==
  ASSUME SosIInv, [ContactNext \/ ButtonNext]_<<vars, pressVars, subject>>
  PROVE  SosIInv' /\ (A!Next \/ UNCHANGED pressVars)
<1>1. A!Next \/ UNCHANGED pressVars
  BY DEF ContactNext, ButtonNext
<1>2. CASE UNCHANGED pressVars
  <2>1. A!TypeOK' /\ \A c \in Buttons : Remembered(pressTimes[c], log[c], lastEventTime[c])'
    BY <1>2 DEF pressVars, SosIInv, A!TypeOK, A!Times, Remembered
  <2>2. QED
    BY <1>2, <2>1 DEF SosIInv
<1>3. CASE A!Next
  BY <1>3, WorldKeeps, DroppedKeeps, StopPressKeeps, CountPressKeeps DEF A!Next, A!UseCaseThread
<1>4. QED
  BY <1>1, <1>2, <1>3

\* The table holds, of each button, the presses that count towards an alarm and
\* no other: the last ones since the sirens were stopped, in order, the debounce
\* time apart and no more than the gap.
THEOREM SosSafety == MCSpec => []SosInv
<1>1. MCInit => SosIInv
  BY SosInit DEF MCInit
<1>2. SosIInv /\ [ContactNext \/ ButtonNext]_<<vars, pressVars, subject>> => SosIInv'
  BY SosStep
<1>3. SosIInv => SosInv
  <2> SUFFICES ASSUME SosIInv PROVE SosInv
    OBVIOUS
  <2>1. ASSUME NEW b \in Buttons
        PROVE  LET p == pressTimes[b]
                   l == log[b]
               IN /\ Len(p) <= 2 /\ Len(p) <= Len(l)
                  /\ \A i \in 1 .. Len(p) :
                       /\ p[i] = l[Len(l) - Len(p) + i]
                       /\ p[i] <= lastEventTime[b]
                       /\ i > 1 => p[i] - p[i - 1] \in Debounce .. Gap
    <3> DEFINE p == pressTimes[b]
               l == log[b]
               e == lastEventTime[b]
    <3>1. Remembered(p, l, e)
      BY DEF SosIInv
    <3>2. Len(p) \in Nat /\ Len(l) \in Nat
      BY LenProperties DEF SosIInv, A!TypeOK
    <3> HIDE DEF p, l, e
    <3>3. /\ Len(p) <= 2 /\ Len(p) <= Len(l)
          /\ \A i \in 1 .. Len(p) : p[i] = l[Len(l) - Len(p) + i]
          /\ \A i \in 1 .. Len(l) : l[i] <= e
          /\ Len(p) = 2 => p[2] - p[1] \in Debounce .. Gap
      BY <3>1 DEF Remembered
    <3>4. ASSUME NEW i \in 1 .. Len(p)
          PROVE  p[i] <= e /\ (i > 1 => p[i] - p[i - 1] \in Debounce .. Gap)
      <4>1. Len(l) - Len(p) + i \in 1 .. Len(l)
        BY <3>2, <3>3
      <4>2. ASSUME i > 1 PROVE p[i] - p[i - 1] \in Debounce .. Gap
        <5> DEFINE k == Len(p)
        <5>1. k \in Nat /\ k <= 2 /\ i \in 1 .. k
          BY <3>2, <3>3
        <5> HIDE DEF k
        <5>2. i = 2 /\ k = 2 /\ i - 1 = 1
          BY <4>2, <5>1
        <5>3. QED
          BY <3>3, <5>2 DEF k
      <4>3. QED
        BY <3>3, <4>1, <4>2
    <3>5. QED
      BY <3>3, <3>4 DEF p, l, e
  <2>2. A!PendingInv
    BY <2>1 DEF A!PendingInv
  <2>3. QED
    BY <2>2 DEF SosIInv, SosInv, A!SosInv
<1>4. QED
  BY <1>1, <1>2, <1>3, PTL DEF MCSpec

\* What a press that counts does to the sirens.
LEMMA CountedAlarm ==
  ASSUME SosIInv, NEW b \in Buttons, A!CountPress(b)
  PROVE  LET l == log'[b]
             n == Len(l)
         IN /\ active' => /\ n >= 3 /\ l[n] - l[n - 2] <= Window
                          /\ \A i \in {n - 1, n} : l[i] - l[i - 1] >= Debounce
            /\ A!FastTriple(l) /\ (n = 4 => l[2] - l[1] > Gap) => active'
<1> DEFINE q == A!Pending(b)
           p == Append(q, now)
           l == A!LastFour(Append(log[b], now))
           n == Len(l)
           m == Len(q)
<1>1. log'[b] = l
  BY DEF A!CountPress, SosIInv, A!TypeOK
<1>2. active' = (Len(p) = 3 /\ p[3] - p[1] <= Window)
  BY DEF A!CountPress
<1>3. ~A!IsDuplicate(b)
  BY DEF A!CountPress, A!Remember
<1>4. /\ p \in Seq(A!Times) /\ l \in Seq(A!Times) /\ Len(p) = m + 1 /\ m \in 0 .. 2
      /\ n \in 1 .. 4 /\ m < n
      /\ p[m + 1] = now /\ l[n] = now
      /\ \A i \in 1 .. n - 1 : l[i] <= l[i + 1]
      /\ \A i \in 1 .. m : p[i] = l[n - (m + 1) + i]
      /\ m >= 1 => p[m + 1] - p[m] \in Debounce .. Gap
      /\ m = 2 => p[2] - p[1] \in Debounce .. Gap
      /\ n = 3 /\ l[2] - l[1] <= Gap /\ l[3] - l[2] <= Gap => m = 2
      /\ n = 4 /\ l[2] - l[1] > Gap /\ l[3] - l[2] <= Gap /\ l[4] - l[3] <= Gap => m = 2
  BY <1>3, CountedNext DEF SosIInv
<1>5. /\ \A i \in 1 .. n : l[i] \in Nat
      /\ \A i \in 1 .. m + 1 : p[i] \in Nat
  <2>1. \A i \in 1 .. n : l[i] \in A!Times
    BY <1>4, ElementOfSeq
  <2>2. \A i \in 1 .. m + 1 : p[i] \in A!Times
    BY <1>4, ElementOfSeq
  <2>3. QED
    BY <2>1, <2>2, PressConstants DEF A!Times
<1> HIDE DEF q, p, l, m
<1>6. m = 2 => n >= 3 /\ p[1] = l[n - 2] /\ p[2] = l[n - 1] /\ p[3] = l[n]
  BY <1>4
<1>7. active' => /\ n >= 3 /\ l[n] - l[n - 2] <= Window
                 /\ \A i \in {n - 1, n} : l[i] - l[i - 1] >= Debounce
  <2>1. SUFFICES ASSUME active'
                 PROVE  /\ n >= 3 /\ l[n] - l[n - 2] <= Window
                        /\ \A i \in {n - 1, n} : l[i] - l[i - 1] >= Debounce
    OBVIOUS
  <2>2. m = 2 /\ p[3] - p[1] <= Window
    <3>1. Len(p) = 3 /\ p[3] - p[1] <= Window
      BY ONLY <1>2, <2>1, Zenon
    <3>2. Len(p) = m + 1 /\ m \in 0 .. 2
      BY <1>4
    <3>3. m = 2
      BY ONLY <3>1, <3>2
    <3>4. QED
      BY <3>1, <3>3
  <2>3. p[2] - p[1] \in Debounce .. Gap /\ p[3] - p[2] \in Debounce .. Gap
    BY <1>4, <2>2
  <2>4. l[n] - l[n - 1] >= Debounce /\ l[n - 1] - l[n - 2] >= Debounce /\ (n - 1) - 1 = n - 2
    BY <1>4, <1>6, <2>2, <2>3, PressConstants
  <2>5. QED
    BY <1>6, <2>2, <2>4
<1>8. ASSUME A!FastTriple(l), n = 4 => l[2] - l[1] > Gap
      PROVE  active'
  <2>1. n >= 3 /\ l[n] - l[n - 2] <= Window
    BY <1>8 DEF A!FastTriple, n
  <2> HIDE DEF n
  <2>2. /\ l[n] \in Nat /\ l[n - 1] \in Nat /\ l[n - 2] \in Nat
        /\ l[n - 2] <= l[n - 1] /\ l[n - 1] <= l[n]
    <3>1. n - 2 \in 1 .. n - 1 /\ n - 1 \in 1 .. n - 1 /\ n \in 1 .. n
          /\ (n - 2) + 1 = n - 1 /\ (n - 1) + 1 = n
      BY <1>4, <2>1
    <3>2. l[n - 2] <= l[(n - 2) + 1] /\ l[n - 1] <= l[(n - 1) + 1]
      BY <1>4, <3>1
    <3>3. l[n] \in Nat /\ l[n - 1] \in Nat /\ l[n - 2] \in Nat
      BY <1>4, <1>5, <3>1
    <3>4. QED
      BY <3>1, <3>2, <3>3
  <2>3. l[n] - l[n - 1] <= Gap /\ l[n - 1] - l[n - 2] <= Gap
    BY <2>1, <2>2, PressConstants
  <2>4. m = 2
    <3>1. CASE n = 3
      BY <1>4, <2>3, <3>1
    <3>2. CASE n = 4
      BY <1>4, <1>8, <2>3, <3>2
    <3>3. QED
      BY <1>4, <2>1, <3>1, <3>2
  <2>5. Len(p) = 3 /\ p[3] - p[1] <= Window
    BY <1>4, <1>6, <2>1, <2>4
  <2>6. QED
    BY <1>2, <2>5
<1>9. QED
  BY <1>1, <1>7, <1>8

\* The alarm of a button sounds for three presses of it within the window, none a
\* duplicate or one that stopped the sirens; and three such presses do sound it
\* if no other was counted for the gap before them.
THEOREM AlarmsAreThreePresses == MCSpec => AlarmIsThreePresses
<1>1. MCInit => SosIInv
  BY SosInit DEF MCInit
<1>2. ASSUME SosIInv, [ContactNext \/ ButtonNext]_<<vars, pressVars, subject>>
      PROVE  /\ SosIInv'
             /\ [\A b \in Buttons : A!CountPress(b) /\ active' =>
                   LET l == log'[b]
                       n == Len(l)
                   IN /\ n >= 3
                      /\ l[n] - l[n - 2] <= Window
                      /\ \A i \in {n - 1, n} : l[i] - l[i - 1] >= Debounce]_(A!vars)
             /\ [\A b \in Buttons : A!CountPress(b) =>
                   LET l == log'[b] IN
                     A!FastTriple(l) /\ (Len(l) = 4 => l[2] - l[1] > Gap) => active']_(A!vars)
  BY <1>2, SosStep, CountedAlarm
<1>3. QED
  BY <1>1, <1>2, PTL DEF MCSpec, AlarmIsThreePresses, A!AlarmIsThreePresses,
     A!AlarmNeedsThreePresses, A!FreshTripleSounds

-----------------------------------------------------------------------------
(* Arrays from which entries are removed. *)

\* A set of natural numbers has a smallest.
LEMMA SmallestExists ==
  ASSUME NEW I \in SUBSET Nat, I # {}
  PROVE  Min(I) \in I
<1>1. \E x \in I : \A y \in I : ~(<<y, x>> \in OpToRel(<, Nat))
  BY NatLessThanWellFounded, WFMin
<1>2. PICK x \in I : \A y \in I : ~(<<y, x>> \in OpToRel(<, Nat))
  BY <1>1
<1>3. ASSUME NEW y \in I
      PROVE  x =< y
  <2>1. x \in Nat /\ y \in Nat
    OBVIOUS
  <2>2. ~(y < x)
    BY <1>2, <2>1 DEF OpToRel
  <2>3. QED
    BY <2>1, <2>2
<1>4. QED
  BY <1>3 DEF Min

\* The entries that stay get the places 1, 2, ... in their order.
LEMMA PlacesInOrder ==
  ASSUME NEW n \in Nat, NEW is \in SUBSET (1 .. n)
  PROVE  /\ IsFiniteSet(is) /\ Cardinality(is) \in 0 .. n
         /\ \A i \in is : Place(is, i) \in 1 .. Cardinality(is)
         /\ \A i, j \in is : i < j => Place(is, i) < Place(is, j)
<1> \A i \in is : i \in Nat
  OBVIOUS
<1>1. IsFiniteSet(is) /\ Cardinality(is) \in 0 .. n
  <2>1. IsFiniteSet(1 .. n) /\ Cardinality(1 .. n) = n
    BY FS_Interval
  <2>2. IsFiniteSet(is) /\ Cardinality(is) <= n
    BY <2>1, FS_Subset
  <2>3. Cardinality(is) \in Nat
    BY <2>2, FS_CardinalityType
  <2>4. QED
    BY <2>2, <2>3
<1>2. ASSUME NEW i \in is
      PROVE  /\ IsFiniteSet({j \in is : j <= i}) /\ Place(is, i) \in Nat
             /\ Place(is, i) \in 1 .. Cardinality(is)
  <2>1. {j \in is : j <= i} \in SUBSET is /\ i \in {j \in is : j <= i}
    OBVIOUS
  <2>2. IsFiniteSet({j \in is : j <= i}) /\ Place(is, i) <= Cardinality(is)
    BY <1>1, <2>1, FS_Subset DEF Place
  <2>3. Place(is, i) \in Nat /\ Place(is, i) # 0
    BY <2>1, <2>2, FS_CardinalityType, FS_EmptySet DEF Place
  <2>4. QED
    BY <1>1, <2>2, <2>3
<1>3. ASSUME NEW i \in is, NEW j \in is, i < j
      PROVE  Place(is, i) < Place(is, j)
  <2>1. /\ {k \in is : k <= i} \in SUBSET {k \in is : k <= j}
        /\ j \in {k \in is : k <= j} /\ j \notin {k \in is : k <= i}
    <3>1. i \in Nat /\ j \in Nat
      OBVIOUS
    <3>2. \A k \in is : k \in Nat /\ (k <= i => k <= j)
      BY <1>3, <3>1
    <3>3. j <= j /\ ~(j <= i)
      BY <1>3, <3>1
    <3>4. QED
      BY <3>2, <3>3
  <2>2. Place(is, i) <= Place(is, j) /\ Place(is, i) # Place(is, j)
    BY <1>2, <2>1, FS_Subset DEF Place
  <2>3. Place(is, i) \in Nat /\ Place(is, j) \in Nat
    BY <1>2
  <2>4. QED
    BY <2>2, <2>3
<1>4. QED
  BY <1>1, <1>2, <1>3

\* Each place is taken, by one entry.
LEMMA PlacesTaken ==
  ASSUME NEW n \in Nat, NEW is \in SUBSET (1 .. n)
  PROVE  /\ \A k \in 1 .. Cardinality(is) :
              Entrant(is, k) \in is /\ Place(is, Entrant(is, k)) = k
         /\ \A i \in is : Entrant(is, Place(is, i)) = i
<1> DEFINE m == Cardinality(is)
           f == [i \in is |-> Place(is, i)]
<1>1. f \in Injection(is, 1 .. m)
  <2>1. \A i, j \in is : Place(is, i) = Place(is, j) => i = j
    BY PlacesInOrder
  <2>2. f \in [is -> 1 .. m]
    BY PlacesInOrder
  <2>3. QED
    BY <2>1, <2>2 DEF Injection, IsInjective
<1>2. IsFiniteSet(1 .. m) /\ Cardinality(1 .. m) = m
  <2>1. Cardinality(is) \in 0 .. n
    BY PlacesInOrder
  <2>2. m \in Nat
    BY <2>1
  <2>3. QED
    BY <2>2, FS_Interval
<1>3. f \in Surjection(is, 1 .. m)
  BY <1>1, <1>2, FS_Injection
<1>4. \A k \in 1 .. m : \E i \in is : Place(is, i) = k
  BY <1>3 DEF Surjection
<1>5. \A k \in 1 .. m : Entrant(is, k) \in is /\ Place(is, Entrant(is, k)) = k
  BY <1>4 DEF Entrant
<1>6. \A i, j \in is : Place(is, i) = Place(is, j) => i = j
  BY PlacesInOrder
<1>7. QED
  BY <1>5, <1>6, PlacesInOrder

\* What is left of an array: entries that stay, each once.
LEMMA KeepProperties ==
  ASSUME NEW T, NEW r \in Seq(T), NEW is \in SUBSET DOMAIN r
  PROVE  /\ Keep(r, is) \in Seq(T) /\ Len(Keep(r, is)) <= Len(r)
         /\ DOMAIN Keep(r, is) = 1 .. Cardinality(is)
         /\ \A k \in DOMAIN Keep(r, is) :
              Entrant(is, k) \in is /\ Keep(r, is)[k] = r[Entrant(is, k)]
         /\ \A k, l \in DOMAIN Keep(r, is) : k # l => Entrant(is, k) # Entrant(is, l)
         /\ \A i \in is : \E k \in DOMAIN Keep(r, is) : Entrant(is, k) = i
<1>1. Len(r) \in Nat /\ is \in SUBSET (1 .. Len(r)) /\ \A i \in is : r[i] \in T
  OBVIOUS
<1>2. /\ Cardinality(is) \in 0 .. Len(r)
      /\ \A i \in is : Place(is, i) \in 1 .. Cardinality(is)
  BY <1>1, PlacesInOrder
<1>3. \A k \in 1 .. Cardinality(is) : Entrant(is, k) \in is /\ Place(is, Entrant(is, k)) = k
  BY <1>1, PlacesTaken
<1>4. \A i \in is : Entrant(is, Place(is, i)) = i
  BY <1>1, PlacesTaken
<1>5. /\ DOMAIN Keep(r, is) = 1 .. Cardinality(is)
      /\ \A k \in DOMAIN Keep(r, is) : Keep(r, is)[k] = r[Entrant(is, k)]
  BY DEF Keep
<1>6. Keep(r, is) \in Seq(T) /\ Len(Keep(r, is)) = Cardinality(is)
  <2>1. Keep(r, is) \in [1 .. Cardinality(is) -> T]
    BY <1>1, <1>3 DEF Keep
  <2>2. Keep(r, is) \in Seq(T)
    BY <1>2, <2>1, SeqDef
  <2>3. QED
    BY <1>2, <1>5, <2>2
<1>7. QED
  BY <1>2, <1>3, <1>4, <1>5, <1>6

\* An array is left as it is when nothing is removed.
LEMMA KeepAll ==
  ASSUME NEW T, NEW r \in Seq(T)
  PROVE  Keep(r, DOMAIN r) = r
<1> DEFINE n == Len(r)
<1>1. n \in Nat /\ DOMAIN r = 1 .. n
  OBVIOUS
<1>2. ASSUME NEW i \in 1 .. n
      PROVE  Place(1 .. n, i) = i
  <2>1. {j \in 1 .. n : j <= i} = 1 .. i
    OBVIOUS
  <2>2. i \in Nat /\ i >= 1 /\ Cardinality(1 .. i) = i
    BY <1>1, FS_Interval
  <2>3. QED
    BY <2>1, <2>2 DEF Place
<1>3. Cardinality(1 .. n) = n
  BY <1>1, FS_Interval
<1>4. \A k \in 1 .. n : Entrant(1 .. n, k) = k
  BY <1>2, <1>1, PlacesTaken
<1>5. QED
  BY <1>1, <1>3, <1>4 DEF Keep

-----------------------------------------------------------------------------
(* The registry of the contact sensors. *)

\* A registry that the program can have beside the file f: an entry with an IEEE
\* address has that of the sensor its short address was given to; as long as no
\* address was registered without one (anon is false) all entries have one and
\* differ; and every sensor of the file has an entry.
SoundRegistry(r, f, anon) ==
  /\ r \in Seq(Entry) /\ Len(r) <= Capacity
  /\ \A i \in DOMAIN r : r[i].ieee \in {NoIeee, OwnerOf[r[i].addr]}
  /\ ~anon => /\ \A i \in DOMAIN r : r[i].ieee # NoIeee
              /\ \A i, j \in DOMAIN r : i # j => r[i].addr # r[j].addr /\ r[i].ieee # r[j].ieee
  /\ SensorsIn(f) \subseteq {r[i].ieee : i \in DOMAIN r}

\* A file that the program can have, whole or cut off by a crash.
SoundFile(f, anon) ==
  /\ f \in Seq(Saved) /\ Len(f) <= Capacity
  /\ \A i \in DOMAIN f : f[i].ieee = OwnerOf[f[i].addr]
  /\ ~anon => \A i, j \in DOMAIN f : i # j => f[i].addr # f[j].addr /\ f[i].ieee # f[j].ieee

RegistryIInv ==
  /\ TypeOK
  /\ SoundRegistry(reg, file, anonymous) /\ SoundFile(file, anonymous)
  /\ FileIsCurrent /\ ConfiguredWasSetUp

LEMMA RegistryConstants ==
  /\ OwnerOf \in [Addrs -> Sensors] /\ NoIeee \notin Sensors /\ NoAddr \notin Addrs
  /\ Capacity \in Nat \ {0} /\ CacheSize \in Nat \ {0}
  /\ MaxRetries \in Nat \ {0} /\ RetryWrap \in Nat \ {0} /\ MaxRetries < RetryWrap
  /\ MaxZone \in Nat /\ MaxRestarts \in Nat
BY RegistryAssumption

\* The loops that look for a short address find an entry with it, if there is one.
LEMMA EntryIsFound ==
  ASSUME reg \in Seq(Entry), NEW a
  PROVE  /\ EntryOf(a) \in {0} \cup DOMAIN reg
         /\ EntryOf(a) = 0 => \A i \in DOMAIN reg : reg[i].addr # a
         /\ EntryOf(a) # 0 => EntryOf(a) \in DOMAIN reg /\ reg[EntryOf(a)].addr = a
<1> DEFINE I == {i \in 1 .. Len(reg) : reg[i].addr = a}
<1>1. Len(reg) \in Nat /\ DOMAIN reg = 1 .. Len(reg) /\ I \in SUBSET Nat
  OBVIOUS
<1>2. EntryOf(a) = IF I # {} THEN Min(I) ELSE 0
  BY DEF EntryOf, FirstWith, SelectInSeq
<1>3. CASE I = {}
  BY <1>1, <1>2, <1>3
<1>4. CASE I # {}
  <2>1. Min(I) \in I
    BY <1>1, <1>4, SmallestExists
  <2> HIDE DEF I
  <2>2. EntryOf(a) \in I
    BY <1>2, <1>4, <2>1
  <2>3. QED
    BY <1>1, <2>2 DEF I
<1>5. QED
  BY <1>3, <1>4

\* An entry keeps its IEEE address once it has one, and gets another short address
\* only as that of its own sensor.
LEMMA UpdatedEntry ==
  ASSUME NEW r, NEW f, NEW anon \in BOOLEAN, SoundRegistry(r, f, anon),
         NEW i \in DOMAIN r, NEW e \in Entry,
         e.ieee \in {NoIeee, OwnerOf[e.addr]},
         r[i].ieee # NoIeee => e.ieee = r[i].ieee,
         e.addr = r[i].addr \/ r[i].ieee = OwnerOf[e.addr],
         NoIeee \notin SensorsIn(f)
  PROVE  SoundRegistry([r EXCEPT ![i] = e], f, anon)
<1> DEFINE s == [r EXCEPT ![i] = e]
<1>1. r \in Seq(Entry) /\ Len(r) <= Capacity
  BY DEF SoundRegistry
<1>2. s \in Seq(Entry) /\ Len(s) = Len(r) /\ DOMAIN s = DOMAIN r
  BY <1>1
<1>3. s[i] = e /\ \A j \in DOMAIN r : j # i => s[j] = r[j]
  BY <1>1
<1>4. \A j \in DOMAIN s : s[j].ieee \in {NoIeee, OwnerOf[s[j].addr]}
  BY <1>2, <1>3 DEF SoundRegistry
<1>5. ASSUME ~anon
      PROVE  /\ \A j \in DOMAIN s : s[j].ieee # NoIeee
             /\ \A j, k \in DOMAIN s : j # k => s[j].addr # s[k].addr /\ s[j].ieee # s[k].ieee
  <2>1. /\ \A j \in DOMAIN r : r[j].ieee # NoIeee
        /\ \A j, k \in DOMAIN r : j # k => r[j].addr # r[k].addr /\ r[j].ieee # r[k].ieee
        /\ \A j \in DOMAIN r : r[j].ieee = OwnerOf[r[j].addr]
    BY <1>5 DEF SoundRegistry
  <2>2. e.ieee = r[i].ieee
    BY <2>1
  <2>3. \A j \in DOMAIN r : j # i => r[j].addr # e.addr /\ r[j].ieee # e.ieee
    BY <2>1, <2>2
  <2>4. QED
    BY <1>2, <1>3, <2>1, <2>2, <2>3
<1>6. SensorsIn(f) \subseteq {s[j].ieee : j \in DOMAIN s}
  <2>1. ASSUME NEW d \in SensorsIn(f)
        PROVE  \E j \in DOMAIN s : s[j].ieee = d
    <3>1. PICK j \in DOMAIN r : r[j].ieee = d
      BY <2>1 DEF SoundRegistry
    <3>2. s[j].ieee = d
      BY <1>3, <2>1, <3>1
    <3>3. QED
      BY <1>2, <3>2
  <2>2. QED
    BY <2>1
<1>7. QED
  BY <1>1, <1>2, <1>4, <1>5, <1>6 DEF SoundRegistry

\* A sensor that has no entry yet is registered.
LEMMA AppendedEntry ==
  ASSUME NEW r, NEW f, NEW anon \in BOOLEAN, SoundRegistry(r, f, anon),
         Len(r) < Capacity, NEW e \in Entry,
         e.ieee \in {NoIeee, OwnerOf[e.addr]},
         \A i \in DOMAIN r : r[i].addr # e.addr,
         e.ieee # NoIeee => \A i \in DOMAIN r : r[i].ieee # e.ieee
  PROVE  SoundRegistry(Append(r, e), f, anon \/ e.ieee = NoIeee)
<1> DEFINE s == Append(r, e)
           n == Len(r) + 1
<1>1. r \in Seq(Entry) /\ Len(r) \in Nat /\ DOMAIN r = 1 .. Len(r)
  BY DEF SoundRegistry
<1>2. /\ s \in Seq(Entry) /\ Len(s) = n /\ DOMAIN s = DOMAIN r \cup {n} /\ n \notin DOMAIN r
      /\ s[n] = e /\ \A j \in DOMAIN r : s[j] = r[j]
  BY <1>1
<1>3. \A j \in DOMAIN s : s[j].ieee \in {NoIeee, OwnerOf[s[j].addr]}
  BY <1>2 DEF SoundRegistry
<1>4. ASSUME ~anon, e.ieee # NoIeee
      PROVE  /\ \A j \in DOMAIN s : s[j].ieee # NoIeee
             /\ \A j, k \in DOMAIN s : j # k => s[j].addr # s[k].addr /\ s[j].ieee # s[k].ieee
  BY <1>2, <1>4 DEF SoundRegistry
<1>5. SensorsIn(f) \subseteq {s[j].ieee : j \in DOMAIN s}
  BY <1>2 DEF SoundRegistry
<1>6. Len(s) <= Capacity
  BY <1>1, <1>2, RegistryConstants
<1>7. QED
  BY <1>2, <1>3, <1>4, <1>5, <1>6 DEF SoundRegistry

\* Entries are removed whose sensor has another.
LEMMA RemovedEntries ==
  ASSUME NEW r, NEW f, NEW anon \in BOOLEAN, SoundRegistry(r, f, anon),
         NEW is \in SUBSET DOMAIN r,
         \A i \in DOMAIN r : \E j \in is : r[j].ieee = r[i].ieee
  PROVE  SoundRegistry(Keep(r, is), f, anon)
<1> DEFINE s == Keep(r, is)
<1>1. r \in Seq(Entry) /\ Len(r) <= Capacity /\ Len(r) \in Nat
  BY DEF SoundRegistry
<1>2. s \in Seq(Entry) /\ Len(s) <= Len(r)
  BY <1>1, KeepProperties
<1>3. /\ \A k \in DOMAIN s : Entrant(is, k) \in DOMAIN r /\ s[k] = r[Entrant(is, k)]
      /\ \A k, l \in DOMAIN s : k # l => Entrant(is, k) # Entrant(is, l)
      /\ \A i \in is : \E k \in DOMAIN s : Entrant(is, k) = i
  BY <1>1, KeepProperties
<1> HIDE DEF s
<1>4. \A k \in DOMAIN s : s[k].ieee \in {NoIeee, OwnerOf[s[k].addr]}
  BY <1>3 DEF SoundRegistry
<1>5. ASSUME ~anon
      PROVE  /\ \A j \in DOMAIN s : s[j].ieee # NoIeee
             /\ \A j, k \in DOMAIN s : j # k => s[j].addr # s[k].addr /\ s[j].ieee # s[k].ieee
  BY <1>3, <1>5 DEF SoundRegistry
<1>6. SensorsIn(f) \subseteq {s[k].ieee : k \in DOMAIN s}
  <2>1. ASSUME NEW d \in SensorsIn(f)
        PROVE  \E k \in DOMAIN s : s[k].ieee = d
    <3>1. PICK i \in DOMAIN r : r[i].ieee = d
      BY <2>1 DEF SoundRegistry
    <3>2. PICK j \in is : r[j].ieee = d
      BY <3>1
    <3>3. QED
      BY <1>3, <3>2
  <2>2. QED
    BY <2>1
<1>7. Len(s) <= Capacity
  BY <1>1, <1>2, RegistryConstants
<1>8. SoundRegistry(s, f, anon)
  BY <1>2, <1>4, <1>5, <1>6, <1>7 DEF SoundRegistry
<1>9. QED
  BY <1>8 DEF s

Line(e) == [addr |-> e.addr, ieee |-> e.ieee, zone |-> e.zone]
WithIeee(r) == {i \in DOMAIN r : r[i].ieee # NoIeee}

\* What is written: the entries with an IEEE address, in their order.
LEMMA PersistedLines ==
  ASSUME NEW r \in Seq(Entry)
  PROVE  /\ Persisted(r) \in Seq(Saved) /\ Len(Persisted(r)) <= Len(r)
         /\ DOMAIN Persisted(r) = 1 .. Cardinality(WithIeee(r))
         /\ \A k \in DOMAIN Persisted(r) :
              /\ Entrant(WithIeee(r), k) \in WithIeee(r)
              /\ Persisted(r)[k] = Line(r[Entrant(WithIeee(r), k)])
         /\ \A k, l \in DOMAIN Persisted(r) :
              k # l => Entrant(WithIeee(r), k) # Entrant(WithIeee(r), l)
         /\ \A i \in WithIeee(r) : \E k \in DOMAIN Persisted(r) : Entrant(WithIeee(r), k) = i
<1> DEFINE is == WithIeee(r)
           kept == Keep(r, is)
           p == Persisted(r)
<1>1. is \in SUBSET DOMAIN r /\ Len(r) \in Nat
  BY DEF WithIeee
<1>2. /\ kept \in Seq(Entry) /\ Len(kept) <= Len(r)
      /\ DOMAIN kept = 1 .. Cardinality(is)
      /\ \A k \in DOMAIN kept : Entrant(is, k) \in is /\ kept[k] = r[Entrant(is, k)]
      /\ \A k, l \in DOMAIN kept : k # l => Entrant(is, k) # Entrant(is, l)
      /\ \A i \in is : \E k \in DOMAIN kept : Entrant(is, k) = i
  BY <1>1, KeepProperties
<1>3. p = [k \in DOMAIN kept |-> Line(kept[k])] /\ \A i \in is : r[i].ieee # NoIeee
  BY DEF Persisted, WithIeee, Line
<1> HIDE DEF is, kept, p
<1>4. \A k \in DOMAIN kept : Line(kept[k]) \in Saved
  <2>1. ASSUME NEW k \in DOMAIN kept
        PROVE  Line(kept[k]) \in Saved
    <3>1. kept[k] \in Entry
      <4>1. kept \in Seq(Entry)
        BY <1>2
      <4>2. QED
        BY <2>1, <4>1, ElementOfSeq
    <3>2. Entrant(is, k) \in is /\ kept[k] = r[Entrant(is, k)]
      BY <1>2
    <3>3. kept[k].ieee # NoIeee
      BY <1>3, <3>2
    <3>4. QED
      BY <3>1, <3>3 DEF Line, Entry, Saved
  <2>2. QED
    BY <2>1
<1>5. /\ Len(kept) \in Nat /\ DOMAIN kept = 1 .. Len(kept)
  BY <1>2
<1>6. p \in [1 .. Len(kept) -> Saved]
  BY <1>3, <1>4, <1>5
<1>7. p \in Seq(Saved) /\ Len(p) = Len(kept) /\ DOMAIN p = DOMAIN kept
  BY <1>5, <1>6, SeqDef
<1>8. \A k \in DOMAIN p : p[k] = Line(r[Entrant(is, k)])
  BY <1>2, <1>3
<1>9. QED
  BY <1>1, <1>2, <1>7, <1>8 DEF is, p

\* The file that is written is sound, and has every sensor that the file before it had.
LEMMA PersistedIsSound ==
  ASSUME NEW r, NEW f, NEW anon \in BOOLEAN, SoundRegistry(r, f, anon), f \in Seq(Saved)
  PROVE  /\ SoundFile(Persisted(r), anon) /\ SoundRegistry(r, Persisted(r), anon)
         /\ SensorsIn(f) \subseteq SensorsIn(Persisted(r))
<1> DEFINE p == Persisted(r)
<1>1. r \in Seq(Entry) /\ Len(r) <= Capacity /\ Len(r) \in Nat
  BY DEF SoundRegistry
<1>2. /\ p \in Seq(Saved) /\ Len(p) <= Len(r)
      /\ \A k \in DOMAIN p : /\ Entrant(WithIeee(r), k) \in WithIeee(r)
                             /\ p[k] = Line(r[Entrant(WithIeee(r), k)])
      /\ \A k, l \in DOMAIN p : k # l => Entrant(WithIeee(r), k) # Entrant(WithIeee(r), l)
      /\ \A i \in WithIeee(r) : \E k \in DOMAIN p : Entrant(WithIeee(r), k) = i
  BY <1>1, PersistedLines
<1> DEFINE At(k) == Entrant(WithIeee(r), k)
<1> HIDE DEF p
<1>3. \A k \in DOMAIN p : /\ At(k) \in DOMAIN r /\ r[At(k)].ieee # NoIeee
                          /\ p[k].addr = r[At(k)].addr /\ p[k].ieee = r[At(k)].ieee
  <2>1. \A i \in WithIeee(r) : i \in DOMAIN r /\ r[i].ieee # NoIeee
    BY DEF WithIeee
  <2>2. QED
    BY <1>2, <2>1 DEF Line
<1> HIDE DEF At
<1>4. SoundFile(p, anon)
  <2>1. Len(p) <= Capacity
    BY <1>1, <1>2, RegistryConstants
  <2>2. \A k \in DOMAIN p : p[k].ieee = OwnerOf[p[k].addr]
    BY <1>3 DEF SoundRegistry
  <2>3. ASSUME ~anon
        PROVE  \A k, l \in DOMAIN p : k # l => p[k].addr # p[l].addr /\ p[k].ieee # p[l].ieee
    <3>1. \A k, l \in DOMAIN p : k # l => At(k) # At(l)
      BY <1>2 DEF At
    <3>2. QED
      BY <1>3, <2>3, <3>1 DEF SoundRegistry
  <2>4. QED
    BY <1>2, <2>1, <2>2, <2>3 DEF SoundFile
<1>5. SensorsIn(p) \subseteq {r[i].ieee : i \in DOMAIN r}
  BY <1>3 DEF SensorsIn
<1>6. SensorsIn(f) \subseteq SensorsIn(p)
  <2>1. ASSUME NEW d \in SensorsIn(f)
        PROVE  \E k \in DOMAIN p : p[k].ieee = d
    <3>1. d # NoIeee
      <4>1. \A k \in DOMAIN f : f[k].ieee \in Sensors
        <5>1. \A k \in DOMAIN f : f[k] \in Saved
          OBVIOUS
        <5>2. QED
          BY <5>1 DEF Saved
      <4>2. QED
        BY <2>1, <4>1, RegistryConstants DEF SensorsIn
    <3>2. PICK i \in DOMAIN r : r[i].ieee = d
      BY <2>1 DEF SoundRegistry
    <3>3. i \in WithIeee(r)
      BY <3>1, <3>2 DEF WithIeee
    <3>4. PICK k \in DOMAIN p : At(k) = i
      BY <1>2, <3>3 DEF At
    <3>5. QED
      BY <1>3, <3>2, <3>4
  <2>2. QED
    BY <2>1 DEF SensorsIn
<1>7. SoundRegistry(r, p, anon)
  BY <1>5 DEF SoundRegistry
<1>8. QED
  BY <1>4, <1>6, <1>7 DEF p

\* Addresses and zones are all that is written.
LEMMA PersistedAgrees ==
  ASSUME NEW r, NEW s, DOMAIN r = DOMAIN s, NEW n \in Nat, DOMAIN r = 1 .. n,
         \A i \in DOMAIN r : Line(r[i]) = Line(s[i])
  PROVE  Persisted(r) = Persisted(s)
<1>1. \A i \in DOMAIN r : /\ r[i].addr = s[i].addr /\ r[i].ieee = s[i].ieee
                          /\ r[i].zone = s[i].zone
  BY DEF Line
<1>2. WithIeee(r) = WithIeee(s) /\ WithIeee(r) \in SUBSET (1 .. n)
  BY <1>1 DEF WithIeee
<1>3. \A k \in 1 .. Cardinality(WithIeee(r)) : Entrant(WithIeee(r), k) \in DOMAIN r
  BY <1>2, PlacesTaken
<1>4. Keep(r, WithIeee(r)) = [k \in 1 .. Cardinality(WithIeee(r)) |-> r[Entrant(WithIeee(r), k)]]
  BY DEF Keep
<1>5. Persisted(r) = [k \in 1 .. Cardinality(WithIeee(r)) |-> Line(r[Entrant(WithIeee(r), k)])]
  BY <1>4 DEF Persisted, WithIeee, Line
<1>6. Persisted(s) = [k \in 1 .. Cardinality(WithIeee(r)) |-> Line(s[Entrant(WithIeee(r), k)])]
  <2>1. Keep(s, WithIeee(s)) =
          [k \in 1 .. Cardinality(WithIeee(s)) |-> s[Entrant(WithIeee(s), k)]]
    BY DEF Keep
  <2>2. Persisted(s) =
          [k \in 1 .. Cardinality(WithIeee(s)) |-> Line(s[Entrant(WithIeee(s), k)])]
    BY <2>1 DEF Persisted, WithIeee, Line
  <2>3. QED
    BY <1>2, <2>2
<1>7. QED
  BY <1>3, <1>5, <1>6

\* What is loaded is what the file says.
LEMMA LoadedIsSound ==
  ASSUME NEW f, NEW anon \in BOOLEAN, SoundFile(f, anon)
  PROVE  /\ SoundRegistry(Load(f), f, anon)
         /\ Persisted(Load(f)) = f
<1> DEFINE r == Load(f)
<1>1. f \in Seq(Saved) /\ Len(f) \in Nat /\ DOMAIN f = 1 .. Len(f) /\ Len(f) <= Capacity
  BY DEF SoundFile
<1>2. \A i \in DOMAIN f : f[i] \in Saved
  BY <1>1
<1>3. DOMAIN r = DOMAIN f /\ \A i \in DOMAIN f : r[i] \in Entry /\ Line(r[i]) = f[i]
  <2>1. DOMAIN r = DOMAIN f
    BY DEF Load
  <2>2. ASSUME NEW i \in DOMAIN f
        PROVE  r[i] \in Entry /\ Line(r[i]) = f[i]
    <3>1. f[i] = [addr |-> f[i].addr, ieee |-> f[i].ieee, zone |-> f[i].zone]
          /\ f[i].addr \in Addrs /\ f[i].ieee \in Sensors /\ f[i].zone \in Nat \cup {NoZone}
      BY <1>2 DEF Saved
    <3>2. r[i] = [addr |-> f[i].addr, ieee |-> f[i].ieee, configured |-> TRUE,
                  retries |-> 0, zone |-> f[i].zone]
      BY DEF Load
    <3>3. 0 \in 0 .. RetryWrap - 1
      BY RegistryConstants
    <3>4. QED
      BY <3>1, <3>2, <3>3 DEF Entry, Line
  <2>3. QED
    BY <2>1, <2>2
<1>4. r \in Seq(Entry) /\ Len(r) = Len(f)
  <2>1. r \in [1 .. Len(f) -> Entry]
    BY <1>1, <1>3 DEF Load
  <2>2. r \in Seq(Entry)
    BY <1>1, <2>1, SeqDef
  <2>3. QED
    BY <1>1, <1>3, <2>2
<1>5. \A i \in DOMAIN r : /\ r[i].addr = f[i].addr /\ r[i].ieee = f[i].ieee
                          /\ r[i].ieee # NoIeee
  <2>1. \A i \in DOMAIN f : f[i].ieee # NoIeee
    BY <1>2, RegistryConstants DEF Saved
  <2>2. QED
    BY <1>3, <2>1 DEF Line
<1> HIDE DEF r
<1>6. SoundRegistry(r, f, anon)
  BY <1>1, <1>3, <1>4, <1>5 DEF SoundRegistry, SoundFile, SensorsIn
<1>7. WithIeee(r) = DOMAIN r
  BY <1>5 DEF WithIeee
<1>8. Keep(r, WithIeee(r)) = r
  BY <1>4, <1>7, KeepAll
<1>9. Persisted(r) = [i \in DOMAIN r |-> Line(r[i])]
  BY <1>8 DEF Persisted, WithIeee, Line
<1>10. Persisted(r) = f
  BY <1>1, <1>3, <1>9
<1>11. QED
  BY <1>6, <1>10 DEF r

\* A file that is cut off is sound.
LEMMA PrefixIsSound ==
  ASSUME NEW f, NEW anon \in BOOLEAN, SoundFile(f, anon), NEW g \in Prefixes(f)
  PROVE  SoundFile(g, anon)
<1>1. PICK l \in 0 .. Len(f) : g = SubSeq(f, 1, l)
  BY DEF Prefixes
<1>2. f \in Seq(Saved) /\ Len(f) \in Nat /\ Len(f) <= Capacity /\ DOMAIN f = 1 .. Len(f)
  BY DEF SoundFile
<1>3. /\ g \in Seq(Saved) /\ Len(g) = l /\ DOMAIN g = 1 .. l
      /\ \A i \in 1 .. l : i \in DOMAIN f /\ g[i] = f[i]
  BY <1>1, <1>2
<1>4. Len(g) <= Capacity
  BY <1>2, <1>3, RegistryConstants
<1>5. QED
  BY <1>3, <1>4 DEF SoundFile

\* The lookup of a device that was discovered, by its address or its IEEE address.
LEMMA SensorIsFound ==
  ASSUME reg \in Seq(Entry), NEW a
  PROVE  LET i == FirstWith(LAMBDA e : e.addr = a \/ (a \in cached /\ e.ieee = OwnerOf[a])) IN
           /\ i \in {0} \cup DOMAIN reg
           /\ i = 0 => \A j \in DOMAIN reg :
                         reg[j].addr # a /\ (a \in cached => reg[j].ieee # OwnerOf[a])
           /\ i # 0 => i \in DOMAIN reg /\ (reg[i].addr = a \/ reg[i].ieee = OwnerOf[a])
<1> DEFINE I == {j \in 1 .. Len(reg) : reg[j].addr = a \/ (a \in cached /\ reg[j].ieee = OwnerOf[a])}
           i == FirstWith(LAMBDA e : e.addr = a \/ (a \in cached /\ e.ieee = OwnerOf[a]))
<1>1. Len(reg) \in Nat /\ DOMAIN reg = 1 .. Len(reg) /\ I \in SUBSET Nat
  OBVIOUS
<1>2. i = IF I # {} THEN Min(I) ELSE 0
  BY DEF FirstWith, SelectInSeq
<1> HIDE DEF i
<1>3. /\ i \in {0} \cup DOMAIN reg
      /\ i = 0 => \A j \in DOMAIN reg :
                    reg[j].addr # a /\ (a \in cached => reg[j].ieee # OwnerOf[a])
      /\ i # 0 => i \in DOMAIN reg /\ (reg[i].addr = a \/ reg[i].ieee = OwnerOf[a])
  <2>1. CASE I = {}
    BY <1>1, <1>2, <2>1
  <2>2. CASE I # {}
    <3>1. Min(I) \in I
      BY <1>1, <2>2, SmallestExists
    <3> HIDE DEF I
    <3>2. i \in I
      BY <1>2, <2>2, <3>1
    <3>3. i \in Nat /\ i # 0
      BY <1>1, <3>2 DEF I
    <3>4. QED
      BY <1>1, <3>2, <3>3 DEF I
  <2>3. QED
    BY <2>1, <2>2
<1>4. QED
  BY <1>3 DEF i

LEMMA RegistryInit == Init => RegistryIInv
<1> SUFFICES ASSUME Init
             PROVE  RegistryIInv
  OBVIOUS
<1>1. /\ reg = <<>> /\ file = <<>> /\ anonymous = FALSE
      /\ <<>> \in Seq(Saved) /\ <<>> \in Seq(Entry) /\ Len(<<>>) = 0 /\ DOMAIN <<>> = {}
  BY DEF Init
<1>2. TypeOK
  <2>1. 0 \in 0 .. MaxRestarts /\ 0 <= Capacity
    BY RegistryConstants
  <2>2. QED
    BY <1>1, <2>1 DEF Init, TypeOK
<1>3. SoundFile(file, anonymous)
  BY <1>1, RegistryConstants DEF SoundFile
<1>4. Load(file) = reg
  BY <1>1 DEF Load
<1>5. SoundRegistry(reg, file, anonymous) /\ Persisted(reg) = file
  BY <1>1, <1>3, <1>4, LoadedIsSound
<1>6. FileIsCurrent /\ ConfiguredWasSetUp
  BY <1>1, <1>5 DEF FileIsCurrent, ConfiguredWasSetUp
<1>7. QED
  BY <1>2, <1>3, <1>5, <1>6 DEF RegistryIInv

\* What is used of the invariant again and again.
LEMMA RegistryFacts ==
  ASSUME RegistryIInv
  PROVE  /\ reg \in Seq(Entry) /\ Len(reg) \in Nat /\ Len(reg) <= Capacity
         /\ DOMAIN reg = 1 .. Len(reg) /\ \A i \in DOMAIN reg : reg[i] \in Entry
         /\ file \in Seq(Saved) /\ NoIeee \notin SensorsIn(file) /\ NoIeee \notin loaded
         /\ \A i \in DOMAIN reg : reg[i].ieee \in {NoIeee, OwnerOf[reg[i].addr]}
         /\ anonymous \in BOOLEAN
<1>1. reg \in Seq(Entry) /\ Len(reg) <= Capacity /\ file \in Seq(Saved) /\ anonymous \in BOOLEAN
  BY DEF RegistryIInv, TypeOK
<1>2. NoIeee \notin SensorsIn(file)
  <2>1. \A i \in DOMAIN file : file[i] \in Saved
    BY <1>1
  <2>2. QED
    BY <2>1, RegistryConstants DEF SensorsIn, Saved
<1>3. NoIeee \notin loaded
  BY RegistryConstants DEF RegistryIInv, TypeOK
<1>4. \A i \in DOMAIN reg : reg[i].ieee \in {NoIeee, OwnerOf[reg[i].addr]}
  BY DEF RegistryIInv, SoundRegistry
<1>5. QED
  BY <1>1, <1>2, <1>3, <1>4

\* An entry is changed: the change is saved later, or needs no saving, and an entry
\* counts as configured by the setup that was accepted just now, or as before.
LEMMA EntryStep ==
  ASSUME RegistryIInv, NEW i \in DOMAIN reg, NEW e \in Entry,
         reg' = [reg EXCEPT ![i] = e],
         e.ieee \in {NoIeee, OwnerOf[e.addr]},
         reg[i].ieee # NoIeee => e.ieee = reg[i].ieee,
         e.addr = reg[i].addr \/ reg[i].ieee = OwnerOf[e.addr],
         file' = file, anonymous' = anonymous, loaded' = loaded, accepted \subseteq accepted',
         e.configured => reg[i].configured \/ e.addr \in accepted',
         \/ saving' # {} \/ resolved'
         \/ Line(e) = Line(reg[i]) /\ saving' = saving /\ resolved' = resolved
  PROVE  /\ reg' \in Seq(Entry) /\ Len(reg') <= Capacity
         /\ SoundRegistry(reg, file, anonymous)' /\ SoundFile(file, anonymous)'
         /\ FileIsCurrent' /\ ConfiguredWasSetUp'
<1>1. SoundRegistry(reg, file, anonymous) /\ SoundFile(file, anonymous)
  BY DEF RegistryIInv
<1>2. SoundRegistry([reg EXCEPT ![i] = e], file, anonymous)
  BY <1>1, RegistryFacts, UpdatedEntry
<1>3. SoundRegistry(reg, file, anonymous)' /\ SoundFile(file, anonymous)'
  BY <1>1, <1>2
<1>4. reg' \in Seq(Entry) /\ Len(reg') <= Capacity
  BY <1>2 DEF SoundRegistry
<1>5. /\ DOMAIN reg' = DOMAIN reg /\ reg'[i] = e
      /\ \A j \in DOMAIN reg : j # i => reg'[j] = reg[j]
  BY RegistryFacts
<1>6. FileIsCurrent'
  <2>1. CASE saving' # {} \/ resolved'
    BY <2>1 DEF FileIsCurrent
  <2>2. CASE Line(e) = Line(reg[i]) /\ saving' = saving /\ resolved' = resolved
    <3>1. Persisted(reg') = Persisted(reg)
      <4>1. \A j \in DOMAIN reg : Line(reg[j]) = Line(reg'[j])
        BY <1>5, <2>2
      <4>2. QED
        BY <1>5, <4>1, RegistryFacts, PersistedAgrees
    <3>2. QED
      BY <2>2, <3>1 DEF FileIsCurrent, RegistryIInv
  <2>3. QED
    BY <2>1, <2>2
<1>7. ConfiguredWasSetUp'
  <2>1. \A j \in DOMAIN reg : reg[j].configured =>
          \/ \E a \in accepted' : OwnerOf[a] = OwnerOf[reg[j].addr]
          \/ reg[j].ieee \in loaded
    BY DEF RegistryIInv, ConfiguredWasSetUp
  <2>2. e.configured =>
          (\E a \in accepted' : OwnerOf[a] = OwnerOf[e.addr]) \/ e.ieee \in loaded
    <3>1. CASE e.addr \in accepted'
      BY <3>1
    <3>2. CASE e.configured /\ reg[i].configured
      <4>1. OwnerOf[e.addr] = OwnerOf[reg[i].addr]
        <5>1. CASE e.addr = reg[i].addr
          BY <5>1
        <5>2. CASE reg[i].ieee = OwnerOf[e.addr]
          <6>1. reg[i].ieee # NoIeee
            BY <5>2, RegistryConstants DEF Entry
          <6>2. QED
            BY <5>2, <6>1, RegistryFacts
        <5>3. QED
          BY <5>1, <5>2
      <4>2. reg[i].ieee \in loaded => e.ieee \in loaded
        BY RegistryFacts
      <4>3. QED
        BY <2>1, <3>2, <4>1, <4>2
    <3>3. QED
      BY <3>1, <3>2
  <2>3. QED
    BY <1>5, <2>1, <2>2 DEF ConfiguredWasSetUp
<1>8. QED
  BY <1>3, <1>4, <1>6, <1>7

\* Joins, announcements and frames change no entry.
LEMMA QuietStep ==
  ASSUME RegistryIInv, NEW a \in Addrs,
         Join(a) \/ Announce(a) \/ \E long \in BOOLEAN : FrameOf(a, long)
  PROVE  RegistryIInv'
<1>1. UNCHANGED <<anonymous, reg, setting, nextZone, accepted, saving, fileVars>>
  BY DEF Join, Announce, FrameOf, mainVars, contactVars
<1>2. heard' \subseteq Addrs /\ cached' \subseteq Addrs /\ assigned' \subseteq Addrs
  BY DEF Join, Announce, FrameOf, mainVars, contactVars, CacheWith, RegistryIInv, TypeOK
<1>3. TypeOK'
  BY <1>1, <1>2 DEF RegistryIInv, TypeOK, fileVars
<1>4. (FileIsCurrent /\ ConfiguredWasSetUp)'
  BY <1>1 DEF RegistryIInv, FileIsCurrent, ConfiguredWasSetUp, fileVars
<1>5. QED
  BY <1>1, <1>3, <1>4 DEF RegistryIInv, fileVars

\* A descriptor registers the sensor or refreshes the entry that is found.
LEMMA DiscoverStep ==
  ASSUME RegistryIInv, NEW a \in Addrs, Discover(a)
  PROVE  RegistryIInv'
<1> DEFINE i == FirstWith(LAMBDA e : e.addr = a \/ (a \in cached /\ e.ieee = OwnerOf[a]))
<1>1. /\ i \in {0} \cup DOMAIN reg
      /\ i = 0 => \A j \in DOMAIN reg :
                    reg[j].addr # a /\ (a \in cached => reg[j].ieee # OwnerOf[a])
      /\ i # 0 => i \in DOMAIN reg /\ (reg[i].addr = a \/ reg[i].ieee = OwnerOf[a])
  BY SensorIsFound, RegistryFacts
<1>2. /\ IF i = 0 THEN Register(a) ELSE Refresh(i, a)
      /\ assigned' = assigned \cup {a}
      /\ UNCHANGED <<heard, cached, setting, nextZone, accepted, file, restarts, resolved, loaded>>
  BY DEF Discover, fileVars
<1> HIDE DEF i
<1>3. Ieee(a) \in {NoIeee, OwnerOf[a]} /\ OwnerOf[a] \in Sensors /\ OwnerOf[a] # NoIeee
  BY RegistryConstants DEF Ieee
<1>4. ASSUME reg' \in Seq(Entry), Len(reg') <= Capacity,
             anonymous' \in BOOLEAN, saving' \subseteq {"main", "contact"}
      PROVE  TypeOK'
  BY <1>2, <1>4 DEF RegistryIInv, TypeOK
<1>5. CASE i = 0 /\ Len(reg) < Capacity
  <2> DEFINE e == [addr |-> a, ieee |-> Ieee(a), configured |-> FALSE,
                   retries |-> 0, zone |-> NoZone]
  <2>1. /\ reg' = Append(reg, e) /\ saving' = saving \cup {"main"}
        /\ anonymous' = (anonymous \/ e.ieee = NoIeee)
    BY <1>2, <1>5 DEF Register
  <2>2. e \in Entry
    <3>1. 0 \in 0 .. RetryWrap - 1
      BY RegistryConstants
    <3>2. QED
      BY <1>3, <3>1 DEF Entry
  <2>3. /\ e.addr = a /\ e.ieee = Ieee(a) /\ ~e.configured
        /\ e.ieee # NoIeee => a \in cached /\ e.ieee = OwnerOf[a]
    BY DEF Ieee
  <2> HIDE DEF e
  <2>4. SoundRegistry(reg, file, anonymous)
    BY DEF RegistryIInv
  <2>5. \A j \in DOMAIN reg : reg[j].addr # e.addr
    BY <1>1, <1>5, <2>3
  <2>6. e.ieee # NoIeee => \A j \in DOMAIN reg : reg[j].ieee # e.ieee
    BY <1>1, <1>5, <2>3
  <2>7. e.ieee \in {NoIeee, OwnerOf[e.addr]}
    BY <1>3, <2>3
  <2>8. SoundRegistry(Append(reg, e), file, anonymous \/ e.ieee = NoIeee)
    BY <1>5, <2>2, <2>4, <2>5, <2>6, <2>7, RegistryFacts, AppendedEntry
  <2>9. SoundRegistry(reg, file, anonymous)'
    BY <1>2, <2>1, <2>8
  <2>10. SoundFile(file, anonymous)'
    BY <1>2, <2>1, RegistryFacts DEF RegistryIInv, SoundFile
  <2>11. TypeOK'
    <3>1. reg' \in Seq(Entry) /\ Len(reg') <= Capacity
      BY <2>9 DEF SoundRegistry
    <3>2. anonymous' \in BOOLEAN /\ saving' \subseteq {"main", "contact"}
      BY <2>1 DEF RegistryIInv, TypeOK
    <3>3. QED
      BY <1>4, <3>1, <3>2
  <2>12. FileIsCurrent'
    BY <2>1 DEF FileIsCurrent
  <2>13. ConfiguredWasSetUp'
    <3>1. \A j \in DOMAIN reg' : (j \in DOMAIN reg /\ reg'[j] = reg[j]) \/ reg'[j] = e
      BY <2>1, <2>2, RegistryFacts
    <3>2. QED
      BY <1>2, <2>3, <3>1 DEF RegistryIInv, ConfiguredWasSetUp
  <2>14. QED
    BY <2>9, <2>10, <2>11, <2>12, <2>13 DEF RegistryIInv
<1>6. CASE i = 0 /\ ~(Len(reg) < Capacity)
  <2>1. UNCHANGED <<reg, saving, anonymous>>
    BY <1>2, <1>6 DEF Register
  <2>2. TypeOK'
    BY <1>4, <2>1 DEF RegistryIInv, TypeOK
  <2>3. FileIsCurrent' /\ ConfiguredWasSetUp'
    BY <1>2, <2>1 DEF RegistryIInv, FileIsCurrent, ConfiguredWasSetUp
  <2>4. QED
    BY <1>2, <2>1, <2>2, <2>3 DEF RegistryIInv
<1>7. CASE i # 0
  <2> DEFINE e == reg[i]
             new == [e EXCEPT !.addr = a,
                              !.configured = @ /\ e.addr = a,
                              !.ieee = IF @ = NoIeee THEN Ieee(a) ELSE @]
  <2>1. /\ reg' = [reg EXCEPT ![i] = new] /\ UNCHANGED anonymous
        /\ saving' = IF e.addr # a \/ new.ieee # e.ieee THEN saving \cup {"main"} ELSE saving
    BY <1>2, <1>7 DEF Refresh
  <2>2. i \in DOMAIN reg /\ e \in Entry /\ (e.addr = a \/ e.ieee = OwnerOf[a])
    BY <1>1, <1>7, RegistryFacts
  <2>3. e.ieee \in {NoIeee, OwnerOf[e.addr]}
    BY <2>2, RegistryFacts
  <2> HIDE DEF e
  <2>4. /\ new \in Entry /\ new.addr = a
        /\ new.configured = (e.configured /\ e.addr = a)
        /\ new.ieee = IF e.ieee = NoIeee THEN Ieee(a) ELSE e.ieee
        /\ new.zone = e.zone
    BY <1>3, <2>2 DEF Entry
  <2> HIDE DEF new
  <2>5. new.ieee \in {NoIeee, OwnerOf[new.addr]}
    BY <1>3, <2>2, <2>3, <2>4
  <2>6. \/ saving' # {}
        \/ Line(new) = Line(e) /\ saving' = saving
    BY <2>1, <2>4 DEF Line
  <2>7. /\ reg' \in Seq(Entry) /\ Len(reg') <= Capacity
        /\ SoundRegistry(reg, file, anonymous)' /\ SoundFile(file, anonymous)'
        /\ FileIsCurrent' /\ ConfiguredWasSetUp'
    <3>1. e.ieee # NoIeee => new.ieee = e.ieee
      BY <2>4
    <3>2. new.addr = e.addr \/ e.ieee = OwnerOf[new.addr]
      BY <2>2, <2>4
    <3>3. new.configured => e.configured \/ new.addr \in accepted'
      BY <2>4
    <3>4. \/ saving' # {} \/ resolved'
          \/ Line(new) = Line(e) /\ saving' = saving /\ resolved' = resolved
      BY <1>2, <2>6
    <3>5. /\ file' = file /\ anonymous' = anonymous /\ loaded' = loaded
          /\ accepted \subseteq accepted' /\ reg' = [reg EXCEPT ![i] = new]
      BY <1>2, <2>1
    <3>6. QED
      BY <2>2, <2>4, <2>5, <3>1, <3>2, <3>3, <3>4, <3>5, EntryStep DEF e
  <2>8. TypeOK'
    <3>1. anonymous' \in BOOLEAN /\ saving' \subseteq {"main", "contact"}
      BY <2>1 DEF RegistryIInv, TypeOK
    <3>2. QED
      BY <1>4, <2>7, <3>1
  <2>9. QED
    BY <2>7, <2>8 DEF RegistryIInv
<1>8. QED
  BY <1>5, <1>6, <1>7

\* The stale entries that a merge looks for: their first, if there is one.
LEMMA StaleIsFound ==
  ASSUME reg \in Seq(Entry), NEW a
  PROVE  LET s == FirstWith(LAMBDA e : e.addr # a /\ e.ieee = OwnerOf[a]) IN
           s # 0 => s \in DOMAIN reg /\ reg[s].ieee = OwnerOf[a]
<1> DEFINE I == {j \in 1 .. Len(reg) : reg[j].addr # a /\ reg[j].ieee = OwnerOf[a]}
           s == FirstWith(LAMBDA e : e.addr # a /\ e.ieee = OwnerOf[a])
<1>1. Len(reg) \in Nat /\ DOMAIN reg = 1 .. Len(reg) /\ I \in SUBSET Nat
  OBVIOUS
<1>2. s = IF I # {} THEN Min(I) ELSE 0
  BY DEF FirstWith, SelectInSeq
<1> HIDE DEF s
<1>3. s # 0 => s \in DOMAIN reg /\ reg[s].ieee = OwnerOf[a]
  <2>1. ASSUME s # 0
        PROVE  s \in I
    <3>1. I # {}
      BY <1>2, <2>1
    <3>2. Min(I) \in I
      BY <1>1, <3>1, SmallestExists
    <3> HIDE DEF I
    <3>3. QED
      BY <1>2, <3>1, <3>2
  <2>2. QED
    BY <1>1, <2>1
<1>4. QED
  BY <1>3 DEF s

\* A merge leaves a sound registry, and one entry of the sensor counts as configured
\* only if one of those it took the place of did.
LEMMA MergeStep ==
  ASSUME RegistryIInv, NEW a \in Addrs, EntryOf(a) # 0
  PROVE  /\ SoundRegistry(Merged(a), file, anonymous)
         /\ \A k \in DOMAIN Merged(a) : Merged(a)[k].configured =>
              \/ \E b \in accepted : OwnerOf[b] = OwnerOf[Merged(a)[k].addr]
              \/ Merged(a)[k].ieee \in loaded
<1> DEFINE t == EntryOf(a)
           d == OwnerOf[a]
           s == FirstWith(LAMBDA e : e.addr # a /\ e.ieee = OwnerOf[a])
           target == IF s = 0 THEN [reg[t] EXCEPT !.ieee = d]
                     ELSE [reg[t] EXCEPT !.ieee = d, !.zone = reg[s].zone,
                                         !.configured = reg[s].configured]
           is == {i \in DOMAIN reg : ~(reg[i].addr # a /\ reg[i].ieee = OwnerOf[a])}
           r == [reg EXCEPT ![t] = target]
<1>1. t \in DOMAIN reg /\ reg[t].addr = a
  BY RegistryFacts, EntryIsFound
<1>2. s # 0 => s \in DOMAIN reg /\ reg[s].ieee = d
  BY RegistryFacts, StaleIsFound
<1>3. Merged(a) = Keep(r, is)
  BY DEF Merged
<1>4. is \in SUBSET DOMAIN reg /\ t \in is
      /\ \A i \in DOMAIN reg : i \notin is => reg[i].ieee = d
  BY <1>1
<1>5. d \in Sensors /\ d # NoIeee
  BY RegistryConstants
<1> HIDE DEF s, t, is
<1>6. /\ target \in Entry /\ target.addr = a /\ target.ieee = d
      /\ target.configured => reg[t].configured \/ (s # 0 /\ reg[s].configured)
  <2>1. reg[t] \in Entry /\ (s # 0 => reg[s] \in Entry)
    BY <1>1, <1>2, RegistryFacts
  <2>2. CASE s = 0
    BY <1>1, <1>5, <2>1, <2>2 DEF Entry
  <2>3. CASE s # 0
    <3>1. target = [reg[t] EXCEPT !.ieee = d, !.zone = reg[s].zone,
                                  !.configured = reg[s].configured]
      BY <2>3
    <3>2. QED
      BY <1>1, <1>5, <2>1, <2>3, <3>1 DEF Entry
  <2>4. QED
    BY <2>2, <2>3
<1> HIDE DEF target, d
<1>7. target.ieee = OwnerOf[target.addr] /\ (reg[t].ieee # NoIeee => reg[t].ieee = d)
  BY <1>1, <1>6, RegistryFacts DEF d
<1>8. SoundRegistry(r, file, anonymous)
  <2>1. SoundRegistry(reg, file, anonymous)
    BY DEF RegistryIInv
  <2>2. reg[t].ieee # NoIeee => target.ieee = reg[t].ieee
    BY <1>6, <1>7
  <2>3. target.ieee \in {NoIeee, OwnerOf[target.addr]} /\ target.addr = reg[t].addr
    BY <1>1, <1>6, <1>7
  <2>4. QED
    BY <1>1, <1>6, <2>1, <2>2, <2>3, RegistryFacts, UpdatedEntry
<1>9. /\ r \in Seq(Entry) /\ DOMAIN r = DOMAIN reg /\ r[t] = target
      /\ \A i \in DOMAIN reg : i # t => r[i] = reg[i]
  BY <1>1, <1>6, RegistryFacts
<1> HIDE DEF r
<1>10. \A i \in DOMAIN r : \E j \in is : r[j].ieee = r[i].ieee
  <2>1. ASSUME NEW i \in DOMAIN r
        PROVE  \E j \in is : r[j].ieee = r[i].ieee
    <3>1. CASE i \in is
      BY <3>1
    <3>2. CASE i \notin is
      BY <1>4, <1>6, <1>9, <3>2
    <3>3. QED
      BY <3>1, <3>2
  <2>2. QED
    BY <2>1
<1>11. SoundRegistry(Keep(r, is), file, anonymous)
  BY <1>4, <1>8, <1>9, <1>10, RegistryFacts, RemovedEntries
<1>12. \A i \in DOMAIN r : r[i].configured =>
         (\E b \in accepted : OwnerOf[b] = OwnerOf[r[i].addr]) \/ r[i].ieee \in loaded
  <2>1. \A j \in DOMAIN reg : reg[j].configured =>
          (\E b \in accepted : OwnerOf[b] = OwnerOf[reg[j].addr]) \/ reg[j].ieee \in loaded
    BY DEF RegistryIInv, ConfiguredWasSetUp
  <2>2. \A j \in DOMAIN reg : reg[j].ieee \in {NoIeee, OwnerOf[reg[j].addr]}
    BY RegistryFacts
  <2>3. \A j \in DOMAIN reg : reg[j].ieee = d => OwnerOf[reg[j].addr] = d
    BY <1>5, <2>2
  <2>4. ASSUME target.configured
        PROVE  (\E b \in accepted : OwnerOf[b] = d) \/ d \in loaded
    <3>1. CASE reg[t].configured
      <4>1. OwnerOf[reg[t].addr] = d
        BY <1>1 DEF d
      <4>2. reg[t].ieee \in loaded => reg[t].ieee = d
        BY <1>7, RegistryFacts
      <4>3. QED
        BY <1>1, <2>1, <3>1, <4>1, <4>2
    <3>2. CASE s # 0 /\ reg[s].configured
      BY <1>2, <2>1, <2>3, <3>2
    <3>3. QED
      BY <1>6, <2>4, <3>1, <3>2
  <2>5. OwnerOf[target.addr] = d /\ target.ieee = d
    BY <1>6 DEF d
  <2>6. QED
    BY <1>9, <2>1, <2>4, <2>5
<1>13. \A k \in DOMAIN Keep(r, is) : \E i \in DOMAIN r : Keep(r, is)[k] = r[i]
  <2>1. \A k \in DOMAIN Keep(r, is) : Entrant(is, k) \in is /\ Keep(r, is)[k] = r[Entrant(is, k)]
    BY <1>4, <1>9, KeepProperties
  <2>2. QED
    BY <1>4, <1>9, <2>1
<1>14. QED
  BY <1>3, <1>11, <1>12, <1>13

\* An IEEE answer merges the entries of the sensor, if there is room in the cache.
LEMMA IeeeStep ==
  ASSUME RegistryIInv, NEW a \in Addrs, IeeeResponse(a)
  PROVE  RegistryIInv'
<1>1. /\ IF a \in cached' /\ EntryOf(a) # 0
           THEN /\ reg' = Merged(a)
                /\ assigned' = assigned \cup {a}
                /\ saving' = saving \cup {"main"}
           ELSE UNCHANGED <<reg, assigned, saving>>
      /\ UNCHANGED <<heard, anonymous, setting, nextZone, accepted, file, restarts, resolved, loaded>>
      /\ cached' = CacheWith(a)
  BY DEF IeeeResponse, fileVars
<1>2. cached' \subseteq Addrs
  BY <1>1 DEF CacheWith, RegistryIInv, TypeOK
<1>3. CASE a \in cached' /\ EntryOf(a) # 0
  <2>1. /\ reg' = Merged(a) /\ assigned' = assigned \cup {a}
        /\ saving' = saving \cup {"main"}
    BY <1>1, <1>3
  <2>2. /\ SoundRegistry(reg', file, anonymous)
        /\ \A k \in DOMAIN reg' : reg'[k].configured =>
             (\E b \in accepted : OwnerOf[b] = OwnerOf[reg'[k].addr]) \/ reg'[k].ieee \in loaded
    BY <1>3, <2>1, MergeStep
  <2>3. SoundRegistry(reg, file, anonymous)' /\ SoundFile(file, anonymous)'
    BY <1>1, <2>2 DEF RegistryIInv
  <2>4. TypeOK'
    <3>1. reg' \in Seq(Entry) /\ Len(reg') <= Capacity
      BY <2>2 DEF SoundRegistry
    <3>2. QED
      BY <1>1, <1>2, <2>1, <3>1 DEF RegistryIInv, TypeOK
  <2>5. FileIsCurrent'
    BY <2>1 DEF FileIsCurrent
  <2>6. ConfiguredWasSetUp'
    BY <1>1, <2>2 DEF ConfiguredWasSetUp
  <2>7. QED
    BY <2>3, <2>4, <2>5, <2>6 DEF RegistryIInv
<1>4. CASE ~(a \in cached' /\ EntryOf(a) # 0)
  <2>1. UNCHANGED <<reg, assigned, saving>>
    BY <1>1, <1>4
  <2>2. TypeOK'
    BY <1>1, <1>2, <2>1 DEF RegistryIInv, TypeOK
  <2>3. FileIsCurrent' /\ ConfiguredWasSetUp'
    BY <1>1, <2>1 DEF RegistryIInv, FileIsCurrent, ConfiguredWasSetUp
  <2>4. QED
    BY <1>1, <2>1, <2>2, <2>3 DEF RegistryIInv
<1>5. QED
  BY <1>3, <1>4

\* A setup begins, and may fill in an IEEE address that is not saved.
LEMMA SetupBeginsStep ==
  ASSUME RegistryIInv, NEW a \in Addrs, SetupBegins(a)
  PROVE  RegistryIInv'
<1> DEFINE i == EntryOf(a)
<1>1. /\ assigned' = assigned \ {a}
      /\ IF ~IsUnconfigured(a) \/ (reg[i].ieee = NoIeee /\ a \notin cached)
           THEN UNCHANGED <<reg, setting, resolved>>
           ELSE /\ setting' = a
                /\ reg' = [reg EXCEPT ![i].ieee = IF @ = NoIeee THEN OwnerOf[a] ELSE @]
                /\ resolved' = (resolved \/ reg[i].ieee = NoIeee)
      /\ UNCHANGED <<heard, cached, anonymous, nextZone, accepted, saving, file, restarts, loaded>>
  BY DEF SetupBegins, mainVars
<1>2. CASE ~IsUnconfigured(a) \/ (reg[i].ieee = NoIeee /\ a \notin cached)
  <2>1. UNCHANGED <<reg, setting, resolved>>
    BY <1>1, <1>2
  <2>2. TypeOK'
    BY <1>1, <2>1 DEF RegistryIInv, TypeOK
  <2>3. FileIsCurrent' /\ ConfiguredWasSetUp'
    BY <1>1, <2>1 DEF RegistryIInv, FileIsCurrent, ConfiguredWasSetUp
  <2>4. QED
    BY <1>1, <2>1, <2>2, <2>3 DEF RegistryIInv
<1>3. CASE IsUnconfigured(a) /\ ~(reg[i].ieee = NoIeee /\ a \notin cached)
  <2>1. i \in DOMAIN reg /\ reg[i].addr = a /\ reg[i] \in Entry
    BY <1>3, RegistryFacts, EntryIsFound DEF IsUnconfigured
  <2> HIDE DEF i
  <2> DEFINE e == [reg[i] EXCEPT !.ieee = IF @ = NoIeee THEN OwnerOf[a] ELSE @]
  <2>2. /\ setting' = a /\ reg' = [reg EXCEPT ![i] = e]
        /\ resolved' = (resolved \/ reg[i].ieee = NoIeee)
    BY <1>1, <1>3, <2>1
  <2>3. /\ e \in Entry /\ e.addr = a /\ e.configured = reg[i].configured
        /\ e.ieee = IF reg[i].ieee = NoIeee THEN OwnerOf[a] ELSE reg[i].ieee
        /\ e.zone = reg[i].zone
    BY <2>1, RegistryConstants DEF Entry
  <2> HIDE DEF e
  <2>4. e.ieee \in {NoIeee, OwnerOf[e.addr]}
    BY <2>1, <2>3, RegistryFacts
  <2>5. resolved' \/ (Line(e) = Line(reg[i]) /\ resolved' = resolved)
    BY <2>1, <2>2, <2>3 DEF Line, RegistryIInv, TypeOK
  <2>6. /\ reg' \in Seq(Entry) /\ Len(reg') <= Capacity
        /\ SoundRegistry(reg, file, anonymous)' /\ SoundFile(file, anonymous)'
        /\ FileIsCurrent' /\ ConfiguredWasSetUp'
    <3>1. /\ reg[i].ieee # NoIeee => e.ieee = reg[i].ieee
          /\ e.addr = reg[i].addr
          /\ e.configured => reg[i].configured
      BY <2>1, <2>3
    <3>2. /\ file' = file /\ anonymous' = anonymous /\ loaded' = loaded
          /\ accepted \subseteq accepted' /\ saving' = saving
      BY <1>1
    <3>3. QED
      BY <2>1, <2>2, <2>3, <2>4, <2>5, <3>1, <3>2, EntryStep
  <2>7. TypeOK'
    BY <1>1, <2>2, <2>6 DEF RegistryIInv, TypeOK
  <2>8. QED
    BY <2>6, <2>7 DEF RegistryIInv
<1>4. QED
  BY <1>2, <1>3

\* A setup ends. What it changes is not written to the file.
LEMMA SetupEndsStep ==
  ASSUME RegistryIInv, NEW ok \in BOOLEAN, SetupEnds(ok)
  PROVE  RegistryIInv'
<1> DEFINE i == EntryOf(setting)
<1>1. /\ setting # NoAddr
      /\ reg' = IF i = 0 THEN reg
                ELSE IF ok THEN [reg EXCEPT ![i].configured = TRUE, ![i].retries = 0]
                ELSE [reg EXCEPT ![i].retries = (@ + 1) % RetryWrap]
      /\ accepted' = IF ok THEN accepted \cup {setting} ELSE accepted
      /\ setting' = NoAddr
      /\ UNCHANGED <<heard, cached, anonymous, assigned, nextZone, saving, file, restarts,
                     resolved, loaded>>
  BY DEF SetupEnds, mainVars, fileVars
<1>2. setting \in Addrs /\ accepted' \subseteq Addrs /\ accepted \subseteq accepted'
  BY <1>1 DEF RegistryIInv, TypeOK
<1>3. ASSUME reg' \in Seq(Entry), Len(reg') <= Capacity
      PROVE  TypeOK'
  BY <1>1, <1>2, <1>3 DEF RegistryIInv, TypeOK
<1>4. CASE i = 0
  <2>1. reg' = reg
    BY <1>1, <1>4
  <2>2. TypeOK'
    BY <1>3, <2>1, RegistryFacts
  <2>3. FileIsCurrent' /\ ConfiguredWasSetUp'
    BY <1>1, <1>2, <2>1 DEF RegistryIInv, FileIsCurrent, ConfiguredWasSetUp
  <2>4. QED
    BY <1>1, <2>1, <2>2, <2>3 DEF RegistryIInv
<1>5. CASE i # 0
  <2>1. i \in DOMAIN reg /\ reg[i].addr = setting /\ reg[i] \in Entry
    BY <1>5, RegistryFacts, EntryIsFound
  <2> HIDE DEF i
  <2> DEFINE e == IF ok THEN [reg[i] EXCEPT !.configured = TRUE, !.retries = 0]
                  ELSE [reg[i] EXCEPT !.retries = (@ + 1) % RetryWrap]
  <2>2. reg' = [reg EXCEPT ![i] = e]
    <3>1. CASE ok
      BY <1>1, <1>5, <2>1, <3>1
    <3>2. CASE ~ok
      BY <1>1, <1>5, <2>1, <3>2
    <3>3. QED
      BY <3>1, <3>2
  <2>3. /\ e \in Entry /\ e.addr = setting /\ e.ieee = reg[i].ieee /\ e.zone = reg[i].zone
        /\ e.configured => ok \/ reg[i].configured
    <3>1. /\ 0 \in 0 .. RetryWrap - 1
          /\ \A n \in Nat : (n + 1) % RetryWrap \in 0 .. RetryWrap - 1
      BY RegistryConstants
    <3>2. CASE ok
      BY <2>1, <3>1, <3>2 DEF Entry
    <3>3. CASE ~ok
      <4>1. reg[i].retries \in Nat
        BY <2>1, RegistryConstants DEF Entry
      <4>2. (reg[i].retries + 1) % RetryWrap \in 0 .. RetryWrap - 1
        BY <3>1, <4>1
      <4>3. e = [reg[i] EXCEPT !.retries = (@ + 1) % RetryWrap]
        BY <3>3
      <4>4. QED
        BY <2>1, <4>2, <4>3 DEF Entry
    <3>4. QED
      BY <3>2, <3>3
  <2> HIDE DEF e
  <2>4. Line(e) = Line(reg[i])
    BY <2>1, <2>3 DEF Line
  <2>5. e.ieee \in {NoIeee, OwnerOf[e.addr]}
    BY <2>1, <2>3, RegistryFacts
  <2>6. /\ reg' \in Seq(Entry) /\ Len(reg') <= Capacity
        /\ SoundRegistry(reg, file, anonymous)' /\ SoundFile(file, anonymous)'
        /\ FileIsCurrent' /\ ConfiguredWasSetUp'
    <3>1. e.configured => reg[i].configured \/ e.addr \in accepted'
      BY <1>1, <2>3
    <3>2. /\ file' = file /\ anonymous' = anonymous /\ loaded' = loaded
          /\ saving' = saving /\ resolved' = resolved /\ e.addr = reg[i].addr
      BY <1>1, <2>1, <2>3
    <3>3. QED
      BY <1>2, <2>1, <2>2, <2>3, <2>4, <2>5, <3>1, <3>2, EntryStep
  <2>7. QED
    BY <1>3, <2>6 DEF RegistryIInv
<1>6. QED
  BY <1>4, <1>5

\* An enrolment gives the entry a zone, and is saved.
LEMMA EnrollStep ==
  ASSUME RegistryIInv, NEW a \in Addrs, Enroll(a)
  PROVE  RegistryIInv'
<1> DEFINE i == EntryOf(a)
<1>1. /\ reg' = IF i = 0 THEN reg ELSE [reg EXCEPT ![i].zone = nextZone]
      /\ nextZone' = nextZone + 1 /\ saving' = saving \cup {"contact"}
      /\ UNCHANGED <<heard, cached, anonymous, assigned, setting, accepted, file, restarts,
                     resolved, loaded>>
  BY DEF Enroll, mainVars, fileVars
<1>2. nextZone \in Nat
  BY DEF RegistryIInv, TypeOK
<1>3. ASSUME reg' \in Seq(Entry), Len(reg') <= Capacity
      PROVE  TypeOK'
  BY <1>1, <1>3 DEF RegistryIInv, TypeOK
<1>4. CASE i = 0
  <2>1. reg' = reg
    BY <1>1, <1>4
  <2>2. TypeOK'
    BY <1>3, <2>1, RegistryFacts
  <2>3. FileIsCurrent' /\ ConfiguredWasSetUp'
    BY <1>1, <2>1 DEF RegistryIInv, FileIsCurrent, ConfiguredWasSetUp
  <2>4. QED
    BY <1>1, <2>1, <2>2, <2>3 DEF RegistryIInv
<1>5. CASE i # 0
  <2>1. i \in DOMAIN reg /\ reg[i].addr = a /\ reg[i] \in Entry
    BY <1>5, RegistryFacts, EntryIsFound
  <2> HIDE DEF i
  <2> DEFINE e == [reg[i] EXCEPT !.zone = nextZone]
  <2>2. reg' = [reg EXCEPT ![i] = e]
    BY <1>1, <1>5, <2>1
  <2>3. /\ e \in Entry /\ e.addr = a /\ e.ieee = reg[i].ieee
        /\ e.configured = reg[i].configured
    BY <1>2, <2>1 DEF Entry
  <2> HIDE DEF e
  <2>4. e.ieee \in {NoIeee, OwnerOf[e.addr]}
    BY <2>1, <2>3, RegistryFacts
  <2>5. /\ reg' \in Seq(Entry) /\ Len(reg') <= Capacity
        /\ SoundRegistry(reg, file, anonymous)' /\ SoundFile(file, anonymous)'
        /\ FileIsCurrent' /\ ConfiguredWasSetUp'
    <3>1. /\ file' = file /\ anonymous' = anonymous /\ loaded' = loaded
          /\ saving' # {} /\ accepted \subseteq accepted' /\ e.addr = reg[i].addr
      BY <1>1, <2>1, <2>3
    <3>2. QED
      BY <2>1, <2>2, <2>3, <2>4, <3>1, EntryStep
  <2>6. QED
    BY <1>3, <2>5 DEF RegistryIInv
<1>6. QED
  BY <1>4, <1>5

\* A save brings the file up to date.
LEMMA SaveStep ==
  ASSUME RegistryIInv, NEW t \in {"main", "contact"}, Save(t)
  PROVE  RegistryIInv' /\ SensorsIn(file) \subseteq SensorsIn(file')
<1>1. /\ file' = Persisted(reg) /\ resolved' = FALSE /\ saving' = saving \ {t}
      /\ UNCHANGED <<heard, cached, anonymous, reg, assigned, setting, nextZone, accepted,
                     restarts, loaded>>
  BY DEF Save, mainVars, contactVars
<1>2. /\ SoundFile(Persisted(reg), anonymous) /\ SoundRegistry(reg, Persisted(reg), anonymous)
      /\ SensorsIn(file) \subseteq SensorsIn(Persisted(reg))
  <2>1. SoundRegistry(reg, file, anonymous)
    BY DEF RegistryIInv
  <2>2. QED
    BY <2>1, RegistryFacts, PersistedIsSound
<1>3. SoundRegistry(reg, file, anonymous)' /\ SoundFile(file, anonymous)'
  BY <1>1, <1>2
<1>4. TypeOK'
  <2>1. file' \in Seq(Saved)
    BY <1>3 DEF SoundFile
  <2>2. QED
    BY <1>1, <2>1 DEF RegistryIInv, TypeOK
<1>5. FileIsCurrent' /\ ConfiguredWasSetUp'
  BY <1>1 DEF RegistryIInv, FileIsCurrent, ConfiguredWasSetUp
<1>6. QED
  BY <1>1, <1>2, <1>3, <1>4, <1>5 DEF RegistryIInv

\* After a restart the registry is what the file says, which a crash in a save may
\* have cut off.
LEMMA RestartStep ==
  ASSUME RegistryIInv, Restart
  PROVE  /\ RegistryIInv'
         /\ SensorsIn(file) \subseteq SensorsIn(file') \/ (restarts' # restarts /\ saving # {})
<1>1. PICK f \in {file} \cup (IF saving = {} THEN {} ELSE Prefixes(Persisted(reg))) :
        file' = f /\ reg' = Load(f) /\ cached' = {f[i].addr : i \in DOMAIN f}
        /\ loaded' = SensorsIn(f)
  BY DEF Restart
<1>2. /\ restarts < MaxRestarts /\ restarts' = restarts + 1
      /\ assigned' = {} /\ setting' = NoAddr /\ saving' = {} /\ nextZone' = 1
      /\ accepted' = {} /\ resolved' = FALSE
      /\ UNCHANGED <<heard, anonymous>>
  BY DEF Restart
<1>3. SoundFile(f, anonymous)
  <2>1. SoundFile(file, anonymous) /\ SoundRegistry(reg, file, anonymous)
    BY DEF RegistryIInv
  <2>2. SoundFile(Persisted(reg), anonymous)
    BY <2>1, RegistryFacts, PersistedIsSound
  <2>3. CASE f = file
    BY <2>1, <2>3
  <2>4. CASE f \in Prefixes(Persisted(reg))
    BY <2>2, <2>4, RegistryFacts, PrefixIsSound
  <2>5. QED
    BY <1>1, <2>3, <2>4
<1>4. SoundRegistry(Load(f), f, anonymous) /\ Persisted(Load(f)) = f
  BY <1>3, RegistryFacts, LoadedIsSound
<1>5. \A i \in DOMAIN f : f[i] \in Saved /\ f[i].addr \in Addrs /\ f[i].ieee \in Sensors
  <2>1. \A i \in DOMAIN f : f[i] \in Saved
    BY <1>3 DEF SoundFile
  <2>2. QED
    BY <2>1 DEF Saved
<1>6. TypeOK'
  <2>1. /\ reg' \in Seq(Entry) /\ Len(reg') <= Capacity /\ file' \in Seq(Saved)
        /\ cached' \subseteq Addrs /\ loaded' \subseteq Sensors
    BY <1>1, <1>3, <1>4, <1>5 DEF SoundRegistry, SoundFile, SensorsIn
  <2>2. restarts' \in 0 .. MaxRestarts
    BY <1>2, RegistryConstants DEF RegistryIInv, TypeOK
  <2>3. QED
    BY <1>2, <2>1, <2>2 DEF RegistryIInv, TypeOK
<1>7. SoundRegistry(reg, file, anonymous)' /\ SoundFile(file, anonymous)' /\ FileIsCurrent'
  BY <1>1, <1>2, <1>3, <1>4 DEF FileIsCurrent
<1>8. ConfiguredWasSetUp'
  <2>1. \A i \in DOMAIN reg' : i \in DOMAIN f /\ reg'[i].ieee = f[i].ieee
    BY <1>1 DEF Load
  <2>2. QED
    BY <1>1, <2>1 DEF ConfiguredWasSetUp, SensorsIn
<1>9. SensorsIn(file) \subseteq SensorsIn(file') \/ (restarts' # restarts /\ saving # {})
  <2>1. CASE saving = {}
    BY <1>1, <2>1
  <2>2. CASE saving # {}
    BY <1>2, <2>2 DEF RegistryIInv, TypeOK
  <2>3. QED
    BY <2>1, <2>2
<1>10. QED
  BY <1>6, <1>7, <1>8, <1>9 DEF RegistryIInv

LEMMA RegistryStep ==
  ASSUME RegistryIInv, [ContactNext \/ ButtonNext]_<<vars, pressVars, subject>>
  PROVE  /\ RegistryIInv'
         /\ [SensorsIn(file) \subseteq SensorsIn(file') \/ (restarts' # restarts /\ saving # {})]_vars
<1>1. CASE Next
  <2>1. ASSUME NEW a \in Addrs,
               \/ Join(a) \/ Announce(a) \/ Discover(a) \/ IeeeResponse(a)
               \/ \E long \in BOOLEAN : FrameOf(a, long)
               \/ SetupBegins(a) \/ Enroll(a)
        PROVE  RegistryIInv' /\ file' = file
    <3>1. RegistryIInv'
      <4>1. CASE Join(a) \/ Announce(a) \/ \E long \in BOOLEAN : FrameOf(a, long)
        BY <4>1, QuietStep
      <4>2. CASE Discover(a)
        BY <4>2, DiscoverStep
      <4>3. CASE IeeeResponse(a)
        BY <4>3, IeeeStep
      <4>4. CASE SetupBegins(a)
        BY <4>4, SetupBeginsStep
      <4>5. CASE Enroll(a)
        BY <4>5, EnrollStep
      <4>6. QED
        BY <2>1, <4>1, <4>2, <4>3, <4>4, <4>5
    <3>2. file' = file
      BY <2>1 DEF Join, Announce, Discover, IeeeResponse, FrameOf, SetupBegins, Enroll, fileVars
    <3>3. QED
      BY <3>1, <3>2
  <2>2. ASSUME NEW ok \in BOOLEAN, SetupEnds(ok)
        PROVE  RegistryIInv' /\ file' = file
    BY <2>2, SetupEndsStep DEF SetupEnds, fileVars
  <2>3. ASSUME NEW t \in {"main", "contact"}, Save(t)
        PROVE  RegistryIInv' /\ SensorsIn(file) \subseteq SensorsIn(file')
    BY <2>3, SaveStep
  <2>4. CASE Restart
    BY <2>4, RestartStep
  <2>5. QED
    BY <1>1, <2>1, <2>2, <2>3, <2>4 DEF Next
<1>2. CASE UNCHANGED vars
  <2>1. UNCHANGED <<heard, cached, anonymous, reg, assigned, setting, nextZone, accepted,
                    saving, file, restarts, resolved, loaded>>
    BY <1>2 DEF vars, mainVars, contactVars, fileVars
  <2>2. TypeOK' /\ FileIsCurrent' /\ ConfiguredWasSetUp'
    BY <2>1 DEF RegistryIInv, TypeOK, FileIsCurrent, ConfiguredWasSetUp
  <2>3. RegistryIInv'
    BY <2>1, <2>2 DEF RegistryIInv
  <2>4. QED
    BY <1>2, <2>3
<1>3. QED
  BY <1>1, <1>2 DEF ContactNext, ButtonNext

\* However its devices join, rejoin and are set up, and whenever the program stops:
\* a contact sensor that was known by its IEEE address has one entry, the file is what
\* the registry would write as soon as no save is due, and a sensor that counts as
\* configured was set up at one of its addresses, or came from the file.
THEOREM RegistrySafety == MCSpec => []RegistryInv
<1>1. MCInit => RegistryIInv
  BY RegistryInit DEF MCInit
<1>2. RegistryIInv /\ [ContactNext \/ ButtonNext]_<<vars, pressVars, subject>> => RegistryIInv'
  BY RegistryStep
<1>3. RegistryIInv => RegistryInv
  BY DEF RegistryIInv, RegistryInv, SoundRegistry, KnownSensorsAreDistinct, Distinct
<1>4. QED
  BY <1>1, <1>2, <1>3, PTL DEF MCSpec

\* A sensor that is in the file stays there, merges and restarts included, unless the
\* program is stopped while a save is due or under way.
THEOREM SavedSensorsAreKept == MCSpec => SavedIsKept
<1>1. MCInit => RegistryIInv
  BY RegistryInit DEF MCInit
<1>2. RegistryIInv /\ [ContactNext \/ ButtonNext]_<<vars, pressVars, subject>>
        => /\ RegistryIInv'
           /\ [\/ SensorsIn(file) \subseteq SensorsIn(file')
               \/ restarts' # restarts /\ saving # {}]_vars
  BY RegistryStep
<1>3. QED
  BY <1>1, <1>2, PTL DEF MCSpec, SavedIsKept

=============================================================================
