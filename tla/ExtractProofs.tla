---------------------------- MODULE ExtractProofs ----------------------------
(***************************************************************************)
(* What holds of an extraction for any zone, reads, page size, number of   *)
(* attempts, changes and runs.  While a run works, every item that was     *)
(* there all along is still ahead of it, read, or in a gap (CoverInv, with *)
(* PageInv for the listing whose pages it is reading); while the zone also *)
(* holds still, these three are apart (QuietInv), so that the snapshot has *)
(* exactly what is in no gap.                                              *)
(***************************************************************************)
EXTENDS Extract, SequenceTheorems, TLAPS

\* An item is on the listing it belongs to, once, and there since the run began if steady.
ZoneInv ==
  /\ \A s \in Listings : NoRepeats(live[s]) /\ \A i \in ToSet(live[s]) : Home[i] = s
  /\ \A i \in steady : i \in ToSet(live[Home[i]])

\* A run at work has delivered nothing; it has pages of the listing it is reading only,
\* and asks for rulesets by name.
WorkInv ==
  ~ Idle =>
    /\ snapshot = None
    /\ run.waits => run.attempt < MaxAttempts
    /\ (run.page = 1 /\ run.pages = <<>>) \/ (Reading /\ read \in Paged)
    /\ \A i \in Items : i \in ToSet(run.todo) \cup run.gaps => Home[i] = "rulesets"
    /\ run.gaps \cap Fatal = {}

\* What was there all along is still to read, was read, or is in a gap.
Covered(i) ==
  \/ Home[i] \in ToSet(run.todo) \/ i \in ToSet(run.todo)
  \/ Home[i] \in shifted \/ i \in run.elements
  \/ InAGap(i, run) /\ Home[i] \notin Fatal

CoverInv == ~ Idle => \A i \in steady : Covered(i)

\* An item of the listing being read has been read or is on a page to come.
PageInv ==
  Reading /\ read \in Paged =>
    \A i \in steady : Home[i] = read =>
      \/ read \in shifted \/ i \in ToSet(run.pages)
      \/ \E n \in 1 .. Len(live[read]) : n > (run.page - 1) * PageSize /\ live[read][n] = i

\* While nothing changes, what was read, what is still to read and the gaps are apart.
Apart ==
  /\ \A m, n \in 1 .. Len(run.todo) : run.todo[m] = run.todo[n] => m = n \/ run.todo[m] \in Details
  /\ ToSet(run.todo) \cap run.gaps \subseteq Details
  /\ "rulesets" \in ToSet(run.todo) => Items \cap (ToSet(run.todo) \cup run.gaps) = {}
  /\ Items \cap ToSet(run.todo) # {} => "rulesets" \notin run.gaps
  /\ "account" \in run.gaps => ToSet(run.todo) \cap Account = {}
  /\ \A i \in run.elements :
       i \in InZone /\ Home[i] \notin ToSet(run.todo) /\ i \notin ToSet(run.todo) /\ ~ InAGap(i, run)
  /\ Reading /\ read \in Paged => ToSet(run.pages) \subseteq ToSet(live[read])

QuietInv == ~ Idle /\ quiet => steady = InZone /\ shifted = {} /\ Apart

Inv ==
  /\ TypeOK /\ ZoneInv /\ WorkInv /\ CoverInv /\ PageInv /\ QuietInv
  /\ NothingSilentlyMissing /\ ExactWhenQuiet

-----------------------------------------------------------------------------
(* Sequences *)

\* What is in a concatenation.
LEMMA ConcatSet ==
  ASSUME NEW S, NEW a \in Seq(S), NEW b \in Seq(S)
  PROVE  ToSet(a \o b) = ToSet(a) \cup ToSet(b)
<1>0. a \o b \in Seq(S) /\ Len(a \o b) = Len(a) + Len(b) /\ \A n \in 1 .. Len(a) + Len(b) :
        (a \o b)[n] = IF n <= Len(a) THEN a[n] ELSE b[n - Len(a)]
  BY ConcatProperties
<1>0a. /\ DOMAIN a = 1 .. Len(a) /\ DOMAIN b = 1 .. Len(b)
       /\ DOMAIN (a \o b) = 1 .. Len(a) + Len(b) /\ Len(a) \in Nat /\ Len(b) \in Nat
  BY <1>0
<1>1. ASSUME NEW x \in ToSet(a \o b) PROVE x \in ToSet(a) \cup ToSet(b)
  BY <1>0, <1>0a DEF ToSet
<1>2. ASSUME NEW x \in ToSet(a) PROVE x \in ToSet(a \o b)
  BY <1>0, <1>0a DEF ToSet
<1>3. ASSUME NEW n \in DOMAIN b PROVE b[n] \in ToSet(a \o b)
  <2>1. Len(a) + n \in DOMAIN (a \o b) /\ (a \o b)[Len(a) + n] = b[n]
    BY <1>0, <1>0a
  <2> QED BY <2>1 DEF ToSet
<1>4. \A x \in ToSet(b) : x \in ToSet(a \o b)
  BY <1>3 DEF ToSet
<1> QED BY <1>1, <1>2, <1>4

\* What is in a sequence is its head or in its tail.
LEMMA HeadSet ==
  ASSUME NEW S, NEW s \in Seq(S), s # <<>>
  PROVE  /\ Head(s) \in S /\ Tail(s) \in Seq(S)
         /\ ToSet(s) = {Head(s)} \cup ToSet(Tail(s))
         /\ Len(Tail(s)) = Len(s) - 1 /\ Head(s) = s[1]
         /\ \A n \in 1 .. Len(s) - 1 : Tail(s)[n] = s[n + 1]
<1>1. Len(s) \in Nat \ {0} /\ Head(s) = s[1] /\ DOMAIN s = 1 .. Len(s)
  BY HeadTailProperties
<1>2. /\ Tail(s) \in Seq(S) /\ Len(Tail(s)) = Len(s) - 1
      /\ \A n \in 1 .. Len(s) - 1 : Tail(s)[n] = s[n + 1]
  BY HeadTailProperties
<1>3. DOMAIN Tail(s) = 1 .. Len(s) - 1
  BY <1>1, <1>2
<1>4. ASSUME NEW n \in DOMAIN s PROVE s[n] \in {Head(s)} \cup ToSet(Tail(s))
  <2>1. CASE n = 1  BY <2>1, <1>1
  <2>2. CASE n # 1
    <3>1. n - 1 \in 1 .. Len(s) - 1 /\ (n - 1) + 1 = n  BY <2>2, <1>1
    <3> QED BY <3>1, <1>2, <1>3 DEF ToSet
  <2> QED BY <2>1, <2>2
<1>5. ASSUME NEW n \in DOMAIN Tail(s) PROVE Tail(s)[n] \in ToSet(s)
  <2>1. n + 1 \in DOMAIN s  BY <1>1, <1>3
  <2> QED BY <2>1, <1>2, <1>3 DEF ToSet
<1>6. Head(s) \in ToSet(s) /\ Head(s) \in S  BY <1>1 DEF ToSet
<1>7. ToSet(s) = {Head(s)} \cup ToSet(Tail(s))
  <2>1. \A x \in ToSet(s) : x \in {Head(s)} \cup ToSet(Tail(s))  BY <1>4 DEF ToSet
  <2>2. \A x \in ToSet(Tail(s)) : x \in ToSet(s)  BY <1>5 DEF ToSet
  <2> QED BY <2>1, <2>2, <1>6
<1> QED BY <1>1, <1>2, <1>6, <1>7

\* What is in a sequence, by position.
LEMMA SetOf ==
  ASSUME NEW S, NEW s \in Seq(S)
  PROVE  /\ ToSet(s) \subseteq S /\ ToSet(<<>>) = {} /\ Len(s) \in Nat
         /\ \A x : x \in ToSet(s) <=> \E n \in 1 .. Len(s) : s[n] = x
<1>1. DOMAIN s = 1 .. Len(s) /\ Len(s) \in Nat /\ DOMAIN <<>> = {}
  OBVIOUS
<1> QED BY <1>1 DEF ToSet

\* A listing that lost the item at a position.
LEMMA Removal ==
  ASSUME NEW S, NEW s \in Seq(S), NEW n \in 1 .. Len(s)
  PROVE  /\ RemoveAt(s, n) \in Seq(S) /\ Len(RemoveAt(s, n)) = Len(s) - 1
         /\ \A m \in 1 .. Len(s) - 1 : RemoveAt(s, n)[m] = IF m < n THEN s[m] ELSE s[m + 1]
<1> DEFINE a == SubSeq(s, 1, n - 1)
           b == SubSeq(s, n + 1, Len(s))
<1>0. Len(s) \in Nat
  OBVIOUS
<1>1. a \in Seq(S) /\ Len(a) = n - 1 /\ \A m \in 1 .. n - 1 : a[m] = s[m]
  BY SubSeqProperties, <1>0
<1>2. b \in Seq(S) /\ Len(b) = Len(s) - n /\ \A m \in 1 .. Len(s) - n : b[m] = s[n + m]
  BY SubSeqProperties, <1>0
<1> HIDE DEF a, b
<1>3. a \o b \in Seq(S) /\ Len(a \o b) = Len(a) + Len(b) /\ \A m \in 1 .. Len(a) + Len(b) :
        (a \o b)[m] = IF m <= Len(a) THEN a[m] ELSE b[m - Len(a)]
  BY <1>1, <1>2, ConcatProperties
<1>4. RemoveAt(s, n) = a \o b
  BY DEF RemoveAt, a, b
<1>5. ASSUME NEW m \in 1 .. Len(s) - 1 PROVE (a \o b)[m] = IF m < n THEN s[m] ELSE s[m + 1]
  <2>1. CASE m < n  BY <2>1, <1>0, <1>1, <1>2, <1>3
  <2>2. CASE ~(m < n)
    <3>1. m - (n - 1) \in 1 .. Len(s) - n /\ n + (m - (n - 1)) = m + 1 /\ ~(m <= n - 1)
          /\ m \in 1 .. (n - 1) + (Len(s) - n)
      BY <2>2, <1>0
    <3> QED BY <2>2, <3>1, <1>1, <1>2, <1>3
  <2> QED BY <2>1, <2>2
<1> QED BY <1>0, <1>1, <1>2, <1>3, <1>4, <1>5

\* A listing that got an item at a position.
LEMMA Insertion ==
  ASSUME NEW S, NEW s \in Seq(S), NEW n \in 1 .. Len(s) + 1, NEW e \in S
  PROVE  /\ InsertAt(s, n, e) \in Seq(S) /\ Len(InsertAt(s, n, e)) = Len(s) + 1
         /\ \A m \in 1 .. Len(s) + 1 :
              InsertAt(s, n, e)[m] = IF m < n THEN s[m] ELSE IF m = n THEN e ELSE s[m - 1]
<1> DEFINE a == SubSeq(s, 1, n - 1)
           b == SubSeq(s, n, Len(s))
           c == <<e>>
<1>0. Len(s) \in Nat
  OBVIOUS
<1>1. a \in Seq(S) /\ Len(a) = n - 1 /\ \A m \in 1 .. n - 1 : a[m] = s[m]
  BY SubSeqProperties, <1>0
<1>2. b \in Seq(S) /\ Len(b) = Len(s) + 1 - n /\ \A m \in 1 .. Len(s) + 1 - n : b[m] = s[n + m - 1]
  BY SubSeqProperties, <1>0
<1>3. c \in Seq(S) /\ Len(c) = 1 /\ c[1] = e
  OBVIOUS
<1> HIDE DEF a, b, c
<1>4. a \o c \in Seq(S) /\ Len(a \o c) = n
      /\ \A m \in 1 .. n : (a \o c)[m] = IF m <= n - 1 THEN a[m] ELSE c[m - (n - 1)]
  <2>1. a \o c \in Seq(S) /\ Len(a \o c) = Len(a) + Len(c) /\ \A m \in 1 .. Len(a) + Len(c) :
          (a \o c)[m] = IF m <= Len(a) THEN a[m] ELSE c[m - Len(a)]
    BY <1>1, <1>3, ConcatProperties
  <2>2. Len(a) = n - 1 /\ Len(a) + Len(c) = n
    BY <1>0, <1>1, <1>3
  <2> QED BY <2>1, <2>2
<1>5. /\ (a \o c) \o b \in Seq(S) /\ Len((a \o c) \o b) = Len(s) + 1
      /\ \A m \in 1 .. Len(s) + 1 : ((a \o c) \o b)[m] = IF m <= n THEN (a \o c)[m] ELSE b[m - n]
  <2> DEFINE d == a \o c
  <2>0. d \in Seq(S) /\ Len(d) = n
    BY <1>4
  <2> HIDE DEF d
  <2>1. d \o b \in Seq(S) /\ Len(d \o b) = Len(d) + Len(b) /\ \A m \in 1 .. Len(d) + Len(b) :
          (d \o b)[m] = IF m <= Len(d) THEN d[m] ELSE b[m - Len(d)]
    BY <1>2, <2>0, ConcatProperties
  <2>2. Len(d) + Len(b) = Len(s) + 1
    BY <1>0, <1>2, <2>0
  <2> QED BY <2>0, <2>1, <2>2 DEF d
<1>6. InsertAt(s, n, e) = (a \o c) \o b
  BY DEF InsertAt, a, b, c
<1>7. ASSUME NEW m \in 1 .. Len(s) + 1
      PROVE  ((a \o c) \o b)[m] = IF m < n THEN s[m] ELSE IF m = n THEN e ELSE s[m - 1]
  <2>1. CASE m < n
    BY <2>1, <1>0, <1>1, <1>4, <1>5
  <2>2. CASE m = n
    <3>1. n \in 1 .. n /\ ~(n <= n - 1) /\ n - (n - 1) = 1 /\ n <= n /\ ~(n < n)
      BY <1>0
    <3> QED BY <2>2, <3>1, <1>3, <1>4, <1>5
  <2>3. CASE m > n
    <3>1. m - n \in 1 .. Len(s) + 1 - n /\ n + (m - n) - 1 = m - 1 /\ ~(m <= n)
      BY <2>3, <1>0
    <3>2. b[m - n] = s[n + (m - n) - 1]
      BY <3>1, <1>2
    <3>3. ((a \o c) \o b)[m] = b[m - n]
      BY <3>1, <1>5
    <3>4. ~ (m < n) /\ m # n
      BY <2>3, <1>0
    <3> QED BY <3>1, <3>2, <3>3, <3>4
  <2>4. m < n \/ m = n \/ m > n
    BY <1>0
  <2> QED BY <2>1, <2>2, <2>3, <2>4
<1> QED BY <1>5, <1>6, <1>7

\* A listing with an item less.
LEMMA RemovalSet ==
  ASSUME NEW S, NEW s \in Seq(S), NoRepeats(s), NEW n \in 1 .. Len(s)
  PROVE  NoRepeats(RemoveAt(s, n)) /\ ToSet(RemoveAt(s, n)) = ToSet(s) \ {s[n]}
<1> DEFINE r == RemoveAt(s, n)
<1>1. /\ r \in Seq(S) /\ Len(r) = Len(s) - 1 /\ Len(s) \in Nat
      /\ \A m \in 1 .. Len(s) - 1 : r[m] = IF m < n THEN s[m] ELSE s[m + 1]
  <2>1. Len(s) \in Nat
    OBVIOUS
  <2> QED BY <2>1, Removal
<1> HIDE DEF r
<1>2. NoRepeats(r)
  <2>1. SUFFICES ASSUME NEW k \in 1 .. Len(s) - 1, NEW m \in 1 .. Len(s) - 1, r[k] = r[m]
                 PROVE  k = m
    BY <1>1 DEF NoRepeats
  <2>2. /\ k \in 1 .. Len(s) /\ k + 1 \in 1 .. Len(s)
        /\ m \in 1 .. Len(s) /\ m + 1 \in 1 .. Len(s)
    BY <1>1
  <2> QED BY <2>1, <2>2, <1>1 DEF NoRepeats
<1>3. \A x \in ToSet(r) : x \in ToSet(s) \ {s[n]}
  <2>1. SUFFICES ASSUME NEW m \in 1 .. Len(s) - 1 PROVE r[m] \in ToSet(s) \ {s[n]}
    BY <1>1, SetOf
  <2>2. m \in 1 .. Len(s) /\ m + 1 \in 1 .. Len(s)
    BY <1>1
  <2> QED BY <2>2, <1>1, SetOf DEF NoRepeats
<1>4. \A x \in ToSet(s) \ {s[n]} : x \in ToSet(r)
  <2>1. SUFFICES ASSUME NEW m \in 1 .. Len(s), m # n PROVE s[m] \in ToSet(r)
    BY SetOf
  <2>2. CASE m < n
    <3>1. m \in 1 .. Len(s) - 1 /\ r[m] = s[m]  BY <2>2, <1>1
    <3> QED BY <3>1, <1>1, SetOf
  <2>3. CASE m > n
    <3>1. m - 1 \in 1 .. Len(s) - 1 /\ ~(m - 1 < n) /\ (m - 1) + 1 = m  BY <2>3, <1>1
    <3>2. r[m - 1] = s[m]  BY <3>1, <1>1
    <3> QED BY <3>1, <3>2, <1>1, SetOf
  <2> QED BY <2>1, <2>2, <2>3, <1>1
<1> QED BY <1>2, <1>3, <1>4 DEF r

\* A listing with an item more, none of its own.
LEMMA InsertionSet ==
  ASSUME NEW S, NEW s \in Seq(S), NoRepeats(s), NEW n \in 1 .. Len(s) + 1,
         NEW e \in S, e \notin ToSet(s)
  PROVE  NoRepeats(InsertAt(s, n, e)) /\ ToSet(InsertAt(s, n, e)) = ToSet(s) \cup {e}
<1> DEFINE r == InsertAt(s, n, e)
<1>1. /\ r \in Seq(S) /\ Len(r) = Len(s) + 1 /\ Len(s) \in Nat
      /\ \A m \in 1 .. Len(s) + 1 : r[m] = IF m < n THEN s[m] ELSE IF m = n THEN e ELSE s[m - 1]
  BY Insertion
<1> HIDE DEF r
<1>2. \A m \in 1 .. Len(s) : s[m] # e /\ s[m] \in ToSet(s)
  BY SetOf
<1>3. NoRepeats(r)
  <2>1. SUFFICES ASSUME NEW k \in 1 .. Len(s) + 1, NEW m \in 1 .. Len(s) + 1, r[k] = r[m]
                 PROVE  k = m
    BY <1>1 DEF NoRepeats
  <2>2. /\ k < n => k \in 1 .. Len(s)
        /\ k > n => k - 1 \in 1 .. Len(s)
        /\ m < n => m \in 1 .. Len(s)
        /\ m > n => m - 1 \in 1 .. Len(s)
        /\ (k < n \/ k = n \/ k > n) /\ (m < n \/ m = n \/ m > n)
    BY <1>1
  <2>3. /\ k < n => r[k] = s[k] /\ r[k] # e
        /\ k = n => r[k] = e
        /\ k > n => r[k] = s[k - 1] /\ r[k] # e
    BY <2>2, <1>1, <1>2
  <2>4. /\ m < n => r[m] = s[m] /\ r[m] # e
        /\ m = n => r[m] = e
        /\ m > n => r[m] = s[m - 1] /\ r[m] # e
    BY <2>2, <1>1, <1>2
  <2>5. CASE k = n
    BY <2>1, <2>2, <2>3, <2>4, <2>5
  <2>6. CASE k < n
    <3>1. CASE m < n
      BY <2>1, <2>2, <2>3, <2>4, <2>6, <3>1 DEF NoRepeats
    <3>2. CASE m > n
      <4>1. k = m - 1
        BY <2>1, <2>2, <2>3, <2>4, <2>6, <3>2 DEF NoRepeats
      <4> QED BY <4>1, <2>6, <3>2
    <3> QED BY <3>1, <3>2, <2>1, <2>2, <2>3, <2>4, <2>6
  <2>7. CASE k > n
    <3>1. CASE m < n
      <4>1. k - 1 = m
        BY <2>1, <2>2, <2>3, <2>4, <2>7, <3>1 DEF NoRepeats
      <4> QED BY <4>1, <2>7, <3>1
    <3>2. CASE m > n
      <4>1. k - 1 = m - 1
        BY <2>1, <2>2, <2>3, <2>4, <2>7, <3>2 DEF NoRepeats
      <4> QED BY <4>1
    <3> QED BY <3>1, <3>2, <2>1, <2>2, <2>3, <2>4, <2>7
  <2> QED BY <2>2, <2>5, <2>6, <2>7
<1>4. \A x \in ToSet(r) : x \in ToSet(s) \cup {e}
  <2>1. SUFFICES ASSUME NEW m \in 1 .. Len(s) + 1 PROVE r[m] \in ToSet(s) \cup {e}
    BY <1>1, SetOf
  <2>2. CASE m < n
    <3>1. m \in 1 .. Len(s) /\ r[m] = s[m]  BY <2>2, <1>1
    <3> QED BY <3>1, <1>2
  <2>3. CASE m = n
    <3>1. r[m] = e  BY <2>3, <1>1
    <3> QED BY <3>1
  <2>4. CASE m > n
    <3>1. m - 1 \in 1 .. Len(s) /\ r[m] = s[m - 1]  BY <2>4, <1>1
    <3> QED BY <3>1, <1>2
  <2> QED BY <2>2, <2>3, <2>4, <1>1
<1>5. \A x \in ToSet(s) : x \in ToSet(r)
  <2>1. SUFFICES ASSUME NEW m \in 1 .. Len(s) PROVE s[m] \in ToSet(r)
    BY SetOf
  <2>2. CASE m < n
    <3>1. m \in 1 .. Len(s) + 1 /\ r[m] = s[m]  BY <2>2, <1>1
    <3> QED BY <3>1, <1>1, SetOf
  <2>3. CASE ~(m < n)
    <3>1. m + 1 \in 1 .. Len(s) + 1 /\ r[m + 1] = s[m]  BY <2>3, <1>1
    <3> QED BY <3>1, <1>1, SetOf
  <2> QED BY <2>2, <2>3
<1>6. e \in ToSet(r)
  BY <1>1, SetOf
<1> QED BY <1>3, <1>4, <1>5, <1>6 DEF r

-----------------------------------------------------------------------------
(* The run from one read to the next *)

Stops == {"no", "flight", "done"}
Gaps == SUBSET (Surfaces \cup Items \cup {"account"})

\* With a read done, what follows from it is read next.
LEMMA NextRead ==
  ASSUME run \in Working, run.todo # <<>>, NEW next \in Seq(Surfaces \cup Items),
         NEW elements \in SUBSET Items, NEW gaps \in Gaps, Turn(next, elements, gaps)
  PROVE  /\ run' \in Working /\ run'.todo = next \o Tail(run.todo)
         /\ run'.page = 1 /\ run'.pages = <<>> /\ ~ run'.waits
         /\ run'.elements = run.elements \cup elements /\ run'.gaps = run.gaps \cup gaps
         /\ ToSet(run'.todo) = ToSet(next) \cup ToSet(Tail(run.todo))
<1>1. run.todo \in Seq(Surfaces \cup Items) /\ run.elements \subseteq Items /\ run.gaps \in Gaps
  BY DEF Working, Gaps
<1>2. Tail(run.todo) \in Seq(Surfaces \cup Items)
  BY <1>1, HeadSet
<1>3. next \o Tail(run.todo) \in Seq(Surfaces \cup Items)
      /\ ToSet(next \o Tail(run.todo)) = ToSet(next) \cup ToSet(Tail(run.todo))
  <2>1. next \o Tail(run.todo) \in Seq(Surfaces \cup Items)
    BY <1>2
  <2>2. ToSet(next \o Tail(run.todo)) = ToSet(next) \cup ToSet(Tail(run.todo))
    <3> DEFINE S == Surfaces \cup Items
    <3>1. next \in Seq(S) /\ Tail(run.todo) \in Seq(S)
      BY <1>2
    <3> HIDE DEF S
    <3> QED BY <3>1, ConcatSet
  <2> QED BY <2>1, <2>2
<1>4. 1 \in 1 .. MaxAttempts /\ <<>> \in Seq(Items) /\ 1 \in Nat \ {0} /\ FALSE \in BOOLEAN
  BY ExtractAssumption
<1>5. run.elements \cup elements \in SUBSET Items /\ run.gaps \cup gaps \in Gaps
  BY <1>1 DEF Gaps
<1>6. run' = [todo |-> next \o Tail(run.todo), page |-> 1, pages |-> <<>>, attempt |-> 1, waits |-> FALSE,
              elements |-> run.elements \cup elements, gaps |-> run.gaps \cup gaps]
  BY DEF Working, Turn
<1>7. run' \in Working
  BY <1>3, <1>4, <1>5, <1>6 DEF Working, Gaps
<1> QED BY <1>3, <1>6, <1>7

\* A run that goes on: the zone, its history and what is on disk are as they were.
LEMMA GoesOn ==
  ASSUME Inv, ~ Idle, Elsewhere, UNCHANGED exit, run' \in Working, stopped' \in Stops
  PROVE  TypeOK' /\ ZoneInv' /\ NothingSilentlyMissing' /\ ExactWhenQuiet' /\ ~ Idle' /\ snapshot' = None
<1>1. ~ Idle' /\ snapshot = None /\ snapshot' = None
  BY ExtractAssumption DEF Idle, Inv, WorkInv, Elsewhere
<1>2. TypeOK'
  BY <1>1 DEF Inv, TypeOK, Elsewhere, history, Stops
<1>3. ZoneInv'
  BY DEF Inv, ZoneInv, Elsewhere, history
<1> QED BY <1>1, <1>2, <1>3 DEF NothingSilentlyMissing, ExactWhenQuiet

\* A run that ends without a snapshot.
LEMMA GivesUp ==
  ASSUME Inv, ~ Idle, Elsewhere, run' = None, exit' \in {"failed", "killed"}, stopped' \in Stops
  PROVE  Inv'
<1>1. Idle' /\ ~ Reading' /\ snapshot' = None
  BY DEF Idle, Reading, Inv, WorkInv, Elsewhere
<1>2. TypeOK'
  BY <1>1 DEF Inv, TypeOK, Elsewhere, history, Stops
<1>3. ZoneInv'
  BY DEF Inv, ZoneInv, Elsewhere, history
<1>4. NothingSilentlyMissing' /\ ExactWhenQuiet'
  BY <1>1 DEF NothingSilentlyMissing, ExactWhenQuiet
<1> QED BY <1>1, <1>2, <1>3, <1>4 DEF Inv, WorkInv, CoverInv, PageInv, QuietInv

\* What a run at work looks like.
LEMMA AtWork ==
  ASSUME Inv, ~ Idle
  PROVE  /\ run \in Working /\ run.todo \in Seq(Surfaces \cup Items) /\ run.pages \in Seq(Items)
         /\ run.page \in Nat \ {0} /\ run.elements \subseteq Items /\ run.gaps \in Gaps
         /\ Reading => /\ read \in Surfaces \cup Items
                       /\ ToSet(run.todo) = {read} \cup ToSet(Tail(run.todo))
                       /\ Tail(run.todo) \in Seq(Surfaces \cup Items)
<1>1. run \in Working
  BY DEF Inv, TypeOK
<1>2. /\ run.todo \in Seq(Surfaces \cup Items) /\ run.pages \in Seq(Items)
      /\ run.page \in Nat \ {0} /\ run.elements \subseteq Items /\ run.gaps \in Gaps
  BY <1>1 DEF Working, Gaps
<1> QED BY <1>1, <1>2, HeadSet DEF Reading, read

\* No read is made twice, so none that is done is to do.
LEMMA DoneOnce ==
  ASSUME NEW S, NEW todo \in Seq(S), todo # <<>>,
         \A m, n \in 1 .. Len(todo) : todo[m] = todo[n] => m = n \/ todo[m] \in Details
  PROVE  /\ Head(todo) \in ToSet(Tail(todo)) => Head(todo) \in Details
         /\ \A m, n \in 1 .. Len(Tail(todo)) :
              Tail(todo)[m] = Tail(todo)[n] => m = n \/ Tail(todo)[m] \in Details
<1>1. /\ Tail(todo) \in Seq(S) /\ Len(Tail(todo)) = Len(todo) - 1 /\ Head(todo) = todo[1]
      /\ \A n \in 1 .. Len(todo) - 1 : Tail(todo)[n] = todo[n + 1]
  BY HeadSet
<1>2. Len(todo) \in Nat \ {0}
  BY HeadTailProperties
<1>3. ASSUME NEW n \in 1 .. Len(todo) - 1, Head(todo) = Tail(todo)[n] PROVE Head(todo) \in Details
  <2>1. n + 1 \in 1 .. Len(todo) /\ 1 \in 1 .. Len(todo) /\ 1 # n + 1  BY <1>2
  <2> QED BY <2>1, <1>1, <1>3
<1>4. ASSUME NEW m \in 1 .. Len(todo) - 1, NEW n \in 1 .. Len(todo) - 1, Tail(todo)[m] = Tail(todo)[n]
      PROVE  m = n \/ Tail(todo)[m] \in Details
  <2>1. n + 1 \in 1 .. Len(todo) /\ m + 1 \in 1 .. Len(todo) /\ (m + 1 = n + 1 => m = n)  BY <1>2
  <2> QED BY <2>1, <1>1, <1>4
<1>5. Head(todo) \in ToSet(Tail(todo)) => \E n \in 1 .. Len(todo) - 1 : Tail(todo)[n] = Head(todo)
  <2> DEFINE t == Tail(todo)
  <2>1. t \in Seq(S) /\ Len(t) = Len(todo) - 1
    BY <1>1
  <2> HIDE DEF t
  <2>2. Head(todo) \in ToSet(t) => \E n \in 1 .. Len(t) : t[n] = Head(todo)
    BY <2>1, SetOf
  <2> QED BY <2>1, <2>2 DEF t
<1> QED BY <1>1, <1>3, <1>4, <1>5

\* Whatever is on a listing is on its first page or a later one.
LEMMA Somewhere ==
  ASSUME NEW s \in Seq(Items), NEW i \in ToSet(s)
  PROVE  \E n \in 1 .. Len(s) : n > (1 - 1) * PageSize /\ s[n] = i
<1>1. PICK n \in 1 .. Len(s) : s[n] = i
  BY SetOf
<1>2. (1 - 1) * PageSize = 0
  BY ExtractAssumption
<1>3. n > 0
  BY SetOf
<1> QED BY <1>1, <1>2, <1>3

\* When a listing is begun, nothing on it has been passed over.
LEMMA FirstPage ==
  ASSUME Inv, run'.page = 1, live' = live, steady' = steady
  PROVE  PageInv'
<1>1. SUFFICES ASSUME NEW i \in steady
               PROVE  \E n \in 1 .. Len(live[Home[i]]) : n > (1 - 1) * PageSize /\ live[Home[i]][n] = i
  BY DEF PageInv
<1>2. i \in ToSet(live[Home[i]]) /\ live[Home[i]] \in Seq(Items)
  BY ExtractAssumption DEF Inv, ZoneInv, TypeOK
<1> QED BY <1>2, Somewhere

\* A read that failed for good, of what is not fatal, is a gap.
LEMMA FailsKeeps ==
  ASSUME Inv, Reading, Fails, Elsewhere, stopped' \in Stops
  PROVE  Inv'
<1>0. ~ Idle
  BY DEF Reading
<1>1. CASE read \in Fatal
  BY <1>0, <1>1, GivesUp DEF Fails
<1>2. CASE read \notin Fatal
  <2>1. Turn(<<>>, {}, {read}) /\ UNCHANGED exit
    BY <1>2 DEF Fails
  <2>2. run \in Working /\ read \in Surfaces \cup Items /\ run.todo # <<>>
    BY <1>0, AtWork DEF Reading
  <2>3. <<>> \in Seq(Surfaces \cup Items) /\ {} \in SUBSET Items /\ {read} \in Gaps /\ ToSet(<<>>) = {}
    BY <2>2 DEF Gaps, ToSet
  <2>4. /\ run' \in Working /\ run'.todo = <<>> \o Tail(run.todo) /\ run'.page = 1 /\ run'.pages = <<>>
        /\ ~ run'.waits /\ run'.elements = run.elements
        /\ run'.gaps = run.gaps \cup {read} /\ ToSet(run'.todo) = ToSet(Tail(run.todo))
        /\ ToSet(run.todo) = {read} \cup ToSet(Tail(run.todo))
    <3>1. PICK next \in Seq(Surfaces \cup Items) : next = <<>>
      BY <2>3
    <3>2. PICK elements \in SUBSET Items : elements = {}
      OBVIOUS
    <3>3. PICK gaps \in Gaps : gaps = {read}
      BY <2>3
    <3>4. Turn(next, elements, gaps)
      BY <2>1, <3>1, <3>2, <3>3
    <3>5. /\ run' \in Working /\ run'.todo = next \o Tail(run.todo) /\ run'.page = 1 /\ run'.pages = <<>>
          /\ ~ run'.waits /\ run'.elements = run.elements \cup elements
          /\ run'.gaps = run.gaps \cup gaps /\ ToSet(run'.todo) = ToSet(next) \cup ToSet(Tail(run.todo))
      BY <3>4, <2>2, NextRead
    <3> QED BY <1>0, <2>3, <3>1, <3>2, <3>3, <3>5, AtWork
  <2>5. TypeOK' /\ ZoneInv' /\ NothingSilentlyMissing' /\ ExactWhenQuiet' /\ ~ Idle' /\ snapshot' = None
    BY <1>0, <2>1, <2>4, GoesOn
  <2>6. run'.todo = Tail(run.todo)
    BY <1>0, <2>4, AtWork, ConcatEmptySeq
  <2>7. \A i \in Items : i \in ToSet(run.todo) \cup run.gaps => Home[i] = "rulesets"
    BY <1>0 DEF Inv, WorkInv
  <2>8. WorkInv'
    BY <1>0, <1>2, <2>4, <2>5, <2>7 DEF Inv, WorkInv
  <2>9. CoverInv'
    <3>1. SUFFICES ASSUME NEW i \in steady PROVE Covered(i)'
      BY DEF CoverInv, Elsewhere, history
    <3>2. i \in Items /\ Covered(i) /\ (i \in ToSet(run.todo) => Home[i] = "rulesets")
      BY <1>0, <2>7 DEF Inv, TypeOK, CoverInv
    <3>3. shifted' = shifted
      BY DEF Elsewhere, history
    <3>4. CASE read = Home[i]
      BY <1>2, <2>4, <3>4 DEF Covered, InAGap
    <3>5. CASE read = i
      BY <2>4, <2>2, <3>2, <3>5 DEF Covered, InAGap, Fatal
    <3>6. CASE read # Home[i] /\ read # i
      BY <2>4, <3>2, <3>3, <3>6 DEF Covered, InAGap
    <3> QED BY <3>4, <3>5, <3>6
  <2>10. PageInv'
    BY <2>4, FirstPage DEF Elsewhere, history
  <2>11. QuietInv'
    <3>1. SUFFICES ASSUME quiet PROVE (steady = InZone)' /\ shifted' = {} /\ Apart'
      BY DEF QuietInv, Elsewhere, history
    <3>2. steady = InZone /\ shifted = {} /\ Apart
      BY <1>0, <3>1 DEF Inv, QuietInv
    <3>3. (steady = InZone)' /\ shifted' = {} /\ InZone' = InZone
      BY <3>2 DEF Elsewhere, history, InZone
    <3>4. /\ read \in ToSet(Tail(run.todo)) => read \in Details
          /\ \A m, n \in 1 .. Len(run'.todo) :
               run'.todo[m] = run'.todo[n] => m = n \/ run'.todo[m] \in Details
      BY <1>0, <2>2, <2>6, <3>2, AtWork, DoneOnce DEF Apart, read
    <3>5. read # "account"
      BY <2>2, ExtractAssumption DEF Surfaces, Details
    <3>6. ToSet(run'.todo) \cap run'.gaps \subseteq Details
      BY <2>4, <3>2, <3>4 DEF Apart
    <3>7. /\ "rulesets" \in ToSet(run'.todo) => Items \cap (ToSet(run'.todo) \cup run'.gaps) = {}
          /\ Items \cap ToSet(run'.todo) # {} => "rulesets" \notin run'.gaps
      BY <2>4, <3>2 DEF Apart
    <3>8. "account" \in run'.gaps => ToSet(run'.todo) \cap Account = {}
      BY <2>4, <3>2, <3>5 DEF Apart
    <3>9. ASSUME NEW i \in run'.elements
          PROVE  /\ i \in InZone /\ Home[i] \notin ToSet(run'.todo) /\ i \notin ToSet(run'.todo)
                 /\ ~ InAGap(i, run')
      BY <2>4, <3>2, <3>5 DEF Apart, InAGap
    <3>10. ToSet(run'.pages) = {}
      BY <2>4 DEF ToSet
    <3>11. Apart'
      BY <3>3, <3>4, <3>6, <3>7, <3>8, <3>9, <3>10 DEF Apart
    <3> QED BY <3>3, <3>11
  <2> QED BY <2>5, <2>8, <2>9, <2>10, <2>11 DEF Inv
<1> QED BY <1>1, <1>2

-----------------------------------------------------------------------------
(* Pages *)

\* A page of a listing, by positions; what is on none of the pages up to it comes later.
LEMMA Slice ==
  ASSUME NEW S, NEW s \in Seq(S), NEW p \in Nat \ {0}, NEW size \in Nat \ {0},
         NEW hi, hi = IF p * size < Len(s) THEN p * size ELSE Len(s)
  PROVE  /\ SubSeq(s, (p - 1) * size + 1, hi) \in Seq(S)
         /\ ToSet(SubSeq(s, (p - 1) * size + 1, hi)) \subseteq ToSet(s)
         /\ \A k \in 1 .. Len(s) : k > (p - 1) * size /\ k <= p * size =>
              s[k] \in ToSet(SubSeq(s, (p - 1) * size + 1, hi))
<1>1. PICK lo \in Nat : lo = (p - 1) * size
  OBVIOUS
<1>2. PICK end \in Nat : end = p * size
  OBVIOUS
<1>3. Len(s) \in Nat /\ hi \in Nat /\ hi <= Len(s) /\ hi <= end /\ (hi = end \/ hi = Len(s)) /\ lo < end
  BY <1>1, <1>2
<1> DEFINE t == SubSeq(s, lo + 1, hi)
<1>4. SUFFICES /\ t \in Seq(S) /\ ToSet(t) \subseteq ToSet(s)
               /\ \A k \in 1 .. Len(s) : k > lo /\ k <= end => s[k] \in ToSet(t)
  BY <1>1, <1>2
<1>5. CASE hi <= lo
  <2>1. t = <<>>
    BY <1>3, <1>5, SubSeqEmpty
  <2>2. \A k \in 1 .. Len(s) : ~(k > lo /\ k <= end)
    BY <1>3, <1>5
  <2>3. <<>> \in Seq(S) /\ ToSet(<<>>) = {}
    BY DEF ToSet
  <2> QED BY <2>1, <2>2, <2>3
<1>6. CASE ~(hi <= lo)
  <2>1. lo + 1 \in 1 .. Len(s) + 1 /\ hi \in (lo + 1) - 1 .. Len(s) /\ lo + 1 <= hi
    BY <1>3, <1>6
  <2>2. /\ t \in Seq(S) /\ Len(t) = hi - lo
        /\ \A m \in 1 .. hi - lo : t[m] = s[lo + m]
    BY <1>3, <2>1, SubSeqProperties
  <2> HIDE DEF t
  <2>3. ASSUME NEW m \in 1 .. hi - lo PROVE t[m] \in ToSet(s)
    <3>1. lo + m \in 1 .. Len(s)
      BY <1>3
    <3> QED BY <2>2, <3>1, SetOf
  <2>4. ToSet(t) \subseteq ToSet(s)
    BY <2>2, <2>3, SetOf
  <2>5. ASSUME NEW k \in 1 .. Len(s), k > lo, k <= end PROVE s[k] \in ToSet(t)
    <3>1. k - lo \in 1 .. hi - lo /\ lo + (k - lo) = k
      BY <1>3, <2>5
    <3>2. t[k - lo] = s[k] /\ Len(t) = hi - lo /\ t \in Seq(S)
      BY <2>2, <3>1
    <3> QED BY <3>1, <3>2, SetOf
  <2> QED BY <2>2, <2>4, <2>5
<1> QED BY <1>5, <1>6

\* The last page reaches the end of the listing.
LEMMA LastPage ==
  ASSUME NEW len \in Nat, NEW size \in Nat \ {0}, NEW p \in Nat \ {0},
         ~ (p < (len + size - 1) \div size)
  PROVE  p * size >= len
OBVIOUS

\* What a read lists.
LEMMA Lists ==
  ASSUME Inv, Reading
  PROVE  /\ Listing \in Seq(Items) /\ (read \in Paged => read \in Listings)
         /\ read \in Items => Listing = <<read>> /\ read \notin Paged
         /\ read \in Listings => Listing = live[read] /\ read \notin Items
<1>1. DOMAIN live = Listings /\ \A s \in Listings : live[s] \in Seq(Items)
  BY DEF Inv, TypeOK
<1>2. read \in Surfaces \cup Items /\ Items \cap (Surfaces \cup Paged) = {}
  BY AtWork, ExtractAssumption DEF Reading
<1>3. Details \cap Paged = {}
  BY DEF Details, Paged
<1>4. <<>> \in Seq(Items) /\ \A i \in Items : <<i>> \in Seq(Items)
  OBVIOUS
<1> QED BY <1>1, <1>2, <1>3, <1>4 DEF Listing, Surfaces

\* What a page adds to the pages before it: of what has been there all along, nothing on
\* it is passed over, and nothing at all on the last one.
LEMMA Pages ==
  ASSUME Inv, Reading, read \in Paged
  PROVE  /\ Page \in Seq(Items) /\ ToSet(Page) \subseteq ToSet(live[read])
         /\ run.pages \o Page \in Seq(Items)
         /\ ToSet(run.pages \o Page) = ToSet(run.pages) \cup ToSet(Page)
         /\ \A i \in steady : Home[i] = read =>
              \/ read \in shifted \/ i \in ToSet(run.pages \o Page)
              \/ /\ \E n \in 1 .. Len(live[read]) : n > run.page * PageSize /\ live[read][n] = i
                 /\ run.page < TotalPages
<1>1. Listing = live[read] /\ Listing \in Seq(Items)
  BY Lists
<1>2. run.page \in Nat \ {0} /\ PageSize \in Nat \ {0} /\ run.pages \in Seq(Items)
  BY AtWork, ExtractAssumption DEF Reading
<1>3. PICK hi : hi = IF run.page * PageSize < Len(Listing) THEN run.page * PageSize ELSE Len(Listing)
  OBVIOUS
<1>4. Page = SubSeq(Listing, (run.page - 1) * PageSize + 1, hi)
  BY <1>3 DEF Page
<1>5. /\ Page \in Seq(Items) /\ ToSet(Page) \subseteq ToSet(Listing)
      /\ \A k \in 1 .. Len(Listing) : k > (run.page - 1) * PageSize /\ k <= run.page * PageSize =>
           Listing[k] \in ToSet(Page)
  BY <1>1, <1>2, <1>3, <1>4, Slice
<1>6. run.pages \o Page \in Seq(Items) /\ ToSet(run.pages \o Page) = ToSet(run.pages) \cup ToSet(Page)
  BY <1>2, <1>5, ConcatSet
<1>7. ASSUME NEW i \in steady, Home[i] = read, read \notin shifted, i \notin ToSet(run.pages \o Page)
      PROVE  /\ \E n \in 1 .. Len(live[read]) : n > run.page * PageSize /\ live[read][n] = i
             /\ run.page < TotalPages
  <2>1. PICK n \in 1 .. Len(Listing) : n > (run.page - 1) * PageSize /\ Listing[n] = i
    BY <1>1, <1>6, <1>7 DEF Inv, PageInv
  <2>2. ~ (n <= run.page * PageSize)
    BY <1>5, <1>6, <1>7, <2>1
  <2>3. Len(Listing) \in Nat /\ n > run.page * PageSize
    BY <1>1, <1>2, <2>2
  <2>4. ~ (run.page * PageSize >= Len(Listing))
    BY <1>2, <2>3
  <2>5. run.page < TotalPages
    BY <1>2, <2>3, <2>4, LastPage DEF TotalPages
  <2> QED BY <1>1, <2>1, <2>3, <2>5
<1> QED BY <1>1, <1>5, <1>6, <1>7

\* What is on a listing is in the zone and belongs there.
LEMMA OnListing ==
  ASSUME Inv, NEW s \in Listings, NEW i \in ToSet(live[s])
  PROVE  i \in Items /\ Home[i] = s /\ i \in InZone
<1>1. live[s] \in Seq(Items) /\ s \in DOMAIN live
  BY DEF Inv, TypeOK
<1>2. i \in Items
  BY <1>1, SetOf
<1> QED BY <1>1, <1>2 DEF Inv, ZoneInv, InZone

\* What a read that is complete has found.
LEMMA Finds ==
  ASSUME Inv, Reading, Answerable, read \in Paged => ~ (run.page < TotalPages),
         NEW found, found = run.pages \o Page
  PROVE  /\ found \in Seq(Items)
         /\ read \in Items => ToSet(found) = {read} /\ Home[read] = "rulesets" /\ read \in InZone
         /\ read \notin Items => \A i \in steady : Home[i] = read => read \in shifted \/ i \in ToSet(found)
         /\ read = "rulesets" => found = live[read] /\ read \in Listings
         /\ quiet /\ read \notin Items => \A i \in ToSet(found) : i \in InZone /\ Home[i] = read
<1>0. ~ Idle /\ read \in Surfaces \cup Items /\ "rulesets" \notin Details \cup Paged /\ ToSet(<<>>) = {}
  BY AtWork DEF Reading, Details, Paged, ToSet
<1>1. CASE read \in Paged
  <2>1. read \in Listings /\ read \notin Items
    BY <1>1, Lists
  <2>2. found \in Seq(Items) /\ \A i \in steady : Home[i] = read => read \in shifted \/ i \in ToSet(found)
    BY <1>1, Pages
  <2>3. quiet => ToSet(found) \subseteq ToSet(live[read])
    BY <1>0, <1>1, Pages DEF Inv, QuietInv, Apart
  <2> QED BY <1>0, <1>1, <2>1, <2>2, <2>3, OnListing
<1>2. CASE read \notin Paged
  <2>1. run.page = 1 /\ run.pages = <<>> /\ Page = Listing /\ Listing \in Seq(Items)
    BY <1>0, <1>2, Lists DEF Inv, WorkInv, Page
  <2>2. found = Listing
    BY <2>1, ConcatEmptySeq
  <2>3. CASE read \in Items
    <3>1. Listing = <<read>> /\ ToSet(<<read>>) = {read}
      BY <2>3, Lists DEF ToSet
    <3>2. Home[read] = "rulesets"
      BY <1>0, <2>3, AtWork DEF Inv, WorkInv
    <3>3. Home[read] \in Listings
      BY <2>3, ExtractAssumption
    <3>4. read \in InZone
      BY <2>3, <3>2, <3>3, OnListing DEF Answerable
    <3>5. read # "rulesets"
      BY <2>3, ExtractAssumption
    <3> QED BY <2>1, <2>2, <2>3, <3>1, <3>2, <3>4, <3>5
  <2>4. CASE read \in Listings
    <3>1. Listing = live[read] /\ read \notin Items
      BY <2>4, Lists
    <3>2. \A i \in steady : Home[i] = read => i \in ToSet(live[read])
      BY DEF Inv, ZoneInv
    <3> QED BY <2>1, <2>2, <2>4, <3>1, <3>2, OnListing
  <2>5. CASE read \in Details
    <3>1. read \notin Items \cup Listings
      BY <2>5, ExtractAssumption DEF Surfaces
    <3>2. Listing = <<>>
      BY <3>1 DEF Listing, Inv, TypeOK
    <3>3. \A i \in steady : Home[i] # read
      BY <3>1, ExtractAssumption DEF Inv, TypeOK
    <3> QED BY <1>0, <2>1, <2>2, <2>5, <3>1, <3>2, <3>3
  <2> QED BY <1>0, <2>3, <2>4, <2>5 DEF Surfaces
<1> QED BY <1>1, <1>2

\* No read twice in either part, nor one of both, is no read twice.
LEMMA JoinedOnce ==
  ASSUME NEW S, NEW a \in Seq(S), NEW b \in Seq(S),
         \A m, n \in 1 .. Len(a) : a[m] = a[n] => m = n \/ a[m] \in Details,
         \A m, n \in 1 .. Len(b) : b[m] = b[n] => m = n \/ b[m] \in Details,
         ToSet(a) \cap ToSet(b) \subseteq Details
  PROVE  \A m, n \in 1 .. Len(a \o b) :
           (a \o b)[m] = (a \o b)[n] => m = n \/ (a \o b)[m] \in Details
<1> DEFINE c == a \o b
<1>1. /\ Len(a) \in Nat /\ Len(b) \in Nat /\ Len(c) = Len(a) + Len(b)
      /\ \A n \in 1 .. Len(a) + Len(b) : c[n] = IF n <= Len(a) THEN a[n] ELSE b[n - Len(a)]
  BY ConcatProperties
<1> HIDE DEF c
<1> DEFINE InA(m) == m \in 1 .. Len(a) /\ c[m] = a[m] /\ c[m] \in ToSet(a)
           InB(m) == m - Len(a) \in 1 .. Len(b) /\ c[m] = b[m - Len(a)] /\ c[m] \in ToSet(b)
<1>2. ASSUME NEW m \in 1 .. Len(a) + Len(b) PROVE InA(m) \/ InB(m)
  <2>1. CASE m <= Len(a)
    <3>1. m \in 1 .. Len(a) /\ c[m] = a[m]  BY <1>1, <2>1
    <3> QED BY <3>1, SetOf
  <2>2. CASE ~(m <= Len(a))
    <3>1. m - Len(a) \in 1 .. Len(b) /\ c[m] = b[m - Len(a)]  BY <1>1, <2>2
    <3> QED BY <3>1, SetOf
  <2> QED BY <2>1, <2>2
<1>3. ASSUME NEW m \in 1 .. Len(a) + Len(b), NEW n \in 1 .. Len(a) + Len(b), c[m] = c[n]
      PROVE  m = n \/ c[m] \in Details
  <2>1. InA(m) /\ InA(n) => m = n \/ c[m] \in Details
    BY <1>3
  <2>2. InB(m) /\ InB(n) => m = n \/ c[m] \in Details
    <3>1. m - Len(a) = n - Len(a) => m = n
      BY <1>1
    <3> QED BY <1>3, <3>1
  <2>3. InA(m) /\ InB(n) => c[m] \in Details
    BY <1>3
  <2>4. InB(m) /\ InA(n) => c[m] \in Details
    BY <1>3
  <2>5. (InA(m) \/ InB(m)) /\ (InA(n) \/ InB(n))
    BY <1>2
  <2> HIDE DEF InA, InB
  <2> QED BY <2>1, <2>2, <2>3, <2>4, <2>5
<1> QED BY <1>1, <1>3 DEF c

\* What follows from a read: the rulesets by name, or one of the details.
LEMMA FollowsFrom ==
  ASSUME Inv, Reading, NEW found \in Seq(Items)
  PROVE  /\ Follows(found) \in Seq(Surfaces \cup Items)
         /\ read = "rulesets" => Follows(found) = found
         /\ read # "rulesets" => /\ ToSet(Follows(found)) \subseteq Details
                                 /\ Len(Follows(found)) <= 1
<1>1. /\ <<>> \in Seq(Surfaces \cup Items) /\ ToSet(<<>>) = {} /\ Len(<<>>) = 0
      /\ \A x \in Surfaces : <<x>> \in Seq(Surfaces \cup Items) /\ ToSet(<<x>>) = {x} /\ Len(<<x>>) = 1
      /\ found \in Seq(Surfaces \cup Items)
  BY DEF ToSet
<1>2. "dnssec" \in Details \cap Surfaces /\ "emailrules" \in Details \cap Surfaces
  BY DEF Details, Surfaces
<1>3. Details \subseteq Surfaces
  BY DEF Surfaces
<1>4. CASE read = "rulesets"
  BY <1>1, <1>4 DEF Follows
<1>5. CASE read = "settings"
  BY <1>1, <1>2, <1>5 DEF Follows
<1>6. CASE read = "email"
  <2>1. CASE found = <<>>
    BY <1>1, <1>6, <2>1 DEF Follows
  <2>2. CASE found # <<>>
    BY <1>1, <1>2, <1>6, <2>2 DEF Follows
  <2> QED BY <2>1, <2>2
<1>7. CASE read \notin {"rulesets", "settings", "email"}
  <2>1. Follows(found) = <<>>
    BY <1>7 DEF Follows
  <2> QED BY <1>1, <1>7, <2>1
<1> QED BY <1>4, <1>5, <1>6, <1>7

\* A read that is complete.
LEMMA GotKeeps ==
  ASSUME Inv, Reading, Answerable, read \in Paged => ~ (run.page < TotalPages),
         Got(run.pages \o Page), Elsewhere, UNCHANGED exit, stopped' \in Stops
  PROVE  Inv'
<1> DEFINE rest == ToSet(Tail(run.todo))
<1>0. /\ ~ Idle /\ run \in Working /\ run.todo # <<>> /\ read \in Surfaces \cup Items
      /\ ToSet(run.todo) = {read} \cup rest
  BY AtWork DEF Reading
<1>1. PICK found : found = run.pages \o Page
  OBVIOUS
<1>2. /\ found \in Seq(Items)
      /\ read \in Items => ToSet(found) = {read} /\ Home[read] = "rulesets" /\ read \in InZone
      /\ read \notin Items => \A i \in steady : Home[i] = read => read \in shifted \/ i \in ToSet(found)
      /\ read = "rulesets" => found = live[read] /\ read \in Listings
      /\ quiet /\ read \notin Items => \A i \in ToSet(found) : i \in InZone /\ Home[i] = read
  BY <1>1, Finds
<1>3. ToSet(found) \in SUBSET Items
  BY <1>2, SetOf
<1>4. PICK next \in Seq(Surfaces \cup Items) : next = Follows(found)
  BY <1>2, FollowsFrom
<1>5. PICK elements \in SUBSET Items : elements = IF read = "rulesets" THEN {} ELSE ToSet(found)
  BY <1>3
<1>6. PICK gaps \in Gaps : gaps = {}
  BY DEF Gaps
<1>7. Turn(next, elements, gaps)
  BY <1>1, <1>4, <1>5, <1>6 DEF Got
<1>8. /\ run' \in Working /\ run'.todo = next \o Tail(run.todo) /\ run'.page = 1 /\ run'.pages = <<>>
      /\ ~ run'.waits /\ run'.elements = run.elements \cup elements
      /\ run'.gaps = run.gaps /\ ToSet(run'.todo) = ToSet(next) \cup rest
  <2>1. /\ run' \in Working /\ run'.todo = next \o Tail(run.todo) /\ run'.page = 1 /\ run'.pages = <<>>
        /\ ~ run'.waits /\ run'.elements = run.elements \cup elements
        /\ run'.gaps = run.gaps \cup gaps /\ ToSet(run'.todo) = ToSet(next) \cup ToSet(Tail(run.todo))
    BY <1>0, <1>7, NextRead
  <2> QED BY <1>6, <2>1
<1> HIDE DEF rest
<1>9. /\ read = "rulesets" => next = found
      /\ read # "rulesets" => ToSet(next) \subseteq Details /\ Len(next) <= 1
  BY <1>2, <1>4, FollowsFrom
<1>10. TypeOK' /\ ZoneInv' /\ NothingSilentlyMissing' /\ ExactWhenQuiet' /\ ~ Idle' /\ snapshot' = None
  BY <1>0, <1>8, GoesOn
<1>11. Items \cap Details = {} /\ Listings \cap Details = {} /\ "rulesets" \notin Details \cup Items
  BY ExtractAssumption DEF Surfaces, Details
<1>12. read = "rulesets" => \A i \in ToSet(found) : i \in InZone /\ Home[i] = "rulesets"
  BY <1>2, OnListing
<1>13. \A i \in Items : i \in ToSet(run.todo) \cup run.gaps => Home[i] = "rulesets"
  BY <1>0 DEF Inv, WorkInv
<1>14. WorkInv'
  <2>1. \A i \in Items : i \in ToSet(run'.todo) \cup run'.gaps => Home[i] = "rulesets"
    BY <1>0, <1>8, <1>9, <1>11, <1>12, <1>13
  <2> QED BY <1>0, <1>8, <1>10, <2>1 DEF Inv, WorkInv
<1>15. CoverInv'
  <2>1. SUFFICES ASSUME NEW i \in steady PROVE Covered(i)'
    BY DEF CoverInv, Elsewhere, history
  <2>2. i \in Items /\ Covered(i) /\ Home[i] \in Listings
    BY <1>0, ExtractAssumption DEF Inv, TypeOK, CoverInv
  <2>3. shifted' = shifted
    BY DEF Elsewhere, history
  <2>4. CASE read = Home[i]
    <3>1. read \notin Items
      BY <2>2, <2>4, ExtractAssumption DEF Surfaces
    <3>2. read \in shifted \/ i \in ToSet(found)
      BY <1>2, <2>4, <3>1
    <3>3. i \in ToSet(found) => i \in ToSet(run'.todo) \/ i \in run'.elements
      BY <1>5, <1>8, <1>9
    <3> QED BY <2>3, <2>4, <3>2, <3>3 DEF Covered
  <2>5. CASE read = i
    <3>1. read # "rulesets" /\ i \in ToSet(found)
      BY <1>2, <1>11, <2>2, <2>5
    <3> QED BY <1>5, <1>8, <3>1 DEF Covered
  <2>6. CASE read # Home[i] /\ read # i
    BY <1>0, <1>8, <2>2, <2>3, <2>6 DEF Covered, InAGap
  <2> QED BY <2>4, <2>5, <2>6
<1>16. PageInv'
  BY <1>8, FirstPage DEF Elsewhere, history
<1>17. QuietInv'
  <2>1. SUFFICES ASSUME quiet PROVE (steady = InZone)' /\ shifted' = {} /\ Apart'
    BY DEF QuietInv, Elsewhere, history
  <2>2. steady = InZone /\ shifted = {} /\ Apart
    BY <1>0, <2>1 DEF Inv, QuietInv
  <2>3. (steady = InZone)' /\ shifted' = {} /\ InZone' = InZone
    BY <2>2 DEF Elsewhere, history, InZone
  <2>4. /\ read \in rest => read \in Details
        /\ \A m, n \in 1 .. Len(Tail(run.todo)) :
             Tail(run.todo)[m] = Tail(run.todo)[n] => m = n \/ Tail(run.todo)[m] \in Details
    BY <1>0, <2>2, AtWork, DoneOnce DEF Apart, read, rest
  <2>5. Tail(run.todo) \in Seq(Surfaces \cup Items)
    BY <1>0, AtWork DEF Reading
  <2>6. /\ ToSet(next) \cap rest \subseteq Details
        /\ \A m, n \in 1 .. Len(next) : next[m] = next[n] => m = n \/ next[m] \in Details
    <3>1. CASE read = "rulesets"
      <4>1. Items \cap rest = {}
        BY <1>0, <2>2, <3>1 DEF Apart
      <4>2. NoRepeats(next)
        BY <1>2, <1>9, <3>1 DEF Inv, ZoneInv
      <4> QED BY <1>3, <1>9, <3>1, <4>1, <4>2 DEF NoRepeats
    <3>2. CASE read # "rulesets"
      BY <1>9, <3>2
    <3> QED BY <3>1, <3>2
  <2>7. \A m, n \in 1 .. Len(run'.todo) : run'.todo[m] = run'.todo[n] => m = n \/ run'.todo[m] \in Details
    BY <1>8, <2>4, <2>5, <2>6, JoinedOnce DEF rest
  <2>8. ToSet(run'.todo) \cap run'.gaps \subseteq Details
    <3>1. CASE read = "rulesets"
      BY <1>0, <1>3, <1>8, <1>9, <2>2, <3>1 DEF Apart
    <3>2. CASE read # "rulesets"
      BY <1>0, <1>8, <1>9, <2>2, <3>2 DEF Apart
    <3> QED BY <3>1, <3>2
  <2>9. "rulesets" \in ToSet(run'.todo) => Items \cap (ToSet(run'.todo) \cup run'.gaps) = {}
    <3>1. CASE read = "rulesets"
      BY <1>3, <1>8, <1>9, <1>11, <2>4, <3>1
    <3>2. CASE read # "rulesets"
      BY <1>0, <1>8, <1>9, <1>11, <2>2, <3>2 DEF Apart
    <3> QED BY <3>1, <3>2
  <2>10. Items \cap ToSet(run'.todo) # {} => "rulesets" \notin run'.gaps
    <3>1. CASE read = "rulesets"
      BY <1>0, <1>8, <1>11, <2>2, <3>1 DEF Apart
    <3>2. CASE read # "rulesets"
      BY <1>0, <1>8, <1>9, <1>11, <2>2, <3>2 DEF Apart
    <3> QED BY <3>1, <3>2
  <2>11. "account" \in run'.gaps => ToSet(run'.todo) \cap Account = {}
    <3>1. Account \cap (Items \cup Details) = {}
      BY ExtractAssumption DEF Listings, Surfaces
    <3> QED BY <1>0, <1>3, <1>8, <1>9, <2>2, <3>1 DEF Apart
  <2>12. ASSUME NEW i \in run.elements
         PROVE  /\ i \in InZone /\ Home[i] \notin ToSet(run'.todo) /\ i \notin ToSet(run'.todo)
                /\ ~ InAGap(i, run')
    <3>1. i \in Items /\ Home[i] \in Listings
      BY <1>0, AtWork, ExtractAssumption
    <3>2. i \in InZone /\ Home[i] \notin ToSet(run.todo) /\ i \notin ToSet(run.todo) /\ ~ InAGap(i, run)
      BY <2>2 DEF Apart
    <3>3. ~ InAGap(i, run')
      BY <1>8, <3>2 DEF InAGap
    <3>4. i \notin ToSet(next) /\ Home[i] \notin ToSet(next)
      <4>1. CASE read = "rulesets"
        <5>1. Home[i] \notin Items
          BY <3>1, ExtractAssumption DEF Surfaces
        <5> QED BY <1>0, <1>3, <1>9, <1>12, <3>2, <4>1, <5>1
      <4>2. CASE read # "rulesets"
        BY <1>9, <1>11, <3>1, <4>2
      <4> QED BY <4>1, <4>2
    <3> QED BY <1>0, <1>8, <3>2, <3>3, <3>4
  <2>13. ASSUME NEW i \in elements
         PROVE  /\ i \in InZone /\ Home[i] \notin ToSet(run'.todo) /\ i \notin ToSet(run'.todo)
                /\ ~ InAGap(i, run')
    <3>1. read # "rulesets" /\ i \in ToSet(found) /\ i \in Items /\ Home[i] \in Listings
      BY <1>5, ExtractAssumption
    <3>2. i \notin ToSet(next) /\ Home[i] \notin ToSet(next)
      BY <1>9, <1>11, <3>1
    <3>3. CASE read \in Items
      <4>1. i = read /\ Home[i] = "rulesets" /\ i \in InZone
        BY <1>2, <3>1, <3>3
      <4>2. "rulesets" \notin ToSet(run.todo) /\ "rulesets" \notin run.gaps /\ i \notin run.gaps
        BY <1>0, <1>11, <2>2, <3>3, <4>1 DEF Apart
      <4>3. i \notin rest /\ Home[i] \notin rest
        BY <1>0, <1>11, <2>4, <3>1, <4>1, <4>2
      <4>4. Home[i] \notin Account
        BY <4>1, ExtractAssumption
      <4> QED BY <1>8, <3>2, <4>1, <4>2, <4>3, <4>4 DEF InAGap
    <3>4. CASE read \notin Items
      <4>1. i \in InZone /\ Home[i] = read
        BY <1>2, <2>1, <3>1, <3>4
      <4>2. i \notin ToSet(run.todo) \cup run.gaps
        BY <1>13, <3>1, <4>1
      <4>3. read \notin rest /\ read \notin run.gaps
        BY <1>0, <1>11, <2>2, <2>4, <3>1, <4>1 DEF Apart
      <4>4. ~ (Home[i] \in Account /\ "account" \in run.gaps)
        BY <1>0, <2>2, <4>1 DEF Apart
      <4> QED BY <1>0, <1>8, <3>2, <4>1, <4>2, <4>3, <4>4 DEF InAGap
    <3> QED BY <3>3, <3>4
  <2>14. ToSet(run'.pages) = {}
    BY <1>8 DEF ToSet
  <2>15. Apart'
    BY <1>8, <2>3, <2>7, <2>8, <2>9, <2>10, <2>11, <2>12, <2>13, <2>14 DEF Apart
  <2> QED BY <2>3, <2>15
<1> QED BY <1>10, <1>14, <1>15, <1>16, <1>17 DEF Inv

NextPage == run' = [run EXCEPT !.page = @ + 1, !.pages = @ \o Page, !.attempt = 1]

\* One page of several, and on to the next.
LEMMA PageKeeps ==
  ASSUME Inv, Reading, ~ run.waits, read \in Paged, run.page < TotalPages,
         NextPage, Elsewhere, UNCHANGED exit, stopped' \in Stops
  PROVE  Inv'
<1>1. ~ Idle /\ run \in Working /\ run.page \in Nat \ {0} /\ 1 \in 1 .. MaxAttempts
  BY AtWork, ExtractAssumption DEF Reading
<1>2. PICK read_page : read_page = run.pages \o Page
  OBVIOUS
<1>3. /\ read_page \in Seq(Items) /\ ToSet(read_page) = ToSet(run.pages) \cup ToSet(Page)
      /\ ToSet(Page) \subseteq ToSet(live[read])
      /\ \A i \in steady : Home[i] = read =>
           \/ read \in shifted \/ i \in ToSet(read_page)
           \/ \E n \in 1 .. Len(live[read]) : n > run.page * PageSize /\ live[read][n] = i
  BY <1>2, Pages
<1>4. run' = [todo |-> run.todo, page |-> run.page + 1, pages |-> read_page, attempt |-> 1,
              waits |-> run.waits, elements |-> run.elements, gaps |-> run.gaps]
  BY <1>1, <1>2 DEF Working, NextPage
<1>5. run' \in Working
  BY <1>1, <1>3, <1>4 DEF Working
<1>6. TypeOK' /\ ZoneInv' /\ NothingSilentlyMissing' /\ ExactWhenQuiet' /\ ~ Idle' /\ snapshot' = None
  BY <1>1, <1>5, GoesOn
<1>7. Reading' /\ read' = read
  BY <1>4, <1>6 DEF Reading, read
<1>8. WorkInv'
  BY <1>1, <1>4, <1>6, <1>7 DEF Inv, WorkInv
<1>9. CoverInv'
  BY <1>1, <1>4 DEF Inv, CoverInv, Covered, InAGap, Elsewhere, history
<1>10. PageInv'
  <2>1. (run.page + 1) - 1 = run.page
    BY <1>1
  <2>2. /\ run'.page = run.page + 1 /\ run'.pages = read_page
        /\ live' = live /\ steady' = steady /\ shifted' = shifted
    BY <1>1, <1>4 DEF Elsewhere, history
  <2>3. SUFFICES ASSUME NEW i \in steady, Home[i] = read
                 PROVE  \/ read \in shifted \/ i \in ToSet(read_page)
                        \/ \E n \in 1 .. Len(live[read]) :
                             n > (run'.page - 1) * PageSize /\ live[read][n] = i
    BY <1>7, <2>2 DEF PageInv
  <2>4. run'.page - 1 = run.page
    BY <2>1, <2>2
  <2>5. (run'.page - 1) * PageSize = run.page * PageSize
    BY <2>4
  <2>6. \/ read \in shifted \/ i \in ToSet(read_page)
        \/ \E n \in 1 .. Len(live[read]) : n > run.page * PageSize /\ live[read][n] = i
    BY <1>3, <2>3
  <2> QED BY <2>5, <2>6
<1>11. QuietInv'
  <2>1. SUFFICES ASSUME quiet PROVE (steady = InZone)' /\ shifted' = {} /\ Apart'
    BY DEF QuietInv, Elsewhere, history
  <2>2. steady = InZone /\ shifted = {} /\ Apart
    BY <1>1, <2>1 DEF Inv, QuietInv
  <2>3. (steady = InZone)' /\ shifted' = {} /\ InZone' = InZone /\ live' = live
    BY <2>2 DEF Elsewhere, history, InZone
  <2>4. ToSet(read_page) \subseteq ToSet(live[read])
    BY <1>3, <2>2 DEF Apart
  <2>5. /\ run'.todo = run.todo /\ run'.elements = run.elements /\ run'.gaps = run.gaps
        /\ run'.pages = read_page
    BY <1>1, <1>4
  <2>6. \A i : InAGap(i, run') <=> InAGap(i, run)
    BY <2>5 DEF InAGap
  <2>7. Apart'
    BY <1>7, <2>2, <2>3, <2>4, <2>5, <2>6 DEF Apart
  <2> QED BY <2>3, <2>7
<1> QED BY <1>6, <1>8, <1>9, <1>10, <1>11 DEF Inv

\* An answer is a page, or the last one.
LEMMA AnswerKeeps ==
  ASSUME Inv, Answer
  PROVE  Inv'
<1>1. /\ Reading /\ ~ run.waits /\ Answerable /\ Elsewhere /\ UNCHANGED exit /\ stopped' \in Stops
  BY DEF Answer, Awaited, Delivered, Stops, Inv, TypeOK
<1>2. CASE read \in Paged /\ run.page < TotalPages
  BY <1>1, <1>2, PageKeeps DEF Answer, NextPage
<1>3. CASE ~ (read \in Paged /\ run.page < TotalPages)
  BY <1>1, <1>3, GotKeeps DEF Answer
<1> QED BY <1>2, <1>3

\* A backoff begins or ends; nothing is read.
LEMMA WaitKeeps ==
  ASSUME Inv, Reading, NEW attempt \in 1 .. MaxAttempts, NEW waits \in BOOLEAN,
         waits => attempt < MaxAttempts, run' = [run EXCEPT !.waits = waits, !.attempt = attempt],
         Elsewhere, UNCHANGED exit, stopped' \in Stops
  PROVE  Inv'
<1>1. ~ Idle /\ run \in Working
  BY AtWork DEF Reading
<1>2. run' = [todo |-> run.todo, page |-> run.page, pages |-> run.pages, attempt |-> attempt,
              waits |-> waits, elements |-> run.elements, gaps |-> run.gaps]
  BY <1>1 DEF Working
<1>3. run' \in Working
  BY <1>1, <1>2 DEF Working
<1>4. TypeOK' /\ ZoneInv' /\ NothingSilentlyMissing' /\ ExactWhenQuiet' /\ ~ Idle' /\ snapshot' = None
  BY <1>1, <1>3, GoesOn
<1>5. Reading' /\ read' = read
  BY <1>2, <1>4 DEF Reading, read
<1>6. run'.waits => run'.attempt < MaxAttempts
  BY <1>2
<1>7. WorkInv'
  BY <1>1, <1>2, <1>4, <1>5, <1>6 DEF Inv, WorkInv
<1>8. CoverInv'
  BY <1>1, <1>2 DEF Inv, CoverInv, Covered, InAGap, Elsewhere, history
<1>9. PageInv'
  BY <1>2, <1>5 DEF Inv, PageInv, Elsewhere, history
<1>10. QuietInv'
  <2>1. SUFFICES ASSUME quiet PROVE (steady = InZone)' /\ shifted' = {} /\ Apart'
    BY DEF QuietInv, Elsewhere, history
  <2>2. steady = InZone /\ shifted = {} /\ Apart
    BY <1>1, <2>1 DEF Inv, QuietInv
  <2>3. (steady = InZone)' /\ shifted' = {} /\ InZone' = InZone /\ live' = live
    BY <2>2 DEF Elsewhere, history, InZone
  <2>4. Apart'
    BY <1>2, <1>5, <2>2, <2>3 DEF Apart, InAGap
  <2> QED BY <2>3, <2>4
<1> QED BY <1>4, <1>7, <1>8, <1>9, <1>10 DEF Inv

LEMMA BusyKeeps ==
  ASSUME Inv, Busy
  PROVE  Inv'
<1>1. Reading /\ ~ Idle /\ Elsewhere /\ stopped' \in Stops
  BY DEF Busy, Awaited, Reading, Delivered, Stops, Inv, TypeOK
<1>2. CASE run.attempt < MaxAttempts
  <2>1. PICK attempt \in 1 .. MaxAttempts : attempt = run.attempt
    BY <1>1, AtWork DEF Working
  <2>2. run' = [run EXCEPT !.waits = TRUE, !.attempt = attempt]
    BY <1>1, <1>2, <2>1, AtWork DEF Busy, Working
  <2>3. UNCHANGED exit
    BY <1>2 DEF Busy
  <2> QED BY <1>1, <1>2, <2>1, <2>2, <2>3, WaitKeeps
<1>3. CASE ~ (run.attempt < MaxAttempts)
  BY <1>1, <1>3, FailsKeeps DEF Busy
<1> QED BY <1>2, <1>3

LEMMA ResumeKeeps ==
  ASSUME Inv, Resume
  PROVE  Inv'
<1>1. Reading /\ ~ Idle /\ Elsewhere /\ UNCHANGED exit /\ stopped' \in Stops /\ run.waits
  BY DEF Resume, Reading, Stops, Inv, TypeOK
<1>2. run \in Working /\ run.attempt < MaxAttempts
  BY <1>1, AtWork DEF Inv, WorkInv
<1>3. PICK attempt \in 1 .. MaxAttempts : attempt = run.attempt + 1
  <2>1. run.attempt \in 1 .. MaxAttempts
    BY <1>2 DEF Working
  <2> QED BY <1>2, <2>1, ExtractAssumption
<1>4. run' = [run EXCEPT !.waits = FALSE, !.attempt = attempt]
  BY <1>2, <1>3 DEF Resume, Working
<1> QED BY <1>1, <1>3, <1>4, WaitKeeps

LEMMA StopKeeps ==
  ASSUME Inv, Stop
  PROVE  Inv'
<1>1. run' = run /\ exit' = exit /\ stopped' \in Stops /\ Elsewhere /\ ~ Idle /\ run \in Working
  BY AtWork DEF Stop, Stops
<1>2. TypeOK' /\ ZoneInv' /\ NothingSilentlyMissing' /\ ExactWhenQuiet' /\ ~ Idle' /\ snapshot' = None
  BY <1>1, GoesOn
<1>3. WorkInv' /\ CoverInv' /\ PageInv'
  BY <1>1, <1>2 DEF Inv, WorkInv, CoverInv, Covered, InAGap, PageInv, Idle, Reading, read, Elsewhere, history
<1>4. QuietInv'
  BY <1>1 DEF Inv, QuietInv, Apart, InAGap, InZone, Idle, Reading, read, Elsewhere, history
<1> QED BY <1>2, <1>3, <1>4 DEF Inv

\* What a run delivers: nothing is left to read, so what was there is read or in a gap.
LEMMA WriteKeeps ==
  ASSUME Inv, Write
  PROVE  Inv'
<1>1. ~ Idle /\ run \in Working /\ ToSet(run.todo) = {}
  BY AtWork DEF Write, ToSet
<1>2. Idle' /\ ~ Reading' /\ live' = live /\ steady' = steady /\ shifted' = shifted /\ quiet' = quiet
  BY DEF Write, Idle, Reading, history
<1>3. Captured \in Snapshots /\ snapshot' = Captured
  BY <1>1 DEF Captured, Snapshots, Working, Write
<1>4. TypeOK'
  BY <1>2, <1>3 DEF Inv, TypeOK, Write, history, Idle
<1>5. ZoneInv'
  BY <1>2 DEF Inv, ZoneInv
<1>6. NothingSilentlyMissing'
  BY <1>1, <1>2, <1>3 DEF Inv, CoverInv, Covered, InAGap, Captured, NothingSilentlyMissing
<1>7. ExactWhenQuiet'
  <2>1. SUFFICES ASSUME quiet
                 PROVE  Captured.elements = {i \in InZone : ~ InAGap(i, Captured)}
    BY <1>2, <1>3 DEF ExactWhenQuiet, InZone
  <2>2. steady = InZone /\ shifted = {} /\ Apart
    BY <1>1, <2>1 DEF Inv, QuietInv
  <2>3. \A i : InAGap(i, Captured) <=> InAGap(i, run)
    BY DEF InAGap, Captured
  <2>4. \A i \in InZone : i \in run.elements \/ InAGap(i, run)
    BY <1>1, <2>2 DEF Inv, CoverInv, Covered
  <2>5. \A i \in run.elements : i \in InZone /\ ~ InAGap(i, run)
    BY <2>2 DEF Apart
  <2> QED BY <2>3, <2>4, <2>5 DEF Captured
<1> QED BY <1>2, <1>4, <1>5, <1>6, <1>7 DEF Inv, WorkInv, CoverInv, PageInv, QuietInv

\* Once in a whole is once in its first part.
LEMMA FirstPart ==
  ASSUME NEW S, NEW a \in Seq(S), NEW b \in Seq(S), NoRepeats(a \o b)
  PROVE  NoRepeats(a) /\ ToSet(a) \cap ToSet(b) = {}
<1>1. /\ Len(a) \in Nat /\ Len(b) \in Nat /\ Len(a \o b) = Len(a) + Len(b)
      /\ \A n \in 1 .. Len(a) + Len(b) : (a \o b)[n] = IF n <= Len(a) THEN a[n] ELSE b[n - Len(a)]
  BY ConcatProperties
<1>2. \A n \in 1 .. Len(a) : n \in 1 .. Len(a) + Len(b) /\ (a \o b)[n] = a[n]
  BY <1>1
<1>3. \A n \in 1 .. Len(b) : /\ n + Len(a) \in 1 .. Len(a) + Len(b) /\ n + Len(a) > Len(a)
                             /\ (a \o b)[n + Len(a)] = b[n]
  BY <1>1
<1>4. \A m \in 1 .. Len(a), n \in 1 .. Len(b) : a[m] # b[n]
  BY <1>1, <1>2, <1>3 DEF NoRepeats
<1>5. ToSet(a) \cap ToSet(b) = {}
  BY <1>4, SetOf
<1> QED BY <1>1, <1>2, <1>5 DEF NoRepeats

LEMMA StartKeeps ==
  ASSUME Inv, NEW account \in BOOLEAN, NEW where \in {"file", "stdout"}, Start(account, where)
  PROVE  Inv'
<1>0. /\ Reads \in Seq(STRING) /\ AccountReads \in Seq(STRING) /\ Reads \o AccountReads \in Seq(STRING)
      /\ NoRepeats(Reads \o AccountReads)
      /\ ToSet(Reads \o AccountReads) = ToSet(Reads) \cup Account
  BY ExtractAssumption, ConcatSet DEF Account
<1>1. PICK todo \in Seq(STRING) : todo = IF account THEN Reads \o AccountReads ELSE Reads
  BY <1>0
<1>2. PICK gaps \in SUBSET {"account"} : gaps = IF account THEN {} ELSE {"account"}
  OBVIOUS
<1>3. run' = [todo |-> todo, page |-> 1, pages |-> <<>>, attempt |-> 1, waits |-> FALSE,
              elements |-> {}, gaps |-> gaps]
  BY <1>1, <1>2 DEF Start
<1>4. NoRepeats(Reads) /\ ToSet(Reads) \cap Account = {}
  BY <1>0, FirstPart DEF Account
<1>5. /\ NoRepeats(todo) /\ ToSet(todo) \subseteq Listings
      /\ account => ToSet(todo) = Listings
      /\ ~ account => ToSet(todo) = ToSet(Reads)
  BY <1>0, <1>1, <1>4 DEF Listings
<1>6. todo \in Seq(Surfaces \cup Items)
  <2>1. \A n \in 1 .. Len(todo) : todo[n] \in Surfaces \cup Items
    BY <1>5, SetOf DEF Surfaces
  <2> QED BY <2>1
<1>7. run' \in Working /\ ~ Idle'
  <2>1. 1 \in 1 .. MaxAttempts /\ 1 \in Nat \ {0} /\ <<>> \in Seq(Items) /\ {} \in SUBSET Items
        /\ gaps \in SUBSET (Surfaces \cup Items \cup {"account"})
    BY ExtractAssumption
  <2>2. run' \in Working
    BY <1>3, <1>6, <2>1 DEF Working
  <2> QED BY <2>2, ExtractAssumption DEF Idle
<1>8. /\ run'.todo = todo /\ run'.page = 1 /\ run'.pages = <<>> /\ ~ run'.waits
       /\ run'.elements = {} /\ run'.gaps = gaps
  BY <1>3
<1>9. TypeOK'
  <2>1. InZone \subseteq Items
    BY SetOf DEF InZone, Inv, TypeOK
  <2>2. runs' \in 0 .. MaxRuns
    BY ExtractAssumption DEF Start, Inv, TypeOK
  <2> QED BY <1>7, <2>1, <2>2 DEF Inv, TypeOK, Start
<1>10. ZoneInv'
  <2>1. ASSUME NEW i \in InZone PROVE i \in ToSet(live[Home[i]])
    BY OnListing DEF InZone, Inv, TypeOK
  <2> QED BY <2>1 DEF Inv, ZoneInv, Start
<1>11. Items \cap (Listings \cup {"account"}) = {}
  BY ExtractAssumption DEF Surfaces
<1>12. WorkInv'
  <2>1. ToSet(todo) \cap Items = {} /\ gaps \cap Items = {} /\ gaps \cap Fatal = {}
    BY <1>5, <1>11 DEF Fatal
  <2>2. snapshot' = None
    BY DEF Start
  <2> QED BY <1>8, <2>1, <2>2 DEF WorkInv
<1>13. CoverInv'
  <2>1. SUFFICES ASSUME NEW i \in InZone
                 PROVE  Home[i] \in ToSet(todo) \/ (InAGap(i, run') /\ Home[i] \notin Fatal)
    <3>1. steady' = InZone
      BY DEF Start
    <3> QED BY <1>8, <3>1 DEF CoverInv, Covered, InAGap
  <2>2. Home[i] \in Listings
    BY OnListing DEF InZone, Inv, TypeOK
  <2>3. CASE account
    BY <1>5, <2>2, <2>3
  <2>4. CASE ~ account
    <3>1. "account" \in run'.gaps /\ (Home[i] \in ToSet(Reads) \/ Home[i] \in Account)
      BY <1>2, <1>8, <2>2, <2>4 DEF Listings
    <3>2. Account \cap Fatal = {}
      BY ExtractAssumption
    <3> QED BY <1>5, <2>4, <3>1, <3>2 DEF InAGap
  <2> QED BY <2>3, <2>4
<1>14. PageInv'
  <2>1. SUFFICES ASSUME NEW i \in InZone
                 PROVE  \E n \in 1 .. Len(live[Home[i]]) : n > (1 - 1) * PageSize /\ live[Home[i]][n] = i
    <3>1. run'.page = 1 /\ steady' = InZone /\ live' = live
      BY <1>8 DEF Start
    <3> QED BY <3>1 DEF PageInv
  <2>2. i \in ToSet(live[Home[i]]) /\ live[Home[i]] \in Seq(Items)
    BY OnListing DEF InZone, Inv, TypeOK
  <2> QED BY <2>2, Somewhere
<1>15. QuietInv'
  <2>1. (steady = InZone)' /\ shifted' = {}
    BY DEF Start, InZone
  <2>2. \A m, n \in 1 .. Len(todo) : todo[m] = todo[n] => m = n \/ todo[m] \in Details
    BY <1>5 DEF NoRepeats
  <2>3. ToSet(todo) \cap gaps = {} /\ "account" \notin Listings
    BY <1>5, ExtractAssumption
  <2>4. Items \cap (ToSet(todo) \cup gaps) = {}
    BY <1>5, <1>11
  <2>5. "account" \in gaps => ToSet(todo) \cap Account = {}
    BY <1>2, <1>4, <1>5
  <2>6. ToSet(<<>>) = {}
    BY DEF ToSet
  <2>7. Apart'
    BY <1>3, <2>2, <2>3, <2>4, <2>5, <2>6 DEF Apart
  <2> QED BY <2>1, <2>7 DEF QuietInv
<1>16. NothingSilentlyMissing' /\ ExactWhenQuiet'
  BY DEF Start, NothingSilentlyMissing, ExactWhenQuiet
<1> QED BY <1>9, <1>10, <1>12, <1>13, <1>14, <1>15, <1>16 DEF Inv

-----------------------------------------------------------------------------
(* The zone changes under a run *)

\* A change counts, and nothing is said of a zone that holds still any more.
LEMMA Changing ==
  ASSUME Inv, Changes
  PROVE  /\ ~ Idle /\ changes' \in 0 .. MaxChanges /\ ~ quiet' /\ quiet' \in BOOLEAN
         /\ \A s \in Listings : live[s] \in Seq(Items) /\ NoRepeats(live[s])
         /\ steady \subseteq Items
<1>1. changes' \in 0 .. MaxChanges
  BY ExtractAssumption DEF Inv, TypeOK, Changes
<1> QED BY <1>1 DEF Inv, TypeOK, ZoneInv, Changes

LEMMA RemovedKeeps ==
  ASSUME Inv, NEW i \in Items, Removed(i)
  PROVE  Inv'
<1>1. /\ ~ Idle /\ changes' \in 0 .. MaxChanges /\ ~ quiet' /\ quiet' \in BOOLEAN
      /\ \A s \in Listings : live[s] \in Seq(Items) /\ NoRepeats(live[s])
      /\ steady \subseteq Items
  BY Changing DEF Removed
<1>2. PICK n \in 1 .. Len(live[Home[i]]) :
        live[Home[i]][n] = i /\ live' = [live EXCEPT ![Home[i]] = RemoveAt(@, n)]
  BY DEF Removed
<1>3. Home[i] \in Listings /\ live \in [Listings -> Seq(Items)]
  BY ExtractAssumption DEF Inv, TypeOK
<1>4. PICK left \in Seq(Items) : left = RemoveAt(live[Home[i]], n)
  BY <1>1, <1>3, Removal
<1>5. NoRepeats(left) /\ ToSet(left) = ToSet(live[Home[i]]) \ {i}
  BY <1>1, <1>2, <1>3, <1>4, RemovalSet
<1>6. /\ live' \in [Listings -> Seq(Items)] /\ live'[Home[i]] = left
      /\ \A s \in Listings : s # Home[i] => live'[s] = live[s]
  BY <1>2, <1>3, <1>4
<1>7. /\ run' = run /\ out' = out /\ stopped' = stopped /\ snapshot' = snapshot /\ file' = file
      /\ exit' = exit /\ runs' = runs /\ steady' = steady \ {i}
      /\ shifted' = IF Reading /\ read = Home[i] /\ run.page > 1 THEN shifted \cup {read} ELSE shifted
  BY DEF Removed
<1>8. ~ Idle' /\ snapshot' = None
  BY <1>1, <1>7 DEF Idle, Inv, WorkInv
<1>9. TypeOK'
  <2>1. shifted' \subseteq Paged
    BY <1>1, <1>7 DEF Inv, TypeOK, WorkInv
  <2> QED BY <1>1, <1>6, <1>7, <1>8, <2>1 DEF Inv, TypeOK, Idle
<1>10. ZoneInv'
  <2>1. ASSUME NEW s \in Listings
        PROVE  NoRepeats(live'[s]) /\ \A j \in ToSet(live'[s]) : Home[j] = s
    BY <1>5, <1>6 DEF Inv, ZoneInv
  <2>2. ASSUME NEW j \in steady, j # i PROVE j \in ToSet(live'[Home[j]])
    <3>1. j \in ToSet(live[Home[j]]) /\ Home[j] \in Listings
      BY <1>1, ExtractAssumption DEF Inv, ZoneInv
    <3> QED BY <1>5, <1>6, <2>2, <3>1
  <2> QED BY <1>7, <2>1, <2>2 DEF ZoneInv
<1>11. WorkInv'
  BY <1>1, <1>7, <1>8 DEF Inv, WorkInv, Reading, Idle, read
<1>12. shifted \subseteq shifted'
  BY <1>7
<1>13. CoverInv'
  BY <1>1, <1>7, <1>12 DEF Inv, CoverInv, Covered, InAGap
<1>14. PageInv'
  <2>1. SUFFICES ASSUME Reading, read \in Paged, NEW j \in steady, j # i, Home[j] = read,
                        read \notin shifted', j \notin ToSet(run.pages)
                 PROVE  \E m \in 1 .. Len(live'[read]) : m > (run.page - 1) * PageSize /\ live'[read][m] = j
    BY <1>7 DEF PageInv, Reading, Idle, read
  <2>2. Home[j] \in Listings
    BY <1>1, ExtractAssumption
  <2>3. CASE read = Home[i]
    <3>1. ~ (run.page > 1)
      BY <1>7, <2>1, <2>3
    <3>2. run.page = 1
      BY <1>1, <3>1, AtWork
    <3>3. j \in ToSet(live'[read]) /\ live'[read] \in Seq(Items)
      BY <1>6, <1>7, <1>10, <2>1, <2>2 DEF ZoneInv
    <3> QED BY <3>2, <3>3, Somewhere
  <2>4. CASE read # Home[i]
    <3>1. live'[read] = live[read]
      BY <1>6, <2>1, <2>2, <2>4
    <3> QED BY <1>12, <2>1, <3>1 DEF Inv, PageInv
  <2> QED BY <2>3, <2>4
<1>15. QuietInv' /\ NothingSilentlyMissing' /\ ExactWhenQuiet'
  BY <1>1, <1>8 DEF QuietInv, NothingSilentlyMissing, ExactWhenQuiet
<1> QED BY <1>9, <1>10, <1>11, <1>13, <1>14, <1>15 DEF Inv

\* What is added moves nothing towards the start.
LEMMA MovesAway ==
  ASSUME NEW s \in Seq(Items), NEW n \in 1 .. Len(s) + 1, NEW e \in Items,
         NEW m \in 1 .. Len(s), NEW lo \in Nat, m > lo
  PROVE  \E k \in 1 .. Len(InsertAt(s, n, e)) : k > lo /\ InsertAt(s, n, e)[k] = s[m]
<1>1. /\ Len(InsertAt(s, n, e)) = Len(s) + 1 /\ Len(s) \in Nat
      /\ \A k \in 1 .. Len(s) + 1 :
           InsertAt(s, n, e)[k] = IF k < n THEN s[k] ELSE IF k = n THEN e ELSE s[k - 1]
  BY Insertion
<1>2. CASE m < n
  <2>1. m \in 1 .. Len(s) + 1
    BY <1>1
  <2> QED BY <1>1, <1>2, <2>1
<1>3. CASE ~ (m < n)
  <2>1. m + 1 \in 1 .. Len(s) + 1 /\ ~ (m + 1 < n) /\ m + 1 # n /\ (m + 1) - 1 = m /\ m + 1 > lo
    BY <1>1, <1>3
  <2> QED BY <1>1, <2>1
<1> QED BY <1>2, <1>3

LEMMA AddedKeeps ==
  ASSUME Inv, NEW i \in Items, Added(i)
  PROVE  Inv'
<1>1. /\ ~ Idle /\ changes' \in 0 .. MaxChanges /\ ~ quiet' /\ quiet' \in BOOLEAN
      /\ \A s \in Listings : live[s] \in Seq(Items) /\ NoRepeats(live[s])
      /\ steady \subseteq Items
  BY Changing DEF Added
<1>2. PICK n \in 1 .. Len(live[Home[i]]) + 1 : live' = [live EXCEPT ![Home[i]] = InsertAt(@, n, i)]
  BY DEF Added
<1>3. Home[i] \in Listings /\ live \in [Listings -> Seq(Items)]
  BY ExtractAssumption DEF Inv, TypeOK
<1>4. i \notin ToSet(live[Home[i]])
  BY <1>3 DEF Added, InZone
<1>5. PICK more \in Seq(Items) : more = InsertAt(live[Home[i]], n, i)
  BY <1>1, <1>3, Insertion
<1>6. NoRepeats(more) /\ ToSet(more) = ToSet(live[Home[i]]) \cup {i}
  <2>1. live[Home[i]] \in Seq(Items) /\ NoRepeats(live[Home[i]])
    BY <1>1, <1>3
  <2> QED BY <1>4, <1>5, <2>1, InsertionSet
<1>7. /\ live' \in [Listings -> Seq(Items)] /\ live'[Home[i]] = more
      /\ \A s \in Listings : s # Home[i] => live'[s] = live[s]
  BY <1>2, <1>3, <1>5
<1>8. /\ run' = run /\ out' = out /\ stopped' = stopped /\ snapshot' = snapshot /\ file' = file
      /\ exit' = exit /\ runs' = runs /\ steady' = steady /\ shifted' = shifted
  BY DEF Added
<1>9. ~ Idle' /\ snapshot' = None
  BY <1>1, <1>8 DEF Idle, Inv, WorkInv
<1>10. TypeOK'
  BY <1>1, <1>7, <1>8, <1>9 DEF Inv, TypeOK, Idle
<1>11. ZoneInv'
  <2>1. ASSUME NEW s \in Listings
        PROVE  NoRepeats(live'[s]) /\ \A j \in ToSet(live'[s]) : Home[j] = s
    BY <1>6, <1>7 DEF Inv, ZoneInv
  <2>2. ASSUME NEW j \in steady PROVE j \in ToSet(live'[Home[j]])
    <3>1. j \in ToSet(live[Home[j]]) /\ Home[j] \in Listings
      BY <1>1, ExtractAssumption DEF Inv, ZoneInv
    <3> QED BY <1>6, <1>7, <3>1
  <2> QED BY <1>8, <2>1, <2>2 DEF ZoneInv
<1>12. WorkInv'
  BY <1>1, <1>8, <1>9 DEF Inv, WorkInv, Reading, Idle, read
<1>13. CoverInv'
  BY <1>1, <1>8 DEF Inv, CoverInv, Covered, InAGap
<1>14. PageInv'
  <2>1. SUFFICES ASSUME Reading, read \in Paged, NEW j \in steady, Home[j] = read,
                        read \notin shifted, j \notin ToSet(run.pages)
                 PROVE  \E m \in 1 .. Len(live'[read]) : m > (run.page - 1) * PageSize /\ live'[read][m] = j
    BY <1>8 DEF PageInv, Reading, Idle, read
  <2>2. PICK m \in 1 .. Len(live[read]) : m > (run.page - 1) * PageSize /\ live[read][m] = j
    BY <2>1 DEF Inv, PageInv
  <2>3. CASE read = Home[i]
    <3>1. PICK s \in Seq(Items) : s = live[read] /\ n \in 1 .. Len(s) + 1 /\ m \in 1 .. Len(s)
      BY <1>1, <1>3, <2>3
    <3>2. PICK lo \in Nat : lo = (run.page - 1) * PageSize
      <4>1. run.page - 1 \in Nat /\ PageSize \in Nat
        BY <1>1, AtWork, ExtractAssumption
      <4> QED BY <4>1
    <3>3. \E k \in 1 .. Len(InsertAt(s, n, i)) : k > lo /\ InsertAt(s, n, i)[k] = s[m]
      BY <2>2, <3>1, <3>2, MovesAway
    <3> QED BY <1>5, <1>7, <2>2, <2>3, <3>1, <3>2, <3>3
  <2>4. CASE read # Home[i]
    <3>1. live'[read] = live[read]
      BY <1>1, <1>7, <2>1, <2>4, ExtractAssumption
    <3> QED BY <2>2, <3>1
  <2> QED BY <2>3, <2>4
<1>15. QuietInv' /\ NothingSilentlyMissing' /\ ExactWhenQuiet'
  BY <1>1, <1>9 DEF QuietInv, NothingSilentlyMissing, ExactWhenQuiet
<1> QED BY <1>10, <1>11, <1>12, <1>13, <1>14, <1>15 DEF Inv

-----------------------------------------------------------------------------
(* The theorems *)

LEMMA InitInv == Init => Inv
<1> SUFFICES ASSUME Init PROVE Inv
  OBVIOUS
<1>1. live = Listed /\ Idle /\ ~ Reading /\ snapshot = None /\ steady = {}
  BY DEF Init, Idle, Reading
<1>2. InZone \subseteq Items
  BY <1>1, ExtractAssumption, SetOf DEF InZone
<1>3. TypeOK
  BY <1>1, <1>2, ExtractAssumption DEF Init, TypeOK, Snapshots
<1>4. ZoneInv
  BY <1>1, ExtractAssumption DEF ZoneInv
<1> QED BY <1>1, <1>3, <1>4 DEF Inv, WorkInv, CoverInv, PageInv, QuietInv, NothingSilentlyMissing,
           ExactWhenQuiet

\* Any step keeps the invariant.
LEMMA StepKeepsInv == Inv /\ [Next]_vars => Inv'
<1> SUFFICES ASSUME Inv, [Next]_vars PROVE Inv'
  OBVIOUS
<1>1. ASSUME Refused \/ Cancelled PROVE Inv'
  BY <1>1, FailsKeeps DEF Refused, Cancelled, Awaited, Delivered, Stops, Inv, TypeOK
<1>2. ASSUME WriteFails \/ Kill PROVE Inv'
  BY <1>2, GivesUp DEF WriteFails, Kill, Stops, Inv, TypeOK
<1>3. ASSUME UNCHANGED vars PROVE Inv'
  BY <1>3 DEF vars, history, Inv, TypeOK, ZoneInv, WorkInv, CoverInv, Covered, PageInv, QuietInv, Apart,
     InAGap, InZone, Idle, Reading, read, NothingSilentlyMissing, ExactWhenQuiet
<1> QED BY <1>1, <1>2, <1>3, AnswerKeeps, BusyKeeps, ResumeKeeps, WriteKeeps, StopKeeps, StartKeeps,
           RemovedKeeps, AddedKeeps DEF Next, Process

\* At every step of every run, what was there all along is ahead, read, or in a gap.
THEOREM ExtractInvariant == Spec => []Inv
<1>1. Init => Inv  BY InitInv
<1>2. Inv /\ [Next]_vars => Inv'  BY StepKeepsInv
<1> QED BY <1>1, <1>2, PTL DEF Spec

\* The model stays within its types: no request is made more than MaxAttempts times.
THEOREM ExtractTypeOK == Spec => []TypeOK
<1>1. Inv => TypeOK  BY DEF Inv
<1> QED BY <1>1, ExtractInvariant, PTL

\* What was in the zone all through an extraction is in the snapshot or in a gap of it, unless
\* its listing lost an item between two pages; a DNS record is never in a gap.
THEOREM ExtractNothingMissing == Spec => []NothingSilentlyMissing
<1>1. Inv => NothingSilentlyMissing  BY DEF Inv
<1> QED BY <1>1, ExtractInvariant, PTL

\* Of a zone that holds still, a surface is in the snapshot as a whole or not at all.
THEOREM ExtractExact == Spec => []ExactWhenQuiet
<1>1. Inv => ExactWhenQuiet  BY DEF Inv
<1> QED BY <1>1, ExtractInvariant, PTL
=============================================================================
