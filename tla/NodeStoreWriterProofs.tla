----------------------- MODULE NodeStoreWriterProofs -----------------------
(***************************************************************************)
(* The NodeStore's write path for every set of callers, keys and nodes and *)
(* every batch size: its types, what its callers and the map streams are   *)
(* told, which sessions survive a batch, and that it implements NodeStore. *)
(*                                                                         *)
(* A list of writes is a recursive function on its positions.  The first   *)
(* part unfolds it, with induction on the positions taken from the         *)
(* well-foundedness of the naturals, in terms of sets of numbers.          *)
(***************************************************************************)
EXTENDS NodeStoreWriter, TLAPS, WellFoundedInduction, FiniteSetTheorems

-----------------------------------------------------------------------------
\* Induction.

\* A set of naturals that has 0 and the successor of each of its members has
\* them all.
LEMMA Induction ==
    ASSUME NEW S, 0 \in S, \A n \in Nat : n \in S => n + 1 \in S
    PROVE  Nat \subseteq S
<1> SUFFICES ASSUME Nat \ S # {}
             PROVE  FALSE
  OBVIOUS
<1>1. PICK x \in Nat \ S : \A y \in Nat \ S : ~(<<y, x>> \in OpToRel(<, Nat))
  <2>1. Nat \ S \subseteq Nat
    OBVIOUS
  <2> QED BY <2>1, NatLessThanWellFounded, WFMin, Zenon
<1>2. \A y \in Nat \ S : ~(y < x)
  BY <1>1, Zenon DEF OpToRel
<1>3. x # 0 /\ x - 1 \in Nat /\ x - 1 < x /\ (x - 1) + 1 = x
  OBVIOUS
<1>4. x - 1 \in S
  BY <1>2, <1>3
<1> QED BY <1>1, <1>3, <1>4

-----------------------------------------------------------------------------
\* Lists of writes.

\* The equation that Course solves, for the first n writes of q.
IsCourse(f, o, q, b, n) ==
    f = [i \in 0 .. n |-> IF i = 0 THEN b ELSE Applied(f[i - 1], q[i], o[q[i]])]

\* It has a solution.
LEMMA CourseExists ==
    ASSUME NEW o, NEW q, NEW b, NEW n \in Nat
    PROVE  \E f : IsCourse(f, o, q, b, n)
<1> DEFINE R(f, m) == f = [i \in 0 .. m |-> IF i = 0 THEN b ELSE Applied(f[i - 1], q[i], o[q[i]])]
           S == {m \in Nat : \E f : R(f, m)}
<1>1. 0 \in S
  <2> DEFINE g == [i \in 0 .. 0 |-> b]
  <2>1. R(g, 0)
    OBVIOUS
  <2> HIDE DEF R
  <2> QED BY <2>1
<1>2. ASSUME NEW m \in Nat, m \in S
      PROVE  m + 1 \in S
  <2>1. PICK f : R(f, m)
    BY <1>2, Zenon
  <2> DEFINE last == Applied(f[m], q[m + 1], o[q[m + 1]])
             g == [i \in 0 .. m + 1 |-> IF i = m + 1 THEN last ELSE f[i]]
  <2>2. \A i \in 0 .. m : f[i] = IF i = 0 THEN b ELSE Applied(f[i - 1], q[i], o[q[i]])
    BY <2>1
  <2>3. \A i \in 0 .. m : g[i] = f[i]
    OBVIOUS
  <2>4. ASSUME NEW i \in 0 .. m + 1
        PROVE  g[i] = IF i = 0 THEN b ELSE Applied(g[i - 1], q[i], o[q[i]])
    <3>1. CASE i = m + 1
      <4>1. g[i] = last /\ i # 0 /\ i - 1 = m /\ m \in 0 .. m
        BY <3>1
      <4>2. g[i - 1] = f[m]
        BY <4>1, <2>3
      <4> QED BY <3>1, <4>1, <4>2
    <3>2. CASE i \in 0 .. m
      <4>1. g[i] = f[i] /\ (i # 0 => i - 1 \in 0 .. m)
        BY <3>2, <2>3
      <4>2. i # 0 => g[i - 1] = f[i - 1]
        BY <4>1, <2>3
      <4> HIDE DEF g
      <4> QED BY <3>2, <4>1, <4>2, <2>2
    <3> QED BY <3>1, <3>2
  <2>5. g = [i \in 0 .. m + 1 |-> g[i]]
    OBVIOUS
  <2>6. R(g, m + 1)
    <3> HIDE DEF g
    <3> QED BY <2>4, <2>5
  <2> HIDE DEF R
  <2> QED BY <2>6
<1>3. n \in S
  <2> HIDE DEF S
  <2> QED BY <1>1, <1>2, Induction
<1> QED BY <1>3, Zenon DEF IsCourse

\* A list of writes starts from the map and the sessions it is given, and
\* each position follows from the one before.
LEMMA CourseSteps ==
    ASSUME NEW o, NEW q, NEW s, NEW ss, Len(q) \in Nat, NEW a, a = Course(o, q, s, ss)
    PROVE  /\ a[0] = [map |-> s, sessions |-> ss]
           /\ \A i \in 1 .. Len(q) : a[i] = Applied(a[i - 1], q[i], o[q[i]])
<1> DEFINE b == [map |-> s, sessions |-> ss]
           R(f) == f = [i \in 0 .. Len(q) |-> IF i = 0 THEN b ELSE Applied(f[i - 1], q[i], o[q[i]])]
           k == CHOOSE f : R(f)
<1>1. \E f : R(f)
  <2> HIDE DEF b
  <2>1. \E f : IsCourse(f, o, q, b, Len(q))
    BY CourseExists, Zenon
  <2> QED BY <2>1, Zenon DEF IsCourse
<1>2. R(k)
  <2> HIDE DEF R
  <2> QED BY <1>1, Zenon
<1>3. Course(o, q, s, ss) = k
  BY DEF Course
<1>4. /\ k[0] = b
      /\ \A i \in 1 .. Len(q) : k[i] = Applied(k[i - 1], q[i], o[q[i]])
  <2> HIDE DEF k, b
  <2> QED BY <1>2
<1> HIDE DEF k
<1> QED BY <1>3, <1>4

-----------------------------------------------------------------------------
\* One write.

LEMMA WriteFields ==
    ASSUME NEW w \in Writes
    PROVE  /\ w.kind \in Kinds /\ w.keys \subseteq Keys
           /\ w.kind \in {"put", "rekey"} => w.to \in Keys /\ w.node \in Nodes
           /\ w.kind \notin {"put", "rekey"} => w.to = None
BY WritesAssumption

\* A write leads from a map of records to one, of which the nodes are known.
LEMMA EffectTyped ==
    ASSUME NEW s \in Map, NEW c \in Callers, NEW w \in Writes
    PROVE  Effect(s, c, w) \in Map
<1>1. ASSUME NEW k \in Keys
      PROVE  Effect(s, c, w)[k] \in Record \cup {None}
  <2>1. s[k] \in Record \cup {None}
    BY DEF Map
  <2>2. Effect(s, c, w)[k] \in {[node |-> w.node, by |-> c], None, [s[k] EXCEPT !.by = c], s[k]}
    BY DEF Effect
  <2>3. CASE Effect(s, c, w)[k] = [node |-> w.node, by |-> c] /\ w.kind \in {"put", "rekey"}
    BY <2>3, WriteFields DEF Record
  <2>4. CASE Effect(s, c, w)[k] = [s[k] EXCEPT !.by = c] /\ s[k] # None
    BY <2>1, <2>4 DEF Record
  <2>5. CASE Effect(s, c, w)[k] \in {None, s[k]}
    BY <2>1, <2>5
  <2> QED BY <2>3, <2>4, <2>5 DEF Effect
<1> QED BY <1>1 DEF Map, Effect

LEMMA PresentKnown ==
    ASSUME NEW s \in Map
    PROVE  Present(s) \subseteq Nodes
BY DEF Present, Map, Record

LEMMA FoundPresent ==
    ASSUME NEW s \in Map, NEW w \in Writes
    PROVE  Found(s, w) \subseteq Present(s)
BY WriteFields DEF Found, Present

\* A write that does not make the writer publish changes nothing.
LEMMA EffectUnpublished ==
    ASSUME NEW s \in Map, NEW c \in Callers, NEW w \in Writes, ~Publishes(s, w)
    PROVE  Effect(s, c, w) = s
<1>1. w.kind \notin {"put", "delete", "rekey"} /\ \A k \in w.keys : s[k] = None
  BY DEF Publishes, Found
<1>2. \A k \in Keys : Effect(s, c, w)[k] = s[k]
  BY <1>1 DEF Effect
<1>3. Effect(s, c, w) \in Map
  BY EffectTyped
<1> QED BY <1>2, <1>3 DEF Map

\* What a write leaves: the map alone decides the map, and sessions are of
\* present nodes, old ones or of a node that the write connects.
LEMMA AppliedParts ==
    ASSUME NEW a, NEW c \in Callers, NEW w \in Writes, a.map \in Map
    PROVE  /\ Applied(a, c, w).map = Effect(a.map, c, w)
           /\ Applied(a, c, w).map \in Map
           /\ Applied(a, c, w).sessions \subseteq Present(Applied(a, c, w).map)
           /\ \A n \in Applied(a, c, w).sessions : n \in a.sessions \/ w.kind = "connect"
BY EffectTyped DEF Applied, Retired, Connected

-----------------------------------------------------------------------------
\* What a list of writes keeps.

\* The callers q have writes.
Listed(o, q) == q \in Seq(Callers) /\ \A i \in 1 .. Len(q) : o[q[i]] \in Writes

\* Induction along a list.
LEMMA ListInduction ==
    ASSUME NEW m \in Nat, NEW S, 0 \in S, \A i \in 1 .. m : i - 1 \in S => i \in S
    PROVE  0 .. m \subseteq S
<1> DEFINE T == {n \in Nat : n <= m => n \in S}
<1>1. 0 \in T
  OBVIOUS
<1>2. ASSUME NEW n \in Nat, n \in T
      PROVE  n + 1 \in T
  <2>1. CASE n + 1 <= m
    <3>1. n + 1 \in 1 .. m /\ (n + 1) - 1 = n /\ n \in S
      BY <1>2, <2>1
    <3> QED BY <3>1
  <2> QED BY <2>1
<1>3. Nat \subseteq T
  <2> HIDE DEF T
  <2> QED BY <1>1, <1>2, Induction
<1> QED BY <1>3

\* Every position is a map of records, the same from whatever sessions the
\* list starts, and sessions are of the nodes in it.
LEMMA CourseTyped ==
    ASSUME NEW o, NEW q, Listed(o, q), NEW s \in Map, NEW ss
    PROVE  \A i \in 0 .. Len(q) :
              /\ Course(o, q, s, ss)[i].map \in Map
              /\ Course(o, q, s, ss)[i].map = Course(o, q, s, {})[i].map
              /\ i # 0 => Course(o, q, s, ss)[i].sessions
                             \subseteq Present(Course(o, q, s, ss)[i].map)
<1>0. Len(q) \in Nat
  BY DEF Listed
<1>a. PICK a : a = Course(o, q, s, ss)
  OBVIOUS
<1>e. PICK none : none = {}
  OBVIOUS
<1>b. PICK b : b = Course(o, q, s, none)
  OBVIOUS
<1>1. /\ a[0].map = s /\ b[0].map = s
      /\ \A i \in 1 .. Len(q) : a[i] = Applied(a[i - 1], q[i], o[q[i]])
      /\ \A i \in 1 .. Len(q) : b[i] = Applied(b[i - 1], q[i], o[q[i]])
  <2>1. /\ a[0] = [map |-> s, sessions |-> ss]
        /\ \A i \in 1 .. Len(q) : a[i] = Applied(a[i - 1], q[i], o[q[i]])
    BY <1>0, <1>a, CourseSteps
  <2>2. /\ b[0] = [map |-> s, sessions |-> none]
        /\ \A i \in 1 .. Len(q) : b[i] = Applied(b[i - 1], q[i], o[q[i]])
    BY <1>0, <1>b, CourseSteps
  <2> QED BY <2>1, <2>2
<1> DEFINE S == {i \in 0 .. Len(q) :
                   /\ a[i].map \in Map
                   /\ a[i].map = b[i].map
                   /\ i # 0 => a[i].sessions \subseteq Present(a[i].map)}
<1>2. 0 \in S
  BY <1>0, <1>1
<1>3. ASSUME NEW i \in 1 .. Len(q), i - 1 \in S
      PROVE  i \in S
  <2>1. q[i] \in Callers /\ o[q[i]] \in Writes /\ i \in 0 .. Len(q) /\ i # 0
    BY <1>0 DEF Listed
  <2>2. a[i - 1].map \in Map /\ a[i - 1].map = b[i - 1].map
    BY <1>3
  <2>3. a[i] = Applied(a[i - 1], q[i], o[q[i]]) /\ b[i] = Applied(b[i - 1], q[i], o[q[i]])
    BY <1>1
  <2>4. /\ a[i].map = Effect(a[i - 1].map, q[i], o[q[i]]) /\ a[i].map \in Map
        /\ a[i].sessions \subseteq Present(a[i].map)
    BY <2>1, <2>2, <2>3, AppliedParts
  <2>5. b[i].map = Effect(b[i - 1].map, q[i], o[q[i]])
    BY <2>1, <2>2, <2>3, AppliedParts
  <2> QED BY <2>1, <2>2, <2>4, <2>5
<1>4. 0 .. Len(q) \subseteq S
  <2> HIDE DEF S
  <2> QED BY <1>0, <1>2, <1>3, ListInduction
<1> QED BY <1>4, <1>a, <1>b, <1>e

\* A list without a write that publishes leaves the map as it is.
LEMMA CourseUnpublished ==
    ASSUME NEW o, NEW q, Listed(o, q), NEW s \in Map, NEW ss,
           \A i \in 1 .. Len(q) : ~Publishes(Course(o, q, s, ss)[i - 1].map, o[q[i]])
    PROVE  \A i \in 0 .. Len(q) : Course(o, q, s, ss)[i].map = s
<1>0. Len(q) \in Nat
  BY DEF Listed
<1>a. PICK a : a = Course(o, q, s, ss)
  OBVIOUS
<1>1. /\ a[0].map = s
      /\ \A i \in 1 .. Len(q) : a[i] = Applied(a[i - 1], q[i], o[q[i]])
  <2>1. /\ a[0] = [map |-> s, sessions |-> ss]
        /\ \A i \in 1 .. Len(q) : a[i] = Applied(a[i - 1], q[i], o[q[i]])
    BY <1>0, <1>a, CourseSteps
  <2> QED BY <2>1
<1> DEFINE S == {i \in 0 .. Len(q) : a[i].map = s}
<1>2. 0 \in S
  BY <1>0, <1>1
<1>3. ASSUME NEW i \in 1 .. Len(q), i - 1 \in S
      PROVE  i \in S
  <2>1. q[i] \in Callers /\ o[q[i]] \in Writes /\ i \in 0 .. Len(q)
    BY <1>0 DEF Listed
  <2>2. a[i - 1].map = s /\ ~Publishes(a[i - 1].map, o[q[i]])
    BY <1>3, <1>a
  <2>3. a[i].map = Effect(a[i - 1].map, q[i], o[q[i]])
    BY <1>1, <2>1, <2>2, AppliedParts
  <2> QED BY <2>1, <2>2, <2>3, EffectUnpublished
<1>4. 0 .. Len(q) \subseteq S
  <2> HIDE DEF S
  <2> QED BY <1>0, <1>2, <1>3, ListInduction
<1> QED BY <1>4, <1>a

\* The first writes of a list do what they do alone.
LEMMA CoursePrefix ==
    ASSUME NEW o, NEW q, Listed(o, q), NEW s, NEW ss, NEW j \in 0 .. Len(q)
    PROVE  \A i \in 0 .. j : Course(o, SubSeq(q, 1, j), s, ss)[i] = Course(o, q, s, ss)[i]
<1>0. Len(q) \in Nat /\ j \in Nat
  BY DEF Listed
<1>p. PICK p : p = SubSeq(q, 1, j)
  OBVIOUS
<1>q. Len(p) = j /\ \A i \in 1 .. j : p[i] = q[i]
  BY <1>0, <1>p DEF Listed
<1>a. PICK a : a = Course(o, q, s, ss)
  OBVIOUS
<1>b. PICK b : b = Course(o, p, s, ss)
  OBVIOUS
<1>1. /\ a[0] = b[0]
      /\ \A i \in 1 .. Len(q) : a[i] = Applied(a[i - 1], q[i], o[q[i]])
      /\ \A i \in 1 .. j : b[i] = Applied(b[i - 1], p[i], o[p[i]])
  <2>1. /\ a[0] = [map |-> s, sessions |-> ss]
        /\ \A i \in 1 .. Len(q) : a[i] = Applied(a[i - 1], q[i], o[q[i]])
    BY <1>0, <1>a, CourseSteps
  <2>2. /\ b[0] = [map |-> s, sessions |-> ss]
        /\ \A i \in 1 .. Len(p) : b[i] = Applied(b[i - 1], p[i], o[p[i]])
    BY <1>0, <1>q, <1>b, CourseSteps
  <2> QED BY <2>1, <2>2, <1>q
<1> DEFINE S == {i \in 0 .. j : a[i] = b[i]}
<1>2. 0 \in S
  BY <1>0, <1>1
<1>3. ASSUME NEW i \in 1 .. j, i - 1 \in S
      PROVE  i \in S
  <2>1. i \in 0 .. j /\ i \in 1 .. Len(q) /\ a[i - 1] = b[i - 1] /\ p[i] = q[i]
    BY <1>0, <1>q, <1>3
  <2> QED BY <1>1, <2>1
<1>4. 0 .. j \subseteq S
  <2> HIDE DEF S
  <2> QED BY <1>0, <1>2, <1>3, ListInduction
<1> QED BY <1>4, <1>a, <1>b, <1>p

\* A session after the list is one from before it, or the list connected it,
\* and since then its node was there all the time.
LEMMA SessionsTraced ==
    ASSUME NEW o, NEW q, Listed(o, q), NEW s \in Map, NEW ss, ss \subseteq Present(s),
           NEW a, a = Course(o, q, s, ss)
    PROVE  \A j \in 0 .. Len(q) : \A n \in a[j].sessions :
              \E i \in 0 .. j :
                 /\ IF i = 0 THEN n \in ss ELSE o[q[i]].kind = "connect"
                 /\ \A k \in i .. j : n \in Present(a[k].map)
<1>0. Len(q) \in Nat
  BY DEF Listed
<1>1. /\ a[0] = [map |-> s, sessions |-> ss]
      /\ \A i \in 1 .. Len(q) : a[i] = Applied(a[i - 1], q[i], o[q[i]])
  BY <1>0, CourseSteps
<1>2. \A i \in 0 .. Len(q) : a[i].map \in Map
  BY CourseTyped
<1> DEFINE Since(n, i, j) == /\ IF i = 0 THEN n \in ss ELSE o[q[i]].kind = "connect"
                             /\ \A k \in i .. j : n \in Present(a[k].map)
           S == {j \in 0 .. Len(q) : \A n \in a[j].sessions : \E i \in 0 .. j : Since(n, i, j)}
<1>3. 0 \in S
  <2>1. ASSUME NEW n \in a[0].sessions
        PROVE  Since(n, 0, 0)
    BY <1>1, <2>1
  <2>2. 0 \in 0 .. Len(q) /\ 0 \in 0 .. 0
    BY <1>0
  <2> HIDE DEF Since
  <2> QED BY <2>1, <2>2
<1>4. ASSUME NEW j \in 1 .. Len(q), j - 1 \in S
      PROVE  j \in S
  <2>1. /\ q[j] \in Callers /\ o[q[j]] \in Writes /\ j \in 0 .. Len(q) /\ j - 1 \in 0 .. Len(q)
        /\ j # 0
    BY <1>0 DEF Listed
  <2>2. a[j] = Applied(a[j - 1], q[j], o[q[j]]) /\ a[j - 1].map \in Map
    BY <1>1, <1>2, <2>1
  <2>3. /\ a[j].sessions \subseteq Present(a[j].map)
        /\ \A n \in a[j].sessions : n \in a[j - 1].sessions \/ o[q[j]].kind = "connect"
    BY <2>1, <2>2, AppliedParts
  <2>4. ASSUME NEW n \in a[j].sessions
        PROVE  \E i \in 0 .. j : Since(n, i, j)
    <3>1. CASE o[q[j]].kind = "connect"
      <4>1. Since(n, j, j)
        BY <2>1, <2>3, <3>1
      <4>2. j \in 0 .. j
        BY <2>1
      <4> HIDE DEF Since
      <4> QED BY <4>1, <4>2
    <3>2. CASE n \in a[j - 1].sessions
      <4>1. PICK i \in 0 .. j - 1 : Since(n, i, j - 1)
        <5> HIDE DEF Since
        <5> QED BY <1>4, <3>2
      <4>2. i \in 0 .. j /\ \A k \in i .. j : k \in i .. j - 1 \/ k = j
        BY <2>1
      <4>3. Since(n, i, j)
        BY <2>3, <4>1, <4>2
      <4> HIDE DEF Since
      <4> QED BY <4>2, <4>3
    <3> QED BY <2>3, <3>1, <3>2
  <2> HIDE DEF Since
  <2> QED BY <2>1, <2>4
<1>5. 0 .. Len(q) \subseteq S
  <2> HIDE DEF S
  <2> QED BY <1>0, <1>3, <1>4, ListInduction
<1> QED BY <1>5

\* An answer and a notice name known nodes; when the write needs its nodes
\* after the batch and is no route approval, nodes that are there then.
LEMMA AnswersKnown ==
    ASSUME NEW o, NEW q, Listed(o, q), NEW s \in Map, NEW i \in 1 .. Len(q)
    PROVE  /\ AnswerOf(o, q, s, i) \subseteq Nodes
           /\ NoticeOf(o, q, s, i) \subseteq Nodes
           /\ NeedsPresence(o[q[i]]) /\ o[q[i]].kind # "approve" =>
                 AnswerOf(o, q, s, i) \cup NoticeOf(o, q, s, i) \subseteq Present(MapAfter(o, q, s))
<1>0. Len(q) \in Nat
  BY DEF Listed
<1>a. PICK a : a = Course(o, q, s, {})
  OBVIOUS
<1>1. /\ i - 1 \in 0 .. Len(q) /\ Len(q) \in 0 .. Len(q)
      /\ o[q[i]] \in Writes
  BY <1>0 DEF Listed
<1>2. a[i - 1].map \in Map
  BY <1>1, <1>a, CourseTyped
<1>3. /\ Outcome(a[i - 1].map, o[q[i]]) \subseteq Nodes
      /\ Notice(a[i - 1].map, o[q[i]]) \subseteq Nodes
  <2>1. Found(a[i - 1].map, o[q[i]]) \subseteq Nodes
    BY <1>1, <1>2, FoundPresent, PresentKnown
  <2> QED BY <1>1, <2>1, WriteFields DEF Outcome, Notice
<1>4. /\ AnswerOf(o, q, s, i) =
            Revalidated(o[q[i]], Outcome(a[i - 1].map, o[q[i]]), a[Len(q)].map)
      /\ NoticeOf(o, q, s, i) =
            Revalidated(o[q[i]], Notice(a[i - 1].map, o[q[i]]), a[Len(q)].map)
      /\ MapAfter(o, q, s) = a[Len(q)].map
  BY <1>a DEF AnswerOf, NoticeOf, MapAfter
<1> QED BY <1>3, <1>4 DEF Revalidated

\* The map after the first j writes of a list is the one at position j.
LEMMA PrefixMap ==
    ASSUME NEW o, NEW q, Listed(o, q), NEW s \in Map, NEW ss, NEW j \in 0 .. Len(q)
    PROVE  MapAfter(o, SubSeq(q, 1, j), s) = Course(o, q, s, ss)[j].map
<1>0. Len(q) \in Nat /\ q \in Seq(Callers) /\ \A i \in 1 .. Len(q) : o[q[i]] \in Writes
  BY DEF Listed
<1>p. PICK p : p = SubSeq(q, 1, j)
  OBVIOUS
<1>1. p \in Seq(Callers) /\ Len(p) = j /\ \A k \in 1 .. j : p[k] = q[k] /\ k \in 1 .. Len(q)
  BY <1>0, <1>p
<1>2. Listed(o, p)
  BY <1>0, <1>1 DEF Listed
<1>3. j \in 0 .. j /\ j \in 0 .. Len(p)
  BY <1>0, <1>1
<1>4. Course(o, p, s, ss)[j].map = Course(o, p, s, {})[j].map
  BY <1>2, <1>3, CourseTyped
<1>5. Course(o, p, s, ss)[j] = Course(o, q, s, ss)[j]
  BY <1>p, <1>3, CoursePrefix
<1> QED BY <1>p, <1>1, <1>4, <1>5 DEF MapAfter

\* A node that is there before a position and not at the end was taken out in
\* between.
LEMMA TakenOut ==
    ASSUME NEW a, NEW m \in Nat, NEW i \in 1 .. m, NEW n,
           n \in Present(a[i - 1].map), n \notin Present(a[m].map)
    PROVE  \E j \in i .. m : n \in Present(a[j - 1].map) /\ n \notin Present(a[j].map)
<1> DEFINE In(j) == n \in Present(a[j].map)
<1> SUFFICES ASSUME \A j \in i .. m : In(j - 1) => In(j)
             PROVE  FALSE
  OBVIOUS
<1>0. In(i - 1) /\ ~In(m)
  OBVIOUS
<1> HIDE DEF In
<1> DEFINE S == {j \in 0 .. m : j < i - 1 \/ In(j)}
<1>1. 0 \in S
  BY <1>0
<1>2. ASSUME NEW j \in 1 .. m, j - 1 \in S
      PROVE  j \in S
  <2>1. CASE j < i
    <3>1. j < i - 1 \/ j = i - 1
      BY <2>1
    <3> QED BY <1>0, <3>1
  <2>2. CASE j >= i
    <3>1. j \in i .. m /\ ~(j - 1 < i - 1)
      BY <2>2
    <3> QED BY <1>2, <3>1
  <2> QED BY <2>1, <2>2
<1>3. 0 .. m \subseteq S
  <2> HIDE DEF S
  <2> QED BY <1>1, <1>2, ListInduction
<1> QED BY <1>0, <1>3

\* What a write leaves at the keys it names, and at the others.
LEMMA EffectBy ==
    ASSUME NEW s \in Map, NEW c \in Callers, NEW w \in Writes, NEW k \in Keys,
           Effect(s, c, w)[k] # None
    PROVE  /\ Effect(s, c, w)[k].by = c \/ Effect(s, c, w)[k] = s[k]
           /\ k \in w.keys \cup {w.to} => Effect(s, c, w)[k].by = c
<1>1. /\ s[k] \in Record \cup {None}
      /\ Effect(s, c, w)[k] =
           CASE w.kind \in {"put", "rekey"} /\ k = w.to -> [node |-> w.node, by |-> c]
             [] w.kind \in {"delete", "rekey"} /\ k \in w.keys /\ k # w.to -> None
             [] w.kind \in {"update", "connect", "patch", "many", "approve"} /\ k \in w.keys /\ s[k] # None ->
                   [s[k] EXCEPT !.by = c]
             [] OTHER -> s[k]
  BY DEF Effect, Map
<1>2. /\ w.kind \in Kinds /\ w.keys \subseteq Keys
      /\ w.kind \in {"put", "rekey"} => w.to \in Keys
      /\ w.kind = "put" => w.keys = {}
      /\ w.kind \notin {"put", "rekey"} => w.to # k
  BY WriteFields, WritesAssumption, NoneAssumption
<1>3. CASE w.kind \in {"put", "rekey"} /\ k = w.to
  BY <1>1, <1>3
<1>4. CASE w.kind \in {"delete", "rekey"} /\ k \in w.keys /\ k # w.to
  BY <1>1, <1>4
<1>5. CASE w.kind \in {"update", "connect", "patch", "many", "approve"} /\ k \in w.keys /\ s[k] # None
  <2>1. Effect(s, c, w)[k] = [s[k] EXCEPT !.by = c] /\ s[k] \in Record
    BY <1>1, <1>5
  <2> QED BY <2>1 DEF Record
<1>6. CASE /\ ~(w.kind \in {"put", "rekey"} /\ k = w.to)
           /\ ~(w.kind \in {"delete", "rekey"} /\ k \in w.keys /\ k # w.to)
           /\ ~(w.kind \in {"update", "connect", "patch", "many", "approve"} /\ k \in w.keys /\ s[k] # None)
  <2>1. Effect(s, c, w)[k] = s[k]
    BY <1>1, <1>6
  <2>2. k \notin w.keys \cup {w.to}
    BY <1>2, <1>6, <2>1 DEF Kinds
  <2> QED BY <2>1, <2>2
<1> QED BY <1>3, <1>4, <1>5, <1>6

\* What a write did to a key is lost to later writes of the list alone.
LEMMA LastWriter ==
    ASSUME NEW o, NEW q, Listed(o, q), NEW s \in Map, NEW a, a = Course(o, q, s, {}),
           NEW i \in 1 .. Len(q), NEW k \in Keys, k \in o[q[i]].keys \cup {o[q[i]].to},
           a[Len(q)].map[k] # None
    PROVE  a[Len(q)].map[k].by \in {q[j] : j \in i .. Len(q)}
<1>0. Len(q) \in Nat /\ Len(q) \in 0 .. Len(q)
  BY DEF Listed
<1>1. \A j \in 1 .. Len(q) : a[j] = Applied(a[j - 1], q[j], o[q[j]])
  <2>1. PICK none : none = {}
    OBVIOUS
  <2>2. a = Course(o, q, s, none)
    BY <2>1
  <2>3. /\ a[0] = [map |-> s, sessions |-> none]
        /\ \A j \in 1 .. Len(q) : a[j] = Applied(a[j - 1], q[j], o[q[j]])
    BY <1>0, <2>2, CourseSteps
  <2> QED BY <2>3
<1>2. \A j \in 0 .. Len(q) : a[j].map \in Map
  BY CourseTyped
<1> DEFINE Later(j) == a[j].map[k] # None => \E l \in i .. j : a[j].map[k].by = q[l]
           S == {j \in 0 .. Len(q) : j < i \/ Later(j)}
<1>3. 0 \in S
  BY <1>0
<1>4. ASSUME NEW j \in 1 .. Len(q), j - 1 \in S
      PROVE  j \in S
  <2>1. /\ q[j] \in Callers /\ o[q[j]] \in Writes /\ j \in 0 .. Len(q) /\ j - 1 \in 0 .. Len(q)
        /\ j \in Nat
    BY <1>0 DEF Listed
  <2>2. a[j - 1].map \in Map /\ a[j].map = Effect(a[j - 1].map, q[j], o[q[j]])
    BY <1>1, <1>2, <2>1, AppliedParts
  <2>3. CASE j < i
    BY <2>1, <2>3
  <2>4. CASE j >= i
    <3>1. ASSUME a[j].map[k] # None
          PROVE  \E l \in i .. j : a[j].map[k].by = q[l]
      <4>1. j \in i .. j
        BY <2>1, <2>4
      <4>2. /\ a[j].map[k].by = q[j] \/ a[j].map[k] = a[j - 1].map[k]
            /\ k \in o[q[j]].keys \cup {o[q[j]].to} => a[j].map[k].by = q[j]
        BY <2>1, <2>2, <3>1, EffectBy
      <4>3. CASE a[j].map[k].by = q[j]
        BY <4>1, <4>3
      <4>4. CASE a[j].map[k].by # q[j]
        <5>1. a[j].map[k] = a[j - 1].map[k] /\ j # i
          BY <4>2, <4>4
        <5>2. ~(j - 1 < i)
          BY <2>1, <2>4, <5>1
        <5>3. PICK l \in i .. j - 1 : a[j - 1].map[k].by = q[l]
          BY <1>4, <3>1, <5>1, <5>2
        <5>4. l \in i .. j
          BY <2>1
        <5> QED BY <5>1, <5>3, <5>4
      <4> QED BY <4>3, <4>4
    <3> QED BY <2>1, <3>1
  <2> QED BY <2>1, <2>3, <2>4
<1>5. Len(q) \in S
  <2>1. 0 .. Len(q) \subseteq S
    <3> HIDE DEF S
    <3> QED BY <1>0, <1>3, <1>4, ListInduction
  <2> QED BY <1>0, <2>1
<1>6. \E l \in i .. Len(q) : a[Len(q)].map[k].by = q[l]
  BY <1>0, <1>5
<1> QED BY <1>6

\* Whatever an answer or a notice names was in the map when the write was made
\* or right after it.
LEMMA NamedWasThere ==
    ASSUME NEW s \in Map, NEW c \in Callers, NEW w \in Writes, NEW n \in Outcome(s, w) \cup Notice(s, w)
    PROVE  n \in Present(s) \/ n \in Present(Effect(s, c, w))
<1>1. CASE w.kind \in {"put", "rekey"}
  <2>1. w.to \in Keys /\ n = w.node
    BY <1>1, WriteFields DEF Outcome, Notice
  <2>2. Effect(s, c, w)[w.to] = [node |-> w.node, by |-> c]
    BY <1>1, <2>1 DEF Effect
  <2>3. [node |-> w.node, by |-> c] # None
    BY <1>1, WriteFields, NoneAssumption DEF Record
  <2>4. Effect(s, c, w)[w.to] # None /\ Effect(s, c, w)[w.to].node = w.node
    BY <2>2, <2>3
  <2> QED BY <2>1, <2>4 DEF Present
<1>2. CASE w.kind \notin {"put", "rekey"}
  <2>1. n \in Found(s, w)
    BY <1>2 DEF Outcome, Notice
  <2> QED BY <2>1, FoundPresent
<1> QED BY <1>1, <1>2

\* A node that is told of and is not there at the end was taken out by the
\* write itself or by a later one; an update reports what it found and is left.
LEMMA AnswersTraced ==
    ASSUME NEW o, NEW q, Listed(o, q), NEW s \in Map, NEW a, a = Course(o, q, s, {}),
           NEW i \in 1 .. Len(q)
    PROVE  /\ \A n \in (AnswerOf(o, q, s, i) \cup NoticeOf(o, q, s, i)) \ Present(a[Len(q)].map) :
                 \E j \in i .. Len(q) : n \in Present(a[j - 1].map) /\ n \notin Present(a[j].map)
           /\ o[q[i]].kind \in {"update", "connect", "many"} =>
                 Found(a[i - 1].map, o[q[i]]) \cap Present(a[Len(q)].map) \subseteq AnswerOf(o, q, s, i)
<1>0. Len(q) \in Nat /\ i \in Nat
  BY DEF Listed
<1>1. /\ q[i] \in Callers /\ o[q[i]] \in Writes /\ i - 1 \in 0 .. Len(q)
  BY <1>0 DEF Listed
<1>2. a[i - 1].map \in Map /\ a[i] = Applied(a[i - 1], q[i], o[q[i]])
  <2>1. PICK none : none = {}
    OBVIOUS
  <2>2. a = Course(o, q, s, none)
    BY <2>1
  <2>3. /\ a[0] = [map |-> s, sessions |-> none]
        /\ \A j \in 1 .. Len(q) : a[j] = Applied(a[j - 1], q[j], o[q[j]])
    BY <1>0, <2>2, CourseSteps
  <2>4. a[i - 1].map \in Map
    BY <1>1, CourseTyped
  <2> QED BY <2>3, <2>4
<1>3. a[i].map = Effect(a[i - 1].map, q[i], o[q[i]])
  BY <1>1, <1>2, AppliedParts
<1>4. /\ AnswerOf(o, q, s, i) =
            Revalidated(o[q[i]], Outcome(a[i - 1].map, o[q[i]]), a[Len(q)].map)
      /\ NoticeOf(o, q, s, i) =
            Revalidated(o[q[i]], Notice(a[i - 1].map, o[q[i]]), a[Len(q)].map)
  BY DEF AnswerOf, NoticeOf
<1>5. ASSUME NEW n \in (AnswerOf(o, q, s, i) \cup NoticeOf(o, q, s, i)) \ Present(a[Len(q)].map)
      PROVE  \E j \in i .. Len(q) : n \in Present(a[j - 1].map) /\ n \notin Present(a[j].map)
  <2>1. n \in Outcome(a[i - 1].map, o[q[i]]) \cup Notice(a[i - 1].map, o[q[i]])
    BY <1>4, <1>5 DEF Revalidated
  <2>2. n \in Present(a[i - 1].map) \/ n \in Present(a[i].map)
    BY <1>1, <1>2, <1>3, <2>1, NamedWasThere
  <2>3. CASE n \in Present(a[i - 1].map)
    BY <1>0, <1>5, <2>3, TakenOut
  <2>4. CASE n \in Present(a[i].map)
    <3>1. i # Len(q)
      BY <1>5, <2>4
    <3>2. i + 1 \in 1 .. Len(q) /\ (i + 1) - 1 = i
      BY <1>0, <3>1
    <3>3. PICK h : h = i + 1
      OBVIOUS
    <3>4. h \in 1 .. Len(q) /\ n \in Present(a[h - 1].map)
      BY <2>4, <3>2, <3>3
    <3>5. PICK j \in h .. Len(q) : n \in Present(a[j - 1].map) /\ n \notin Present(a[j].map)
      BY <1>0, <1>5, <3>4, TakenOut
    <3>6. j \in i .. Len(q)
      BY <1>0, <3>3
    <3> QED BY <3>5, <3>6
  <2> QED BY <2>2, <2>3, <2>4
<1>6. ASSUME o[q[i]].kind \in {"update", "connect", "many"}
      PROVE  Found(a[i - 1].map, o[q[i]]) \cap Present(a[Len(q)].map) \subseteq AnswerOf(o, q, s, i)
  <2>1. Outcome(a[i - 1].map, o[q[i]]) = Found(a[i - 1].map, o[q[i]])
    BY <1>6 DEF Outcome
  <2> QED BY <1>4, <1>6, <2>1 DEF Revalidated
<1> QED BY <1>5, <1>6

-----------------------------------------------------------------------------
\* The inductive invariant.

\* A caller between calls has no write, one whose write is done has an answer,
\* and a request that was dropped was an update of the last time seen.
Calls ==
    \A c \in Callers :
        /\ pc[c] = "idle" <=> op[c] = None
        /\ answer[c] # None <=> pc[c] \in {"replied", "done"}
        /\ pc[c] = "gone" => op[c].kind = "patch"

\* Whoever is in the queue, in the batch or owed a reply waits for it, or its
\* request was dropped.
Expecting == {c \in Callers : pc[c] \in {"waiting", "gone"}}

Enlisted ==
    /\ \A i \in 1 .. Len(queue) : queue[i] \in Callers => queue[i] \in Expecting
    /\ \A i \in 1 .. Len(batch) : batch[i] \in Expecting
    /\ \A i \in 1 .. Len(replies) : replies[i].to \in Expecting

\* Nobody is on the way twice.
Once ==
    /\ \A i, j \in 1 .. Len(queue) : i # j /\ queue[i] \in Callers => queue[i] # queue[j]
    /\ \A i, j \in 1 .. Len(batch) : i # j => batch[i] # batch[j]
    /\ \A i, j \in 1 .. Len(replies) : i # j => replies[i].to # replies[j].to
    /\ \A i \in 1 .. Len(queue) : \A j \in 1 .. Len(batch) : queue[i] # batch[j]
    /\ \A i \in 1 .. Len(queue) : \A j \in 1 .. Len(replies) : queue[i] # replies[j].to

\* What the worker has in hand in each of its phases.
Phases ==
    /\ worker = "recv" => Len(batch) < BatchSize
    /\ worker = "flush" => batch # <<>>
    /\ worker \notin {"recv", "flush"} => batch = <<>>
    /\ worker = "reply" <=> replies # <<>>
    /\ worker = "dead" => queue = <<>>

\* Sessions are of published nodes, unless a panic lost the map in which
\* their nodes were.
SessionsHere == worker # "dead" => sessions \subseteq Present(store)

Inv == TypeOK /\ Calls /\ Enlisted /\ Once /\ Phases /\ SessionsHere

-----------------------------------------------------------------------------
\* Queues.

LEMMA AppendFacts ==
    ASSUME NEW S, NEW q \in Seq(S), NEW e \in S, NEW r, r = Append(q, e)
    PROVE  /\ r \in Seq(S) /\ Len(r) = Len(q) + 1 /\ r # <<>>
           /\ r[Len(r)] = e /\ \A i \in 1 .. Len(r) : i <= Len(q) => r[i] = q[i]
           /\ Len(q) \in Nat
OBVIOUS

LEMMA TailFacts ==
    ASSUME NEW S, NEW q \in Seq(S), q # <<>>, NEW r, r = Tail(q)
    PROVE  /\ r \in Seq(S) /\ Len(q) \in Nat /\ Len(q) >= 1 /\ Len(r) = Len(q) - 1
           /\ Head(q) = q[1] /\ q[1] \in S
           /\ \A i \in 1 .. Len(r) : r[i] = q[i + 1] /\ i + 1 \in 1 .. Len(q)
           /\ r = <<>> => Len(q) = 1
<1>1. Len(q) \in Nat /\ Len(q) >= 1
  OBVIOUS
<1>2. r \in Seq(S) /\ Len(r) = Len(q) - 1 /\ Head(q) = q[1]
  OBVIOUS
<1>3. q[1] \in S
  BY <1>1
<1>4. \A i \in 1 .. Len(r) : r[i] = q[i + 1] /\ i + 1 \in 1 .. Len(q)
  <2> SUFFICES ASSUME NEW i \in 1 .. Len(r)
               PROVE  r[i] = q[i + 1] /\ i + 1 \in 1 .. Len(q)
    OBVIOUS
  <2>1. i \in 1 .. Len(q) - 1 /\ i + 1 \in 1 .. Len(q)
    BY <1>1, <1>2
  <2> QED BY <2>1
<1>5. r = <<>> => Len(q) = 1
  <2>1. \A t : t = <<>> => Len(t) = 0
    OBVIOUS
  <2>2. r = <<>> => Len(r) = 0
    BY <2>1, Zenon
  <2>3. PICK m, n : m = Len(q) /\ n = Len(r)
    OBVIOUS
  <2>4. m \in Nat /\ n = m - 1 /\ (r = <<>> => n = 0)
    BY <1>1, <1>2, <2>2, <2>3, Zenon
  <2>5. r = <<>> => m = 1
    BY <2>4
  <2> QED BY <2>3, <2>5, Zenon
<1> QED BY <1>1, <1>2, <1>3, <1>4, <1>5

-----------------------------------------------------------------------------
\* The steps of a caller.

LEMMA InitInv == Init => Inv
<1> SUFFICES ASSUME Init PROVE Inv
  OBVIOUS
<1>1. store \in Map
  BY DEF Init, Map
<1>2. queue = <<>> /\ batch = <<>> /\ replies = <<>> /\ Len(<<>>) = 0
  BY DEF Init
<1>3. /\ queue \in Seq(Callers \cup {Wake}) /\ batch \in Seq(Callers)
      /\ replies \in Seq([to : Callers, answer : SUBSET Nodes, notice : SUBSET Nodes])
  BY <1>2
<1>4. TypeOK
  BY <1>1, <1>2, <1>3, BatchSizeAssumption DEF Init, TypeOK
<1>5. Calls
  BY DEF Init, Calls
<1>6. Enlisted /\ Once
  BY <1>2 DEF Enlisted, Once
<1>7. Phases /\ SessionsHere
  BY <1>2, BatchSizeAssumption DEF Init, Phases, SessionsHere
<1> QED BY <1>4, <1>5, <1>6, <1>7 DEF Inv

LEMMA BeginInv ==
    ASSUME Inv, NEW c \in Callers, NEW w \in Writes, Begin(c, w)
    PROVE  Inv'
<1>1. /\ pc[c] = "idle" /\ op' = [op EXCEPT ![c] = w]
      /\ pc' = [pc EXCEPT ![c] = IF installed THEN "cloned" ELSE "direct"]
      /\ UNCHANGED <<store, sessions, answer, installed, queue, batch, worker, replies, handle>>
  BY DEF Begin, workerVars
<1>2. TypeOK'
  BY <1>1 DEF Inv, TypeOK
<1>3. Calls'
  BY <1>1, NoneAssumption DEF Inv, Calls, TypeOK
<1>4. \A d \in Expecting : d \in Expecting'
  BY <1>1 DEF Inv, TypeOK, Expecting
<1>5. Enlisted' /\ Once'
  BY <1>1, <1>4 DEF Inv, Enlisted, Once
<1>6. Phases' /\ SessionsHere'
  BY <1>1 DEF Inv, Phases, SessionsHere
<1> QED BY <1>2, <1>3, <1>5, <1>6 DEF Inv

LEMMA SendInv ==
    ASSUME Inv, NEW c \in Callers, Send(c)
    PROVE  Inv'
<1>1. /\ pc[c] = "cloned"
      /\ IF worker = "dead"
         THEN pc' = [pc EXCEPT ![c] = "direct"] /\ UNCHANGED queue
         ELSE pc' = [pc EXCEPT ![c] = "waiting"] /\ queue' = Append(queue, c)
      /\ UNCHANGED <<store, sessions, op, answer, installed, batch, worker, replies, handle>>
  BY DEF Send
<1>2. Calls'
  BY <1>1 DEF Inv, Calls, TypeOK
<1>3. (\A d \in Expecting : d \in Expecting') /\ c \notin Expecting
  BY <1>1 DEF Inv, TypeOK, Expecting
<1>4. CASE worker = "dead"
  <2>1. TypeOK'
    BY <1>1, <1>4 DEF Inv, TypeOK
  <2>2. Enlisted' /\ Once'
    BY <1>1, <1>3, <1>4 DEF Inv, Enlisted, Once
  <2>3. Phases' /\ SessionsHere'
    BY <1>1, <1>4 DEF Inv, Phases, SessionsHere
  <2> QED BY <1>2, <2>1, <2>2, <2>3 DEF Inv
<1>5. CASE worker # "dead"
  <2>1. /\ queue' \in Seq(Callers \cup {Wake}) /\ Len(queue') = Len(queue) + 1
        /\ queue'[Len(queue')] = c
        /\ \A i \in 1 .. Len(queue') : i <= Len(queue) => queue'[i] = queue[i]
        /\ Len(queue) \in Nat
    <3>1. queue \in Seq(Callers \cup {Wake}) /\ c \in Callers \cup {Wake} /\ queue' = Append(queue, c)
      BY <1>1, <1>5 DEF Inv, TypeOK
    <3> QED BY <3>1, AppendFacts
  <2>2. TypeOK'
    BY <1>1, <1>5, <2>1 DEF Inv, TypeOK
  <2>3. c \in Expecting'
    BY <1>1, <1>5 DEF Inv, TypeOK, Expecting
  <2>4. Enlisted'
    BY <1>1, <1>3, <2>1, <2>3 DEF Inv, Enlisted
  <2>5. /\ \A i \in 1 .. Len(queue) : queue[i] # c
        /\ \A i \in 1 .. Len(batch) : batch[i] # c
        /\ \A i \in 1 .. Len(replies) : replies[i].to # c
    BY <1>3 DEF Inv, Enlisted
  <2>6. \A i \in 1 .. Len(queue') :
           \/ i \in 1 .. Len(queue) /\ queue'[i] = queue[i]
           \/ i = Len(queue') /\ queue'[i] = c
    BY <2>1
  <2>7. Once'
    BY <1>1, <2>5, <2>6 DEF Inv, Once
  <2>8. Phases' /\ SessionsHere'
    BY <1>1, <1>5 DEF Inv, Phases, SessionsHere
  <2> QED BY <1>2, <2>2, <2>4, <2>7, <2>8 DEF Inv
<1> QED BY <1>4, <1>5

\* A caller with a write is a list of one.
LEMMA AloneListed ==
    ASSUME Inv, NEW c \in Callers, pc[c] # "idle"
    PROVE  /\ Listed(op, <<c>>) /\ Len(<<c>>) = 1 /\ <<c>>[1] = c
           /\ op[c] \in Writes
<1>1. op[c] \in Writes
  BY DEF Inv, TypeOK, Calls
<1>2. <<c>> \in Seq(Callers) /\ Len(<<c>>) = 1 /\ <<c>>[1] = c
  OBVIOUS
<1> QED BY <1>1, <1>2 DEF Listed

LEMMA ApplyDirectInv ==
    ASSUME Inv, NEW c \in Callers, ApplyDirect(c)
    PROVE  Inv'
<1>q. PICK q : q = <<c>>
  OBVIOUS
<1>a. PICK a : a = Course(op, q, store, sessions)
  OBVIOUS
<1>b. PICK ns : ns = AnswerOf(op, q, store, 1)
  OBVIOUS
<1>1. /\ pc[c] = "direct" /\ store' = a[1].map /\ sessions' = a[1].sessions
      /\ answer' = [answer EXCEPT ![c] = ns] /\ pc' = [pc EXCEPT ![c] = "done"]
      /\ UNCHANGED <<op, installed, queue, batch, worker, replies, handle>>
  BY <1>q, <1>a, <1>b DEF ApplyDirect, workerVars
<1>2. Listed(op, q) /\ Len(q) = 1 /\ q[1] = c
  BY <1>q, <1>1, AloneListed
<1>3. store \in Map
  BY DEF Inv, TypeOK
<1>4. a[1].map \in Map /\ a[1].sessions \subseteq Present(a[1].map)
  BY <1>a, <1>2, <1>3, CourseTyped
<1>5. ns \subseteq Nodes /\ ns # None
  <2>1. ns \subseteq Nodes
    BY <1>b, <1>2, <1>3, AnswersKnown
  <2> QED BY <2>1, NoneAssumption
<1>6. a[1].sessions \subseteq Nodes
  BY <1>4, PresentKnown
<1>7. TypeOK'
  BY <1>1, <1>4, <1>5, <1>6 DEF Inv, TypeOK
<1>8. Calls'
  BY <1>1, <1>5 DEF Inv, Calls, TypeOK
<1>9. \A d \in Expecting : d \in Expecting'
  BY <1>1 DEF Inv, TypeOK, Expecting
<1>10. Enlisted' /\ Once'
  BY <1>1, <1>9 DEF Inv, Enlisted, Once
<1>11. Phases' /\ SessionsHere'
  BY <1>1, <1>4 DEF Inv, Phases, SessionsHere
<1> QED BY <1>7, <1>8, <1>10, <1>11 DEF Inv

LEMMA LoseReplyInv ==
    ASSUME Inv, NEW c \in Callers, LoseReply(c)
    PROVE  Inv'
<1>1. /\ pc[c] = "waiting" /\ worker = "dead"
      /\ \/ pc' = [pc EXCEPT ![c] = "done"] /\ answer' = [answer EXCEPT ![c] = {}]
         \/ pc' = [pc EXCEPT ![c] = "direct"] /\ answer' = answer
      /\ UNCHANGED <<store, sessions, op, installed, queue, batch, worker, replies, handle>>
  BY DEF LoseReply, workerVars
<1>2. {} # None
  BY NoneAssumption
<1>3. TypeOK'
  BY <1>1 DEF Inv, TypeOK
<1>4. Calls'
  BY <1>1, <1>2 DEF Inv, Calls, TypeOK
<1>5. queue = <<>> /\ batch = <<>> /\ replies = <<>> /\ Len(<<>>) = 0
  BY <1>1 DEF Inv, Phases
<1>6. queue' = <<>> /\ batch' = <<>> /\ replies' = <<>>
  BY <1>1, <1>5
<1>7. Enlisted' /\ Once'
  BY <1>5, <1>6 DEF Enlisted, Once
<1>8. Phases' /\ SessionsHere'
  BY <1>1 DEF Inv, Phases, SessionsHere
<1> QED BY <1>3, <1>4, <1>7, <1>8 DEF Inv

LEMMA CancelInv ==
    ASSUME Inv, NEW c \in Callers, Cancel(c)
    PROVE  Inv'
<1>1. /\ pc[c] = "waiting" /\ op[c].kind = "patch" /\ pc' = [pc EXCEPT ![c] = "gone"]
      /\ UNCHANGED <<store, sessions, op, answer, installed, queue, batch, worker, replies, handle>>
  BY DEF Cancel, workerVars
<1>2. TypeOK'
  BY <1>1 DEF Inv, TypeOK
<1>3. Calls'
  BY <1>1 DEF Inv, Calls, TypeOK
<1>4. \A d \in Expecting : d \in Expecting'
  BY <1>1 DEF Inv, TypeOK, Expecting
<1>5. Enlisted' /\ Once'
  BY <1>1, <1>4 DEF Inv, Enlisted, Once
<1>6. Phases' /\ SessionsHere'
  BY <1>1 DEF Inv, Phases, SessionsHere
<1> QED BY <1>2, <1>3, <1>5, <1>6 DEF Inv

LEMMA ResumeInv ==
    ASSUME Inv, NEW c \in Callers, Resume(c)
    PROVE  Inv'
<1>1. /\ pc[c] \in {"replied", "done"} /\ pc' = [pc EXCEPT ![c] = "idle"]
      /\ op' = [op EXCEPT ![c] = None] /\ answer' = [answer EXCEPT ![c] = None]
      /\ UNCHANGED <<store, sessions, installed, queue, batch, worker, replies, handle>>
  BY DEF Resume, workerVars
<1>2. TypeOK'
  BY <1>1 DEF Inv, TypeOK
<1>3. Calls'
  BY <1>1 DEF Inv, Calls, TypeOK
<1>4. \A d \in Expecting : d \in Expecting'
  BY <1>1 DEF Inv, TypeOK, Expecting
<1>5. Enlisted' /\ Once'
  BY <1>1, <1>4 DEF Inv, Enlisted, Once
<1>6. Phases' /\ SessionsHere'
  BY <1>1 DEF Inv, Phases, SessionsHere
<1> QED BY <1>2, <1>3, <1>5, <1>6 DEF Inv

LEMMA ForgetInv ==
    ASSUME Inv, NEW c \in Callers, Forget(c)
    PROVE  Inv'
<1>1. /\ pc[c] = "gone" /\ worker = "dead" /\ pc' = [pc EXCEPT ![c] = "idle"]
      /\ op' = [op EXCEPT ![c] = None]
      /\ UNCHANGED <<store, sessions, answer, installed, queue, batch, worker, replies, handle>>
  BY DEF Forget, workerVars
<1>2. TypeOK'
  BY <1>1 DEF Inv, TypeOK
<1>3. Calls'
  BY <1>1 DEF Inv, Calls, TypeOK
<1>4. queue = <<>> /\ batch = <<>> /\ replies = <<>> /\ Len(<<>>) = 0
  BY <1>1 DEF Inv, Phases
<1>5. queue' = <<>> /\ batch' = <<>> /\ replies' = <<>>
  BY <1>1, <1>4
<1>6. Enlisted' /\ Once'
  BY <1>4, <1>5 DEF Enlisted, Once
<1>7. Phases' /\ SessionsHere'
  BY <1>1 DEF Inv, Phases, SessionsHere
<1> QED BY <1>2, <1>3, <1>6, <1>7 DEF Inv

-----------------------------------------------------------------------------
\* The steps of the worker.

LEMMA ReceiveInv ==
    ASSUME Inv, Receive
    PROVE  Inv'
<1>1. /\ worker = "recv" /\ queue # <<>> /\ queue' = Tail(queue)
      /\ batch' = IF Head(queue) = Wake THEN batch ELSE Append(batch, Head(queue))
      /\ worker' = IF batch' # <<>> /\ (Head(queue) = Wake \/ Len(batch') >= BatchSize \/ Stopping)
                   THEN "flush" ELSE "recv"
      /\ UNCHANGED <<store, sessions, op, pc, answer, installed, replies, handle>>
  BY DEF Receive, FlushDue, callerVars
<1>2. queue \in Seq(Callers \cup {Wake}) /\ batch \in Seq(Callers) /\ Len(batch) \in Nat
  BY DEF Inv, TypeOK
<1>3. /\ queue' \in Seq(Callers \cup {Wake}) /\ Len(queue) \in Nat /\ Len(queue) >= 1
      /\ Len(queue') = Len(queue) - 1 /\ Head(queue) = queue[1] /\ queue[1] \in Callers \cup {Wake}
      /\ \A i \in 1 .. Len(queue') : queue'[i] = queue[i + 1] /\ i + 1 \in 1 .. Len(queue)
  BY <1>1, <1>2, TailFacts
<1>4. Expecting' = Expecting
  BY <1>1 DEF Expecting
<1>5. Len(batch) < BatchSize /\ BatchSize \in Nat /\ replies = <<>> /\ Len(<<>>) = 0
  BY <1>1, BatchSizeAssumption DEF Inv, Phases
<1>6. Calls'
  BY <1>1 DEF Inv, Calls
<1>7. SessionsHere'
  BY <1>1 DEF Inv, SessionsHere
<1>8. CASE queue[1] = Wake
  <2>1. batch' = batch
    BY <1>1, <1>3, <1>8
  <2>2. TypeOK'
    BY <1>1, <1>3, <2>1 DEF Inv, TypeOK
  <2>3. Enlisted'
    BY <1>1, <1>3, <1>4, <2>1 DEF Inv, Enlisted
  <2>4. Once'
    <3>1. \A i, j \in 1 .. Len(queue') : i # j /\ queue'[i] \in Callers => queue'[i] # queue'[j]
      BY <1>3 DEF Inv, Once
    <3>2. \A i \in 1 .. Len(queue') : \A j \in 1 .. Len(batch') : queue'[i] # batch'[j]
      BY <1>3, <2>1 DEF Inv, Once
    <3> QED BY <1>1, <1>5, <2>1, <3>1, <3>2 DEF Inv, Once
  <2>5. Phases'
    BY <1>1, <1>5, <2>1 DEF Inv, Phases
  <2> QED BY <1>6, <1>7, <2>2, <2>3, <2>4, <2>5 DEF Inv
<1>9. CASE queue[1] # Wake
  <2>0. queue[1] \in Callers /\ batch' = Append(batch, queue[1])
    BY <1>1, <1>3, <1>9
  <2>1. /\ batch' \in Seq(Callers) /\ Len(batch') = Len(batch) + 1 /\ batch' # <<>>
        /\ batch'[Len(batch')] = queue[1]
        /\ \A i \in 1 .. Len(batch') : i <= Len(batch) => batch'[i] = batch[i]
    BY <1>2, <2>0, AppendFacts
  <2>2. TypeOK'
    BY <1>1, <1>3, <1>5, <2>1 DEF Inv, TypeOK
  <2>3. \A i \in 1 .. Len(batch') : \/ i \in 1 .. Len(batch) /\ batch'[i] = batch[i]
                                    \/ i = Len(batch') /\ batch'[i] = queue[1]
    BY <1>2, <2>1
  <2>4. 1 \in 1 .. Len(queue) /\ \A i \in 1 .. Len(queue') : i + 1 # 1
    BY <1>3
  <2>5. Enlisted'
    BY <1>1, <1>3, <1>4, <2>0, <2>3, <2>4 DEF Inv, Enlisted
  <2>6. Once'
    <3>1. \A i, j \in 1 .. Len(queue') : i # j /\ queue'[i] \in Callers => queue'[i] # queue'[j]
      BY <1>3 DEF Inv, Once
    <3>2. \A i \in 1 .. Len(queue') : queue'[i] # queue[1]
      BY <1>3, <2>0, <2>4 DEF Inv, Once
    <3>3. \A i \in 1 .. Len(queue') : \A j \in 1 .. Len(batch') : queue'[i] # batch'[j]
      BY <1>3, <2>3, <3>2 DEF Inv, Once
    <3>4. \A j \in 1 .. Len(batch) : batch[j] # queue[1]
      BY <2>4 DEF Inv, Once
    <3>5. \A i, j \in 1 .. Len(batch') : i # j => batch'[i] # batch'[j]
      BY <2>3, <3>4 DEF Inv, Once
    <3> QED BY <1>1, <1>5, <3>1, <3>3, <3>5 DEF Once
  <2>7. Phases'
    BY <1>1, <1>2, <1>3, <1>5, <1>9, <2>1 DEF Inv, Phases, TypeOK
  <2> QED BY <1>6, <1>7, <2>2, <2>5, <2>6, <2>7 DEF Inv
<1> QED BY <1>8, <1>9

\* The ticker and the end of the senders change the phase alone.
LEMMA PhaseInv ==
    ASSUME Inv, Tick \/ Disconnect
    PROVE  Inv'
<1>1. /\ worker = "recv" /\ worker' = (IF batch # <<>> THEN "flush" ELSE "exited")
      /\ UNCHANGED <<store, sessions, op, pc, answer, installed, queue, batch, replies, handle>>
  BY DEF Tick, Disconnect, callerVars
<1>2. TypeOK'
  BY <1>1 DEF Inv, TypeOK
<1>3. Calls' /\ Enlisted' /\ Once'
  BY <1>1 DEF Inv, Calls, Enlisted, Once, Expecting
<1>4. Phases' /\ SessionsHere'
  BY <1>1 DEF Inv, Phases, SessionsHere
<1> QED BY <1>2, <1>3, <1>4 DEF Inv

\* The completions of a batch.
Completion == [to : Callers, answer : SUBSET Nodes, notice : SUBSET Nodes]

\* An open batch is a list of writes.
LEMMA BatchListed ==
    ASSUME Inv
    PROVE  Listed(op, batch)
<1>1. batch \in Seq(Callers)
  BY DEF Inv, TypeOK
<1>2. ASSUME NEW i \in 1 .. Len(batch)
      PROVE  op[batch[i]] \in Writes
  <2>1. batch[i] \in Expecting
    BY DEF Inv, Enlisted
  <2> QED BY <2>1 DEF Inv, Calls, TypeOK, Expecting
<1> QED BY <1>1, <1>2 DEF Listed

\* apply_nodestore_write_batch leaves the map that its writes lead to, published or
\* not, and a completion for each of them.
LEMMA ApplyBatchEffect ==
    ASSUME Inv, ApplyBatch
    PROVE  /\ worker = "flush" /\ worker' = "reply" /\ batch' = <<>>
           /\ Len(batch) \in Nat \ {0}
           /\ store' = MapAfter(op, batch, store) /\ store' \in Map
           /\ sessions' = Course(op, batch, store, sessions)[Len(batch)].sessions
           /\ sessions' \subseteq Present(store')
           /\ replies' \in Seq(Completion) /\ Len(replies') = Len(batch)
           /\ \A i \in 1 .. Len(batch) :
                 /\ replies'[i].to = batch[i]
                 /\ replies'[i].answer = AnswerOf(op, batch, store, i)
                 /\ replies'[i].notice = NoticeOf(op, batch, store, i)
           /\ replies = <<>>
           /\ UNCHANGED <<op, pc, answer, installed, queue, handle>>
<1>a. PICK a : a = Course(op, batch, store, sessions)
  OBVIOUS
<1>1. /\ worker = "flush"
      /\ store' = (IF Published(batch) THEN a[Len(batch)].map ELSE store)
      /\ sessions' = a[Len(batch)].sessions
      /\ replies' = [i \in DOMAIN batch |->
                        [to |-> batch[i],
                         answer |-> AnswerOf(op, batch, store, i),
                         notice |-> NoticeOf(op, batch, store, i)]]
      /\ batch' = <<>> /\ worker' = "reply"
      /\ UNCHANGED <<op, pc, answer, installed, queue, handle>>
  BY <1>a DEF ApplyBatch, callerVars
<1>2. /\ store \in Map /\ batch \in Seq(Callers) /\ batch # <<>> /\ replies = <<>>
      /\ Len(batch) \in Nat \ {0} /\ DOMAIN batch = 1 .. Len(batch)
  <2>1. store \in Map /\ batch \in Seq(Callers) /\ batch # <<>> /\ replies = <<>>
    BY <1>1 DEF Inv, TypeOK, Phases
  <2> QED BY <2>1
<1>3. Listed(op, batch)
  BY BatchListed
<1>4. Len(batch) \in 0 .. Len(batch) /\ Len(batch) # 0
  BY <1>2
<1>5. /\ a[Len(batch)].map \in Map
      /\ a[Len(batch)].map = MapAfter(op, batch, store)
      /\ a[Len(batch)].sessions \subseteq Present(a[Len(batch)].map)
  BY <1>a, <1>2, <1>3, <1>4, CourseTyped DEF MapAfter
<1>6. ~Published(batch) => a[Len(batch)].map = store
  <2> SUFFICES ASSUME ~Published(batch)
               PROVE  a[Len(batch)].map = store
    OBVIOUS
  <2>1. \A i \in 1 .. Len(batch) : ~Publishes(a[i - 1].map, op[batch[i]])
    BY <1>a, <1>2 DEF Published
  <2> QED BY <1>a, <1>2, <1>3, <1>4, <2>1, CourseUnpublished
<1>7. store' = a[Len(batch)].map
  BY <1>1, <1>6
<1>8. ASSUME NEW i \in 1 .. Len(batch)
      PROVE  /\ replies'[i] \in Completion
             /\ replies'[i].to = batch[i]
             /\ replies'[i].answer = AnswerOf(op, batch, store, i)
             /\ replies'[i].notice = NoticeOf(op, batch, store, i)
  <2>1. /\ AnswerOf(op, batch, store, i) \subseteq Nodes /\ NoticeOf(op, batch, store, i) \subseteq Nodes
        /\ batch[i] \in Callers
    BY <1>2, <1>3, AnswersKnown
  <2> QED BY <1>1, <1>2, <2>1 DEF Completion
<1>9. replies' \in [1 .. Len(batch) -> Completion]
  BY <1>1, <1>2, <1>8
<1>10. replies' \in Seq(Completion) /\ Len(replies') = Len(batch)
  BY <1>2, <1>9
<1> QED BY <1>1, <1>2, <1>a, <1>5, <1>7, <1>8, <1>10

LEMMA ApplyBatchInv ==
    ASSUME Inv, ApplyBatch
    PROVE  Inv'
<1>1. /\ worker = "flush" /\ worker' = "reply" /\ batch' = <<>>
      /\ Len(batch) \in Nat \ {0}
      /\ store' \in Map /\ sessions' \subseteq Present(store')
      /\ replies' \in Seq(Completion) /\ Len(replies') = Len(batch)
      /\ \A i \in 1 .. Len(batch) : replies'[i].to = batch[i]
      /\ UNCHANGED <<op, pc, answer, installed, queue, handle>>
  BY ApplyBatchEffect
<1>2. batch' \in Seq(Callers) /\ Len(batch') = 0
  BY <1>1
<1>3. sessions' \subseteq Nodes
  BY <1>1, PresentKnown
<1>4. TypeOK'
  BY <1>1, <1>2, <1>3, BatchSizeAssumption DEF Inv, TypeOK, Completion
<1>5. Calls'
  BY <1>1 DEF Inv, Calls
<1>6. Enlisted'
  BY <1>1, <1>2 DEF Inv, Enlisted, Expecting
<1>7. Once'
  BY <1>1, <1>2 DEF Inv, Once
<1>8. replies' # <<>>
  <2>1. Len(<<>>) = 0
    OBVIOUS
  <2> QED BY <1>1, <2>1
<1>9. Phases' /\ SessionsHere'
  BY <1>1, <1>8 DEF Inv, Phases, SessionsHere
<1> QED BY <1>4, <1>5, <1>6, <1>7, <1>9 DEF Inv

\* The first completion is sent.
LEMMA ReplyEffect ==
    ASSUME Inv, Reply, NEW r, r = replies[1]
    PROVE  /\ worker = "reply" /\ worker' = IF replies' = <<>> THEN "recv" ELSE "reply"
           /\ r \in Completion /\ r.to \in Expecting
           /\ IF pc[r.to] = "gone"
              THEN /\ pc' = [pc EXCEPT ![r.to] = "idle"] /\ op' = [op EXCEPT ![r.to] = None]
                   /\ answer' = answer
              ELSE /\ pc' = [pc EXCEPT ![r.to] = "replied"] /\ op' = op
                   /\ answer' = [answer EXCEPT ![r.to] = r.answer]
           /\ replies' \in Seq(Completion) /\ Len(replies) \in Nat /\ Len(replies) >= 1
           /\ Len(replies') = Len(replies) - 1
           /\ \A i \in 1 .. Len(replies') : /\ replies'[i] = replies[i + 1]
                                            /\ i + 1 \in 1 .. Len(replies)
           /\ UNCHANGED <<store, sessions, installed, queue, batch, handle>>
<1>1. /\ worker = "reply" /\ replies' = Tail(replies)
      /\ worker' = (IF Tail(replies) = <<>> THEN "recv" ELSE "reply")
      /\ UNCHANGED <<store, sessions, installed, queue, batch, handle>>
  BY DEF Reply
<1>2. replies \in Seq(Completion) /\ replies # <<>>
  BY <1>1 DEF Inv, TypeOK, Phases, Completion
<1>3. /\ replies' \in Seq(Completion) /\ Len(replies) \in Nat /\ Len(replies) >= 1
      /\ Len(replies') = Len(replies) - 1 /\ Head(replies) = replies[1] /\ replies[1] \in Completion
      /\ \A i \in 1 .. Len(replies') : replies'[i] = replies[i + 1] /\ i + 1 \in 1 .. Len(replies)
  BY <1>1, <1>2, TailFacts
<1>4. r.to \in Expecting
  BY <1>3 DEF Inv, Enlisted
<1>5. IF pc[r.to] = "gone"
      THEN /\ pc' = [pc EXCEPT ![r.to] = "idle"] /\ op' = [op EXCEPT ![r.to] = None]
           /\ answer' = answer
      ELSE /\ pc' = [pc EXCEPT ![r.to] = "replied"] /\ op' = op
           /\ answer' = [answer EXCEPT ![r.to] = r.answer]
  <2>1. r = Head(replies)
    BY <1>3
  <2> QED BY <2>1 DEF Reply
<1> QED BY <1>1, <1>3, <1>4, <1>5

LEMMA ReplyInv ==
    ASSUME Inv, Reply
    PROVE  Inv'
<1>r. PICK r : r = replies[1]
  OBVIOUS
<1>1. /\ worker = "reply" /\ worker' = IF replies' = <<>> THEN "recv" ELSE "reply"
      /\ r \in Completion /\ r.to \in Expecting
      /\ IF pc[r.to] = "gone"
         THEN /\ pc' = [pc EXCEPT ![r.to] = "idle"] /\ op' = [op EXCEPT ![r.to] = None]
              /\ answer' = answer
         ELSE /\ pc' = [pc EXCEPT ![r.to] = "replied"] /\ op' = op
              /\ answer' = [answer EXCEPT ![r.to] = r.answer]
      /\ replies' \in Seq(Completion) /\ Len(replies) \in Nat /\ Len(replies) >= 1
      /\ Len(replies') = Len(replies) - 1
      /\ \A i \in 1 .. Len(replies') : replies'[i] = replies[i + 1] /\ i + 1 \in 1 .. Len(replies)
      /\ UNCHANGED <<store, sessions, installed, queue, batch, handle>>
  BY <1>r, ReplyEffect
<1>2. r.to \in Callers /\ pc[r.to] \in {"waiting", "gone"} /\ r.answer \subseteq Nodes /\ r.answer # None
  BY <1>1, NoneAssumption DEF Expecting, Completion
<1>3. TypeOK'
  BY <1>1, <1>2 DEF Inv, TypeOK, Completion
<1>4. Calls'
  BY <1>1, <1>2 DEF Inv, Calls, TypeOK
<1>5. \A d \in Expecting : d # r.to => d \in Expecting'
  BY <1>1, <1>2 DEF Inv, TypeOK, Expecting
<1>6. 1 \in 1 .. Len(replies) /\ \A i \in 1 .. Len(replies') : i + 1 # 1
  BY <1>1
<1>7. batch = <<>> /\ Len(<<>>) = 0
  BY <1>1 DEF Inv, Phases
<1>8. /\ \A i \in 1 .. Len(queue) : queue[i] # r.to
      /\ \A i \in 1 .. Len(replies') : replies'[i].to # r.to
  BY <1>r, <1>1, <1>6 DEF Inv, Once
<1>9. Enlisted'
  <2>1. \A i \in 1 .. Len(queue) : queue[i] \in Callers => queue[i] \in Expecting'
    BY <1>5, <1>8 DEF Inv, Enlisted
  <2>2. \A i \in 1 .. Len(replies') : replies'[i].to \in Expecting'
    BY <1>1, <1>5, <1>8 DEF Inv, Enlisted
  <2>3. Len(batch') = 0 /\ queue' = queue
    BY <1>1, <1>7
  <2> QED BY <2>1, <2>2, <2>3 DEF Enlisted
<1>10. Once'
  <2>1. \A i, j \in 1 .. Len(replies') : i # j => replies'[i].to # replies'[j].to
    BY <1>1 DEF Inv, Once
  <2>2. \A i \in 1 .. Len(queue) : \A j \in 1 .. Len(replies') : queue[i] # replies'[j].to
    BY <1>1 DEF Inv, Once
  <2> QED BY <1>1, <1>7, <2>1, <2>2 DEF Inv, Once
<1>11. Phases'
  BY <1>1, <1>7, BatchSizeAssumption DEF Inv, Phases
<1>12. SessionsHere'
  BY <1>1 DEF Inv, SessionsHere
<1> QED BY <1>3, <1>4, <1>9, <1>10, <1>11, <1>12 DEF Inv

LEMMA PanicInv ==
    ASSUME Inv, Panic
    PROVE  Inv'
<1>a. PICK a : a = Course(op, batch, store, sessions)
  OBVIOUS
<1>1. /\ worker = "flush" /\ worker' = "dead" /\ queue' = <<>> /\ batch' = <<>>
      /\ \E i \in 0 .. Len(batch) - 1 : sessions' = a[i].sessions
      /\ UNCHANGED <<store, op, pc, answer, installed, replies, handle>>
  BY <1>a DEF Panic, callerVars
<1>2. /\ store \in Map /\ Len(batch) \in Nat /\ sessions \subseteq Nodes
      /\ replies = <<>> /\ Len(<<>>) = 0
  BY <1>1 DEF Inv, TypeOK, Phases
<1>3. Listed(op, batch)
  BY BatchListed
<1>4. sessions' \subseteq Nodes
  <2>1. PICK i \in 0 .. Len(batch) - 1 : sessions' = a[i].sessions
    BY <1>1
  <2>2. i \in 0 .. Len(batch)
    BY <1>2
  <2>3. CASE i = 0
    <3>1. a[0] = [map |-> store, sessions |-> sessions]
      BY <1>a, <1>2, CourseSteps
    <3> QED BY <1>2, <2>1, <2>3, <3>1
  <2>4. CASE i # 0
    <3>1. a[i].sessions \subseteq Present(a[i].map) /\ a[i].map \in Map
      BY <1>a, <1>2, <1>3, <2>2, <2>4, CourseTyped
    <3> QED BY <2>1, <3>1, PresentKnown
  <2> QED BY <2>3, <2>4
<1>5. /\ queue' \in Seq(Callers \cup {Wake}) /\ batch' \in Seq(Callers)
      /\ Len(batch') = 0
  BY <1>1
<1>6. TypeOK'
  BY <1>1, <1>4, <1>5, BatchSizeAssumption DEF Inv, TypeOK
<1>7. Calls'
  BY <1>1 DEF Inv, Calls
<1>8. Enlisted' /\ Once'
  <2>1. queue' = <<>> /\ batch' = <<>> /\ replies' = <<>>
    BY <1>1, <1>2
  <2> QED BY <1>2, <2>1 DEF Enlisted, Once
<1>9. Phases' /\ SessionsHere'
  BY <1>1, <1>2 DEF Phases, SessionsHere
<1> QED BY <1>6, <1>7, <1>8, <1>9 DEF Inv

-----------------------------------------------------------------------------
\* The steps of the drop.

LEMMA SendWakeInv ==
    ASSUME Inv, SendWake
    PROVE  Inv'
<1>1. /\ handle' = "woken"
      /\ queue' = (IF worker = "dead" THEN queue ELSE Append(queue, Wake))
      /\ UNCHANGED <<store, sessions, op, pc, answer, installed, batch, worker, replies>>
  BY DEF SendWake, callerVars
<1>2. Calls' /\ SessionsHere' /\ Expecting' = Expecting
  BY <1>1 DEF Inv, Calls, SessionsHere, Expecting
<1>3. CASE worker = "dead"
  <2>1. TypeOK' /\ Phases'
    BY <1>1, <1>3 DEF Inv, TypeOK, Phases
  <2>2. Enlisted' /\ Once'
    BY <1>1, <1>2, <1>3 DEF Inv, Enlisted, Once
  <2> QED BY <1>2, <2>1, <2>2 DEF Inv
<1>4. CASE worker # "dead"
  <2>1. queue \in Seq(Callers \cup {Wake}) /\ Wake \in Callers \cup {Wake} /\ queue' = Append(queue, Wake)
    BY <1>1, <1>4 DEF Inv, TypeOK
  <2>2. /\ queue' \in Seq(Callers \cup {Wake}) /\ Len(queue') = Len(queue) + 1
        /\ queue'[Len(queue')] = Wake
        /\ \A i \in 1 .. Len(queue') : i <= Len(queue) => queue'[i] = queue[i]
        /\ Len(queue) \in Nat
    BY <2>1, AppendFacts
  <2>3. TypeOK'
    BY <1>1, <2>2 DEF Inv, TypeOK
  <2>4. \A i \in 1 .. Len(queue') : \/ i \in 1 .. Len(queue) /\ queue'[i] = queue[i]
                                    \/ i = Len(queue') /\ queue'[i] = Wake
    BY <2>2
  <2>5. Enlisted'
    BY <1>1, <1>2, <2>4, WakeAssumption DEF Inv, Enlisted
  <2>6. \A i \in 1 .. Len(batch) : batch[i] \in Callers
    BY DEF Inv, Enlisted, Expecting
  <2>7. \A i \in 1 .. Len(replies) : replies[i].to \in Callers
    BY DEF Inv, Enlisted, Expecting
  <2>8. Once'
    BY <1>1, <2>4, <2>6, <2>7, WakeAssumption DEF Inv, Once
  <2>9. Phases'
    BY <1>1, <1>4 DEF Inv, Phases
  <2> QED BY <1>2, <2>3, <2>5, <2>8, <2>9 DEF Inv
<1> QED BY <1>3, <1>4

LEMMA HandleInv ==
    ASSUME Inv, Stop \/ Retire \/ Join
    PROVE  Inv'
<1>1. /\ handle' \in {"flagged", "joining", "dropped"} /\ installed' \in BOOLEAN
      /\ UNCHANGED <<store, sessions, op, pc, answer, queue, batch, worker, replies>>
  BY DEF Stop, Retire, Join, callerVars, workerVars, Inv, TypeOK
<1>2. TypeOK'
  BY <1>1 DEF Inv, TypeOK
<1>3. Calls' /\ Enlisted' /\ Once'
  BY <1>1 DEF Inv, Calls, Enlisted, Once, Expecting
<1>4. Phases' /\ SessionsHere'
  BY <1>1 DEF Inv, Phases, SessionsHere
<1> QED BY <1>2, <1>3, <1>4 DEF Inv

-----------------------------------------------------------------------------

LEMMA StutterInv ==
    ASSUME Inv, UNCHANGED vars
    PROVE  Inv'
BY DEF vars, callerVars, workerVars, Inv, TypeOK, Calls, Enlisted, Once, Phases, SessionsHere,
       Expecting

LEMMA NextInv ==
    ASSUME Inv, [Next]_vars
    PROVE  Inv'
<1>1. ASSUME NEW c \in Callers, CallerStep(c)
      PROVE  Inv'
  BY <1>1, BeginInv, SendInv, ApplyDirectInv, LoseReplyInv, CancelInv, ResumeInv, ForgetInv
     DEF CallerStep
<1>2. CASE WorkerStep
  BY <1>2, ReceiveInv, PhaseInv, ApplyBatchInv, ReplyInv, PanicInv DEF WorkerStep
<1>3. CASE DropStep
  BY <1>3, SendWakeInv, HandleInv DEF DropStep
<1> QED BY <1>1, <1>2, <1>3, StutterInv DEF Next

\* The write path keeps its invariant.
THEOREM Invariance == Spec => []Inv
<1>1. Inv /\ [Next]_vars => Inv'
  BY NextInv
<1> QED BY InitInv, <1>1, PTL DEF Spec

\* The write path keeps its types, whatever callers, keys and nodes there are
\* and however large a batch is: the batch never outgrows its size and holds no
\* wake-up (run_nodestore_write_worker).
THEOREM TypeCorrect == Spec => []TypeOK
<1>1. Inv => TypeOK
  BY DEF Inv
<1> QED BY Invariance, <1>1, PTL

-----------------------------------------------------------------------------
\* What a batch tells, and whose sessions it leaves.

\* apply_nodestore_write_batch: for every batch, whoever is told of a node that
\* the published map does not have was told so by a put, a delete, a patch or
\* a route approval, and it or a later write of the batch took the node out;
\* the other updates report exactly the nodes they found that are left; and
\* what a write did to a key is lost to later writes of its batch alone.
THEOREM BatchToldTrue == Spec => ToldIsTrue
<1> DEFINE A == ApplyBatch => \A i \in DOMAIN batch :
                   LET w == op[batch[i]]
                       After(j) == MapAfter(op, SubSeq(batch, 1, j), store)
                       told == replies'[i].answer \cup replies'[i].notice
                   IN  /\ NeedsPresence(w) /\ w.kind # "approve" => told \subseteq Present(store')
                       /\ w.kind \in {"update", "connect", "many"} =>
                             Found(After(i - 1), w) \cap Present(store') \subseteq replies'[i].answer
                       /\ \A n \in told \ Present(store') : \E j \in i .. Len(batch) :
                             n \in Present(After(j - 1)) /\ n \notin Present(After(j))
                       /\ \A k \in Keys : k \in w.keys \cup {w.to} /\ store'[k] # None =>
                             store'[k].by \in {batch[j] : j \in i .. Len(batch)}
<1>1. ASSUME Inv, [Next]_vars
      PROVE  A
  <2> SUFFICES ASSUME ApplyBatch, NEW i \in DOMAIN batch
               PROVE  LET w == op[batch[i]]
                          After(j) == MapAfter(op, SubSeq(batch, 1, j), store)
                          told == replies'[i].answer \cup replies'[i].notice
                      IN  /\ NeedsPresence(w) /\ w.kind # "approve" => told \subseteq Present(store')
                          /\ w.kind \in {"update", "connect", "many"} =>
                                Found(After(i - 1), w) \cap Present(store') \subseteq replies'[i].answer
                          /\ \A n \in told \ Present(store') : \E j \in i .. Len(batch) :
                                n \in Present(After(j - 1)) /\ n \notin Present(After(j))
                          /\ \A k \in Keys : k \in w.keys \cup {w.to} /\ store'[k] # None =>
                                store'[k].by \in {batch[j] : j \in i .. Len(batch)}
    OBVIOUS
  <2>a. PICK a : a = Course(op, batch, store, {})
    OBVIOUS
  <2>1. Listed(op, batch) /\ store \in Map /\ batch \in Seq(Callers)
    BY <1>1, BatchListed DEF Inv, TypeOK
  <2>2. /\ Len(batch) \in Nat /\ store' = a[Len(batch)].map
        /\ \A j \in 1 .. Len(batch) :
              /\ replies'[j].answer = AnswerOf(op, batch, store, j)
              /\ replies'[j].notice = NoticeOf(op, batch, store, j)
    BY <1>1, <2>a, ApplyBatchEffect DEF MapAfter
  <2>3. i \in 1 .. Len(batch) /\ i - 1 \in 0 .. Len(batch)
    BY <2>1, <2>2
  <2>4. \A j \in 0 .. Len(batch) : MapAfter(op, SubSeq(batch, 1, j), store) = a[j].map
    BY <2>a, <2>1, PrefixMap
  <2>5. NeedsPresence(op[batch[i]]) /\ op[batch[i]].kind # "approve" =>
           replies'[i].answer \cup replies'[i].notice \subseteq Present(store')
    <3>1. MapAfter(op, batch, store) = store'
      BY <2>a, <2>2 DEF MapAfter
    <3> QED BY <2>1, <2>2, <2>3, <3>1, AnswersKnown
  <2>6. /\ \A n \in (replies'[i].answer \cup replies'[i].notice) \ Present(store') :
              \E j \in i .. Len(batch) : n \in Present(a[j - 1].map) /\ n \notin Present(a[j].map)
        /\ op[batch[i]].kind \in {"update", "connect", "many"} =>
              Found(a[i - 1].map, op[batch[i]]) \cap Present(store') \subseteq replies'[i].answer
    <3>1. /\ \A n \in (AnswerOf(op, batch, store, i) \cup NoticeOf(op, batch, store, i))
                           \ Present(a[Len(batch)].map) :
                \E j \in i .. Len(batch) : n \in Present(a[j - 1].map) /\ n \notin Present(a[j].map)
          /\ op[batch[i]].kind \in {"update", "connect", "many"} =>
                Found(a[i - 1].map, op[batch[i]]) \cap Present(a[Len(batch)].map)
                    \subseteq AnswerOf(op, batch, store, i)
      BY <2>a, <2>1, <2>3, AnswersTraced
    <3> QED BY <2>2, <2>3, <3>1
  <2>7. \A k \in Keys : k \in op[batch[i]].keys \cup {op[batch[i]].to} /\ store'[k] # None =>
           store'[k].by \in {batch[j] : j \in i .. Len(batch)}
    BY <2>a, <2>1, <2>2, <2>3, LastWriter
  <2>8. \A n \in (replies'[i].answer \cup replies'[i].notice) \ Present(store') :
           \E j \in i .. Len(batch) :
              /\ n \in Present(MapAfter(op, SubSeq(batch, 1, j - 1), store))
              /\ n \notin Present(MapAfter(op, SubSeq(batch, 1, j), store))
    <3>1. \A j \in i .. Len(batch) : j \in 0 .. Len(batch) /\ j - 1 \in 0 .. Len(batch)
      BY <2>2, <2>3
    <3> QED BY <2>4, <2>6, <3>1
  <2>9. op[batch[i]].kind \in {"update", "connect", "many"} =>
           Found(MapAfter(op, SubSeq(batch, 1, i - 1), store), op[batch[i]]) \cap Present(store')
               \subseteq replies'[i].answer
    BY <2>3, <2>4, <2>6
  <2> QED BY <2>5, <2>7, <2>8, <2>9, Zenon
<1>2. Inv /\ [Next]_vars => [A]_vars
  BY <1>1
<1> QED BY Invariance, <1>2, PTL DEF Spec, ToldIsTrue

\* retire_absent_stream_state after every write: for every batch, a session
\* survives only on a node that was there ever since the session began.
THEOREM SessionsStayTrue == Spec => SessionsOfIncarnation
<1> DEFINE A == ApplyBatch => \A n \in sessions' :
                   \E i \in 0 .. Len(batch) :
                      /\ IF i = 0 THEN n \in sessions
                         ELSE op[batch[i]].kind = "connect"
                      /\ \A j \in i .. Len(batch) :
                            n \in Present(MapAfter(op, SubSeq(batch, 1, j), store))
<1>1. ASSUME Inv, [Next]_vars
      PROVE  A
  <2> SUFFICES ASSUME ApplyBatch, NEW n \in sessions'
               PROVE  \E i \in 0 .. Len(batch) :
                         /\ IF i = 0 THEN n \in sessions
                            ELSE op[batch[i]].kind = "connect"
                         /\ \A j \in i .. Len(batch) :
                               n \in Present(MapAfter(op, SubSeq(batch, 1, j), store))
    OBVIOUS
  <2>a. PICK a : a = Course(op, batch, store, sessions)
    OBVIOUS
  <2>1. worker = "flush" /\ Len(batch) \in Nat /\ sessions' = a[Len(batch)].sessions
    BY <1>1, <2>a, ApplyBatchEffect
  <2>2. /\ Listed(op, batch) /\ store \in Map /\ sessions \subseteq Present(store)
        /\ batch \in Seq(Callers)
    BY <1>1, <2>1, BatchListed DEF Inv, TypeOK, SessionsHere
  <2>3. PICK i \in 0 .. Len(batch) :
           /\ IF i = 0 THEN n \in sessions ELSE op[batch[i]].kind = "connect"
           /\ \A k \in i .. Len(batch) : n \in Present(a[k].map)
    <3>1. Len(batch) \in 0 .. Len(batch)
      BY <2>1
    <3> QED BY <2>a, <2>1, <2>2, <3>1, SessionsTraced
  <2>4. ASSUME NEW j \in 0 .. Len(batch)
        PROVE  MapAfter(op, SubSeq(batch, 1, j), store) = a[j].map
    BY <2>a, <2>2, PrefixMap
  <2>5. \A j \in i .. Len(batch) : j \in 0 .. Len(batch)
    BY <2>1
  <2> QED BY <2>3, <2>4, <2>5
<1>2. Inv /\ [Next]_vars => [A]_vars
  BY <1>1
<1> QED BY Invariance, <1>2, PTL DEF Spec, SessionsOfIncarnation

-----------------------------------------------------------------------------
\* The write path implements NodeStore.

\* The abstract specification means by a write and a list of writes what the
\* detailed one means.
LEMMA SameWrites ==
    ASSUME NEW o, NEW q, NEW s
    PROVE  /\ Abstract!MapAfter(o, q, s) = MapAfter(o, q, s)
           /\ \A i : Abstract!AnswerOf(o, q, s, i) = AnswerOf(o, q, s, i)
<1>1. \A m, c, w : Abstract!Effect(m, c, w) = Effect(m, c, w)
  BY DEF Abstract!Effect, Effect
<1>2. \A m : Abstract!Present(m) = Present(m)
  BY DEF Abstract!Present, Present
<1>3. \A m, w : Abstract!Found(m, w) = Found(m, w)
  BY DEF Abstract!Found, Found
<1>4. \A m, w, ss : Abstract!Connected(m, w, ss) = Connected(m, w, ss)
  BY <1>3 DEF Abstract!Connected, Connected
<1>5. \A b, c, w : Abstract!Applied(b, c, w) = Applied(b, c, w)
  BY <1>1, <1>2, <1>4 DEF Abstract!Applied, Applied, Abstract!Retired, Retired
<1>6. \A ss : Abstract!Course(o, q, s, ss) = Course(o, q, s, ss)
  BY <1>5 DEF Abstract!Course, Course
<1>7. \A m, w : Abstract!Outcome(m, w) = Outcome(m, w)
  BY <1>3 DEF Abstract!Outcome, Outcome
<1>8. \A w, ns, m : Abstract!Revalidated(w, ns, m) = Revalidated(w, ns, m)
  BY <1>2 DEF Abstract!Revalidated, Revalidated, Abstract!NeedsPresence, NeedsPresence
<1> QED BY <1>6, <1>7, <1>8 DEF Abstract!MapAfter, MapAfter, Abstract!AnswerOf, AnswerOf

\* The instance counts as this module does.
LEMMA SameCardinality ==
    ASSUME NEW T
    PROVE  Abstract!Cardinality(T) = Cardinality(T)
BY Zenon DEF Abstract!Cardinality, Cardinality

\* A list without repetitions is one of the orders in which its members may be
\* committed.
LEMMA ListsAreOrders ==
    ASSUME NEW S, NEW q \in Seq(S), \A i, j \in 1 .. Len(q) : i # j => q[i] # q[j]
    PROVE  q \in Abstract!SetToAllKPermutations(S)
<1>n. PICK n \in Nat : n = Len(q)
  OBVIOUS
<1>t. PICK T : T = {q[i] : i \in 1 .. n}
  OBVIOUS
<1>1. q \in [1 .. n -> T] /\ \A i, j \in 1 .. n : i # j => q[i] # q[j]
  BY <1>n, <1>t
<1>2. ExistsBijection(1 .. n, T)
  <2>1. IsInjective(q)
    BY <1>1 DEF IsInjective
  <2>2. q \in Surjection(1 .. n, T)
    BY <1>t, <1>1 DEF Surjection
  <2>3. q \in Injection(1 .. n, T)
    BY <1>1, <2>1, Zenon DEF Injection
  <2> QED BY <2>2, <2>3, Zenon DEF ExistsBijection, Bijection
<1>3. Cardinality(T) = n
  <2>1. IsFiniteSet(1 .. n) /\ Cardinality(1 .. n) = n
    <3>1. 1 \in Int /\ n \in Int /\ n - 1 + 1 = n /\ (1 > n => n = 0)
      BY <1>n
    <3>2. /\ IsFiniteSet(1 .. n)
          /\ Cardinality(1 .. n) = IF 1 > n THEN 0 ELSE n - 1 + 1
      BY <3>1, FS_Interval
    <3> QED BY <3>1, <3>2
  <2> QED BY <1>2, <2>1, FS_Bijection
<1>4. T \in SUBSET S
  BY <1>n, <1>t
<1>5. q \in Abstract!SetToSeqs(T)
  <2>1. Abstract!SetToSeqs(T) = {f \in [1 .. n -> T] : \A i, j \in 1 .. n : i # j => f[i] # f[j]}
    BY <1>3, SameCardinality DEF Abstract!SetToSeqs
  <2> QED BY <1>1, <2>1
<1> QED BY <1>4, <1>5 DEF Abstract!SetToAllKPermutations

\* The answers that the refinement mapping shows: the one a completion holds
\* for its caller, or else the one the caller has.
Due(r, c) == {r[i].answer : i \in {j \in DOMAIN r : r[j].to = c}}
Told(r, ans) == [c \in Callers |-> IF Due(r, c) # {} THEN CHOOSE a \in Due(r, c) : TRUE ELSE ans[c]]

LEMMA ToldParts ==
    ASSUME NEW r \in Seq(Completion), \A i, j \in 1 .. Len(r) : i # j => r[i].to # r[j].to, NEW ans
    PROVE  /\ \A i \in 1 .. Len(r) : Told(r, ans)[r[i].to] = r[i].answer
           /\ \A c \in Callers : (\A i \in 1 .. Len(r) : r[i].to # c) => Told(r, ans)[c] = ans[c]
<1>0. DOMAIN r = 1 .. Len(r) /\ \A i \in 1 .. Len(r) : r[i].to \in Callers
  <2>1. DOMAIN r = 1 .. Len(r) /\ \A i \in 1 .. Len(r) : r[i] \in Completion
    OBVIOUS
  <2> QED BY <2>1 DEF Completion
<1>1. ASSUME NEW i \in 1 .. Len(r)
      PROVE  Told(r, ans)[r[i].to] = r[i].answer
  <2>1. {j \in DOMAIN r : r[j].to = r[i].to} = {i}
    BY <1>0
  <2>2. Due(r, r[i].to) = {r[i].answer}
    BY <2>1 DEF Due
  <2> QED BY <1>0, <2>2 DEF Told
<1>2. ASSUME NEW c \in Callers, \A i \in 1 .. Len(r) : r[i].to # c
      PROVE  Told(r, ans)[c] = ans[c]
  <2>1. Due(r, c) = {}
    BY <1>0, <1>2 DEF Due
  <2> QED BY <2>1 DEF Told
<1> QED BY <1>1, <1>2

\* In a state of the write path, and after a step of it.
LEMMA ToldNow ==
    ASSUME Inv
    PROVE  /\ \A i \in 1 .. Len(replies) : Told(replies, answer)[replies[i].to] = replies[i].answer
           /\ \A c \in Callers : (\A i \in 1 .. Len(replies) : replies[i].to # c) =>
                 Told(replies, answer)[c] = answer[c]
           /\ \A c \in Callers : c \notin Expecting => Told(replies, answer)[c] = answer[c]
<1>1. /\ replies \in Seq(Completion)
      /\ \A i, j \in 1 .. Len(replies) : i # j => replies[i].to # replies[j].to
  BY DEF Inv, TypeOK, Once, Completion
<1>2. \A i \in 1 .. Len(replies) : replies[i].to \in Expecting
  BY DEF Inv, Enlisted
<1>3. /\ \A i \in 1 .. Len(replies) : Told(replies, answer)[replies[i].to] = replies[i].answer
      /\ \A c \in Callers : (\A i \in 1 .. Len(replies) : replies[i].to # c) =>
            Told(replies, answer)[c] = answer[c]
  BY <1>1, ToldParts
<1> QED BY <1>2, <1>3

\* The mapping, as its steps use it.
LEMMA Mapping ==
    /\ Abstract!vars = <<store, op, Told(replies, answer)>>
    /\ Abstract!Waiting = {c \in Callers : op[c] # None /\ Told(replies, answer)[c] = None}
BY DEF Abstract!vars, Abstract!Waiting, Told, Due, Owed

LEMMA MappedCall ==
    ASSUME NEW c \in Callers, NEW w \in Writes, op[c] = None, op' = [op EXCEPT ![c] = w],
           store' = store, Told(replies, answer)' = Told(replies, answer)
    PROVE  Abstract!Next
<1>1. Abstract!Call(c, w)
  BY DEF Abstract!Call, Told, Due, Owed
<1> QED BY <1>1 DEF Abstract!Next

LEMMA MappedRefuse ==
    ASSUME NEW c \in Callers, op[c] # None, Told(replies, answer)[c] = None,
           op[c].kind \in {"update", "connect", "patch", "many", "approve"},
           op' = op, store' = store,
           Told(replies, answer)' = [Told(replies, answer) EXCEPT ![c] = {}]
    PROVE  Abstract!Next
<1>1. Abstract!Refuse(c)
  BY DEF Abstract!Refuse, Abstract!Waiting, Abstract!Update, Told, Due, Owed
<1> QED BY <1>1 DEF Abstract!Next

LEMMA MappedReturn ==
    ASSUME NEW c \in Callers, op[c] # None,
           \/ Told(replies, answer)[c] # None
           \/ op[c].kind \in {"update", "connect", "patch", "many", "approve"},
           op' = [op EXCEPT ![c] = None], store' = store,
           Told(replies, answer)' = [Told(replies, answer) EXCEPT ![c] = None]
    PROVE  Abstract!Next
<1>1. Abstract!Return(c)
  BY DEF Abstract!Return, Abstract!Update, Told, Due, Owed
<1> QED BY <1>1 DEF Abstract!Next

LEMMA MappedCommit ==
    ASSUME NEW q \in Seq(Callers), q # <<>>, \A i, j \in 1 .. Len(q) : i # j => q[i] # q[j],
           \A i \in 1 .. Len(q) : op[q[i]] # None /\ Told(replies, answer)[q[i]] = None,
           op' = op, store' = MapAfter(op, q, store),
           \A i \in 1 .. Len(q) : Told(replies, answer)'[q[i]] = AnswerOf(op, q, store, i),
           \A c \in Callers : (\A i \in 1 .. Len(q) : q[i] # c) =>
              Told(replies, answer)'[c] = Told(replies, answer)[c]
    PROVE  Abstract!Next
<1>0. DOMAIN q = 1 .. Len(q) /\ \A i \in 1 .. Len(q) : q[i] \in Callers
  OBVIOUS
<1>1. q \in Seq(Abstract!Waiting)
  <2>1. \A i \in 1 .. Len(q) : q[i] \in Abstract!Waiting
    BY <1>0, Mapping
  <2> QED BY <2>1
<1>2. q \in Abstract!SetToAllKPermutations(Abstract!Waiting)
  BY <1>1, ListsAreOrders
<1>3. ASSUME NEW c \in Callers
      PROVE  Told(replies, answer)'[c] =
                IF c \in Abstract!ToSet(q)
                THEN Abstract!AnswerOf(op, q, store, CHOOSE i \in DOMAIN q : q[i] = c)
                ELSE Told(replies, answer)[c]
  <2>1. CASE c \in Abstract!ToSet(q)
    <3>1. PICK i \in 1 .. Len(q) : q[i] = c
      BY <1>0, <2>1 DEF Abstract!ToSet
    <3>2. (CHOOSE j \in DOMAIN q : q[j] = c) = i
      BY <1>0, <3>1
    <3> QED BY <2>1, <3>1, <3>2, SameWrites
  <2>2. CASE c \notin Abstract!ToSet(q)
    BY <1>0, <2>2 DEF Abstract!ToSet
  <2> QED BY <2>1, <2>2
<1>4. Told(replies, answer)' =
         [c \in Callers |-> IF c \in Abstract!ToSet(q)
                            THEN Abstract!AnswerOf(op, q, store, CHOOSE i \in DOMAIN q : q[i] = c)
                            ELSE Told(replies, answer)[c]]
  <2>1. Told(replies, answer)' = [c \in Callers |-> Told(replies, answer)'[c]]
    BY DEF Told
  <2> QED BY <1>3, <2>1, Zenon
<1>5. Abstract!Commit(q)
  <2>1. Abstract!Commit(q) <=>
           /\ store' = Abstract!MapAfter(op, q, store)
           /\ Told(replies, answer)' =
                 [c \in Callers |-> IF c \in Abstract!ToSet(q)
                                    THEN Abstract!AnswerOf(op, q, store, CHOOSE i \in DOMAIN q : q[i] = c)
                                    ELSE Told(replies, answer)[c]]
           /\ op' = op
    BY DEF Abstract!Commit, Told, Due, Owed
  <2> QED BY <1>4, <2>1, SameWrites
<1> QED BY <1>2, <1>5 DEF Abstract!Next

LEMMA ToldThen ==
    ASSUME Inv'
    PROVE  /\ \A i \in 1 .. Len(replies') : Told(replies', answer')[replies'[i].to] = replies'[i].answer
           /\ \A c \in Callers : (\A i \in 1 .. Len(replies') : replies'[i].to # c) =>
                 Told(replies', answer')[c] = answer'[c]
           /\ \A c \in Callers : c \notin Expecting' => Told(replies', answer')[c] = answer'[c]
<1>1. /\ replies' \in Seq(Completion)
      /\ \A i, j \in 1 .. Len(replies') : i # j => replies'[i].to # replies'[j].to
  BY DEF Inv, TypeOK, Once, Completion
<1>2. \A i \in 1 .. Len(replies') : replies'[i].to \in Expecting'
  BY DEF Inv, Enlisted
<1>3. /\ \A i \in 1 .. Len(replies') : Told(replies', answer')[replies'[i].to] = replies'[i].answer
      /\ \A c \in Callers : (\A i \in 1 .. Len(replies') : replies'[i].to # c) =>
            Told(replies', answer')[c] = answer'[c]
  BY <1>1, ToldParts
<1> QED BY <1>2, <1>3

\* One answer changes, or none.
LEMMA ToldOne ==
    ASSUME NEW r, NEW ans, NEW s, NEW bns, NEW c \in Callers,
           \A d \in Callers : d # c => Told(s, bns)[d] = Told(r, ans)[d]
    PROVE  Told(s, bns) = [Told(r, ans) EXCEPT ![c] = Told(s, bns)[c]]
<1>1. /\ Told(r, ans) = [d \in Callers |-> Told(r, ans)[d]]
      /\ Told(s, bns) = [d \in Callers |-> Told(s, bns)[d]]
  BY DEF Told
<1> QED BY <1>1

LEMMA ToldSame ==
    ASSUME NEW r, NEW ans, NEW s, NEW bns, \A d \in Callers : Told(s, bns)[d] = Told(r, ans)[d]
    PROVE  Told(s, bns) = Told(r, ans)
<1>1. /\ Told(r, ans) = [d \in Callers |-> Told(r, ans)[d]]
      /\ Told(s, bns) = [d \in Callers |-> Told(s, bns)[d]]
  BY DEF Told
<1> QED BY <1>1

\* Where neither the completions nor the caller's answer change.
LEMMA ToldKept ==
    ASSUME NEW r, NEW ans, NEW bns, NEW d \in Callers, bns[d] = ans[d]
    PROVE  Told(r, bns)[d] = Told(r, ans)[d]
BY DEF Told

\* A step of NodeStore, or none.
Simulated == Abstract!Next \/ UNCHANGED Abstract!vars

LEMMA Unseen ==
    ASSUME store' = store, op' = op, Told(replies', answer') = Told(replies, answer)
    PROVE  Simulated
<1>1. UNCHANGED Abstract!vars
  BY DEF Abstract!vars, Told, Due, Owed
<1> QED BY <1>1 DEF Simulated

LEMMA BeginSimulated ==
    ASSUME Inv, NEW c \in Callers, NEW w \in Writes, Begin(c, w)
    PROVE  Simulated
<1>1. /\ pc[c] = "idle" /\ op' = [op EXCEPT ![c] = w] /\ store' = store
      /\ replies' = replies /\ answer' = answer
  BY DEF Begin, workerVars
<1>2. op[c] = None
  BY <1>1 DEF Inv, Calls
<1>3. Told(replies, answer)' = Told(replies, answer)
  BY <1>1
<1> QED BY <1>1, <1>2, <1>3, MappedCall DEF Simulated

LEMMA ApplyDirectSimulated ==
    ASSUME Inv, Inv', NEW c \in Callers, ApplyDirect(c)
    PROVE  Simulated
<1>q. PICK q : q = <<c>>
  OBVIOUS
<1>a. PICK a : a = Course(op, q, store, sessions)
  OBVIOUS
<1>b. PICK ns : ns = AnswerOf(op, q, store, 1)
  OBVIOUS
<1>1. /\ pc[c] = "direct" /\ store' = a[1].map
      /\ answer' = [answer EXCEPT ![c] = ns] /\ pc' = [pc EXCEPT ![c] = "done"]
      /\ op' = op /\ replies' = replies
  BY <1>q, <1>a, <1>b DEF ApplyDirect, workerVars
<1>2. /\ Listed(op, q) /\ Len(q) = 1 /\ q[1] = c /\ q \in Seq(Callers) /\ q # <<>>
      /\ op[c] # None
  <2>1. Listed(op, q) /\ Len(q) = 1 /\ q[1] = c /\ op[c] \in Writes
    BY <1>q, <1>1, AloneListed
  <2> QED BY <1>q, <2>1, NoneAssumption
<1>3. store \in Map /\ answer \in [Callers -> (SUBSET Nodes) \cup {None}]
  BY DEF Inv, TypeOK
<1>4. store' = MapAfter(op, q, store)
  BY <1>a, <1>1, <1>2, <1>3, CourseTyped DEF MapAfter
<1>5. c \notin Expecting /\ c \notin Expecting' /\ answer[c] = None /\ answer'[c] = ns
  BY <1>1, <1>3 DEF Inv, TypeOK, Calls, Expecting
<1>6. Told(replies, answer)[c] = None
  BY <1>5, ToldNow
<1>7. Told(replies, answer)'[c] = ns
  BY <1>5, ToldThen
<1>8. \A d \in Callers : d # c => Told(replies, answer)'[d] = Told(replies, answer)[d]
  <2>1. ASSUME NEW d \in Callers, d # c
        PROVE  Told(replies, answer')[d] = Told(replies, answer)[d]
    <3>1. answer'[d] = answer[d]
      BY <1>1, <1>3, <2>1
    <3> QED BY <3>1, ToldKept
  <2> QED BY <1>1, <2>1
<1>9. /\ \A i, j \in 1 .. Len(q) : i # j => q[i] # q[j]
      /\ \A i \in 1 .. Len(q) : op[q[i]] # None /\ Told(replies, answer)[q[i]] = None
      /\ \A i \in 1 .. Len(q) : Told(replies, answer)'[q[i]] = AnswerOf(op, q, store, i)
      /\ \A d \in Callers : (\A i \in 1 .. Len(q) : q[i] # d) =>
            Told(replies, answer)'[d] = Told(replies, answer)[d]
  <2>1. \A i \in 1 .. Len(q) : i = 1
    BY <1>2
  <2>2. 1 \in 1 .. Len(q)
    BY <1>2
  <2> QED BY <1>b, <1>2, <1>6, <1>7, <1>8, <2>1, <2>2
<1> QED BY <1>1, <1>2, <1>4, <1>9, MappedCommit DEF Simulated

LEMMA LoseReplySimulated ==
    ASSUME Inv, Inv', NEW c \in Callers, LoseReply(c)
    PROVE  Simulated
<1>1. /\ pc[c] = "waiting" /\ worker = "dead" /\ store' = store /\ op' = op /\ replies' = replies
  BY DEF LoseReply, workerVars
<1>2. replies = <<>> /\ Len(replies) = 0 /\ replies' = <<>> /\ Len(replies') = 0
  <2>1. replies = <<>>
    BY <1>1 DEF Inv, Phases
  <2> QED BY <1>1, <2>1
<1>3. /\ \A d \in Callers : Told(replies, answer)[d] = answer[d]
      /\ \A d \in Callers : Told(replies', answer')[d] = answer'[d]
  BY <1>2, ToldNow, ToldThen
<1>4. CASE answer' = answer
  <2>1. Told(replies', answer') = Told(replies, answer)
    BY <1>1, <1>4
  <2> QED BY <1>1, <2>1, Unseen
<1>5. CASE /\ op[c].kind \in {"update", "connect", "patch", "many", "approve"}
           /\ answer' = [answer EXCEPT ![c] = {}]
  <2>1. answer \in [Callers -> (SUBSET Nodes) \cup {None}] /\ op[c] # None /\ answer[c] = None
    BY <1>1 DEF Inv, TypeOK, Calls
  <2>2. Told(replies', answer')[c] = {}
    BY <1>3, <1>5, <2>1
  <2>3. \A d \in Callers : d # c => Told(replies', answer')[d] = Told(replies, answer)[d]
    BY <1>3, <1>5, <2>1
  <2>4. Told(replies, answer)' = [Told(replies, answer) EXCEPT ![c] = {}]
    BY <2>2, <2>3, ToldOne
  <2>5. Told(replies, answer)[c] = None
    BY <1>3, <2>1
  <2> QED BY <1>1, <1>5, <2>1, <2>4, <2>5, MappedRefuse DEF Simulated
<1> QED BY <1>4, <1>5 DEF LoseReply

LEMMA ResumeSimulated ==
    ASSUME Inv, Inv', NEW c \in Callers, Resume(c)
    PROVE  Simulated
<1>1. /\ pc[c] \in {"replied", "done"} /\ pc' = [pc EXCEPT ![c] = "idle"]
      /\ op' = [op EXCEPT ![c] = None] /\ answer' = [answer EXCEPT ![c] = None]
      /\ store' = store /\ replies' = replies
  BY DEF Resume, workerVars
<1>2. /\ answer \in [Callers -> (SUBSET Nodes) \cup {None}] /\ op[c] # None /\ answer[c] # None
      /\ c \notin Expecting /\ c \notin Expecting'
  BY <1>1 DEF Inv, TypeOK, Calls, Expecting
<1>3. Told(replies, answer)[c] # None /\ Told(replies', answer')[c] = None
  BY <1>1, <1>2, ToldNow, ToldThen
<1>4. \A d \in Callers : d # c => Told(replies', answer')[d] = Told(replies, answer)[d]
  <2>1. ASSUME NEW d \in Callers, d # c
        PROVE  Told(replies, answer')[d] = Told(replies, answer)[d]
    <3>1. answer'[d] = answer[d]
      BY <1>1, <1>2, <2>1
    <3> QED BY <3>1, ToldKept
  <2> QED BY <1>1, <2>1
<1>5. Told(replies, answer)' = [Told(replies, answer) EXCEPT ![c] = None]
  <2>1. Told(replies', answer') = [Told(replies, answer) EXCEPT ![c] = Told(replies', answer')[c]]
    BY <1>4, ToldOne
  <2> QED BY <1>3, <2>1
<1> QED BY <1>1, <1>2, <1>3, <1>5, MappedReturn DEF Simulated

LEMMA ForgetSimulated ==
    ASSUME Inv, Inv', NEW c \in Callers, Forget(c)
    PROVE  Simulated
<1>1. /\ pc[c] = "gone" /\ worker = "dead" /\ op' = [op EXCEPT ![c] = None]
      /\ store' = store /\ replies' = replies /\ answer' = answer
  BY DEF Forget, workerVars
<1>2. /\ replies = <<>> /\ Len(replies) = 0 /\ op[c] # None /\ op[c].kind = "patch"
      /\ answer[c] = None
  <2>1. replies = <<>> /\ op[c] # None /\ op[c].kind = "patch" /\ answer[c] = None
    BY <1>1 DEF Inv, Phases, Calls
  <2> QED BY <2>1
<1>3. Told(replies', answer')[c] = None
  BY <1>1, <1>2, ToldNow
<1>4. \A d \in Callers : d # c => Told(replies', answer')[d] = Told(replies, answer)[d]
  BY <1>1
<1>5. Told(replies, answer)' = [Told(replies, answer) EXCEPT ![c] = None]
  BY <1>3, <1>4, ToldOne
<1> QED BY <1>1, <1>2, <1>5, MappedReturn DEF Simulated

LEMMA ApplyBatchSimulated ==
    ASSUME Inv, Inv', ApplyBatch
    PROVE  Simulated
<1>1. /\ worker = "flush" /\ Len(batch) \in Nat \ {0} /\ replies = <<>>
      /\ store' = MapAfter(op, batch, store) /\ Len(replies') = Len(batch)
      /\ \A i \in 1 .. Len(batch) : /\ replies'[i].to = batch[i]
                                    /\ replies'[i].answer = AnswerOf(op, batch, store, i)
      /\ op' = op /\ answer' = answer
  BY ApplyBatchEffect
<1>2. /\ batch \in Seq(Callers) /\ batch # <<>>
      /\ \A i, j \in 1 .. Len(batch) : i # j => batch[i] # batch[j]
  BY <1>1 DEF Inv, TypeOK, Phases, Once
<1>3. \A c \in Callers : Told(replies, answer)[c] = answer[c]
  <2>1. Len(replies) = 0
    BY <1>1
  <2> QED BY <2>1, ToldNow
<1>4. \A i \in 1 .. Len(batch) : op[batch[i]] # None /\ Told(replies, answer)[batch[i]] = None
  <2>1. ASSUME NEW i \in 1 .. Len(batch)
        PROVE  op[batch[i]] # None /\ answer[batch[i]] = None /\ batch[i] \in Callers
    <3>1. batch[i] \in Expecting
      BY DEF Inv, Enlisted
    <3> QED BY <3>1 DEF Inv, Calls, Expecting
  <2> QED BY <1>3, <2>1
<1>5. \A i \in 1 .. Len(batch) : Told(replies, answer)'[batch[i]] = AnswerOf(op, batch, store, i)
  <2>1. ASSUME NEW i \in 1 .. Len(batch)
        PROVE  Told(replies', answer')[batch[i]] = AnswerOf(op, batch, store, i)
    <3>1. i \in 1 .. Len(replies')
      BY <1>1
    <3>2. Told(replies', answer')[replies'[i].to] = replies'[i].answer
      BY <3>1, ToldThen
    <3> QED BY <1>1, <3>2
  <2> QED BY <2>1
<1>6. \A c \in Callers : (\A i \in 1 .. Len(batch) : batch[i] # c) =>
         Told(replies, answer)'[c] = Told(replies, answer)[c]
  <2>1. ASSUME NEW c \in Callers, \A i \in 1 .. Len(batch) : batch[i] # c
        PROVE  Told(replies', answer')[c] = Told(replies, answer)[c]
    <3>1. \A i \in 1 .. Len(replies') : replies'[i].to # c
      BY <1>1, <2>1
    <3>2. Told(replies', answer')[c] = answer'[c]
      BY <3>1, ToldThen
    <3> QED BY <1>1, <1>3, <3>2
  <2> QED BY <2>1
<1> QED BY <1>1, <1>2, <1>4, <1>5, <1>6, MappedCommit DEF Simulated

LEMMA ReplySimulated ==
    ASSUME Inv, Inv', Reply
    PROVE  Simulated
<1>r. PICK r : r = replies[1]
  OBVIOUS
<1>1. /\ r \in Completion /\ r.to \in Expecting
      /\ IF pc[r.to] = "gone"
         THEN op' = [op EXCEPT ![r.to] = None] /\ answer' = answer
         ELSE op' = op /\ answer' = [answer EXCEPT ![r.to] = r.answer]
      /\ Len(replies) \in Nat /\ Len(replies) >= 1 /\ Len(replies') = Len(replies) - 1
      /\ \A i \in 1 .. Len(replies') : replies'[i] = replies[i + 1] /\ i + 1 \in 1 .. Len(replies)
      /\ store' = store
  BY <1>r, ReplyEffect
<1>c. PICK c \in Callers : c = r.to
  BY <1>1 DEF Expecting
<1>2. /\ answer \in [Callers -> (SUBSET Nodes) \cup {None}] /\ op[c] # None /\ answer[c] = None
      /\ pc[c] = "gone" => op[c].kind = "patch"
  BY <1>1, <1>c DEF Inv, TypeOK, Calls, Expecting
<1>3. 1 \in 1 .. Len(replies) /\ \A i \in 1 .. Len(replies') : i + 1 # 1
  BY <1>1
<1>4. \A i \in 1 .. Len(replies') : replies'[i].to # c
  BY <1>r, <1>c, <1>1, <1>3 DEF Inv, Once
<1>5. Told(replies', answer')[c] = answer'[c]
  BY <1>4, ToldThen
<1>6. Told(replies, answer)[c] = r.answer
  BY <1>r, <1>c, <1>3, ToldNow
<1>7. ASSUME NEW d \in Callers, d # c
      PROVE  Told(replies', answer')[d] = Told(replies, answer)[d]
  <2>1. CASE \E i \in 1 .. Len(replies') : replies'[i].to = d
    <3>1. PICK i \in 1 .. Len(replies') : replies'[i].to = d
      BY <2>1
    <3>2. Told(replies', answer')[d] = replies'[i].answer
      BY <3>1, ToldThen
    <3>3. i + 1 \in 1 .. Len(replies) /\ replies'[i] = replies[i + 1]
      BY <1>1
    <3>4. Told(replies, answer)[replies[i + 1].to] = replies[i + 1].answer
      BY <3>3, ToldNow
    <3> QED BY <3>1, <3>2, <3>3, <3>4
  <2>2. CASE \A i \in 1 .. Len(replies') : replies'[i].to # d
    <3>1. ASSUME NEW j \in 1 .. Len(replies)
          PROVE  replies[j].to # d
      <4>1. CASE j = 1
        BY <1>r, <1>c, <1>7, <4>1
      <4>2. CASE j # 1
        <5>1. j - 1 \in 1 .. Len(replies') /\ (j - 1) + 1 = j
          BY <1>1, <4>2
        <5>2. replies'[j - 1] = replies[(j - 1) + 1]
          BY <1>1, <5>1
        <5> QED BY <2>2, <5>1, <5>2
      <4> QED BY <4>1, <4>2
    <3>2. Told(replies, answer)[d] = answer[d] /\ Told(replies', answer')[d] = answer'[d]
      BY <2>2, <3>1, ToldNow, ToldThen
    <3>3. answer'[d] = answer[d]
      BY <1>1, <1>2, <1>c, <1>7
    <3> QED BY <3>2, <3>3
  <2> QED BY <2>1, <2>2
<1>8. CASE pc[c] = "gone"
  <2>1. op' = [op EXCEPT ![c] = None] /\ answer' = answer
    BY <1>1, <1>c, <1>8
  <2>2. Told(replies', answer')[c] = None
    BY <1>2, <1>5, <2>1
  <2>3. Told(replies', answer') = [Told(replies, answer) EXCEPT ![c] = Told(replies', answer')[c]]
    <3>1. \A d \in Callers : d # c => Told(replies', answer')[d] = Told(replies, answer)[d]
      BY <1>7
    <3>2. PICK rs, ans : rs = replies' /\ ans = answer'
      OBVIOUS
    <3>3. \A d \in Callers : d # c => Told(rs, ans)[d] = Told(replies, answer)[d]
      BY <3>1, <3>2
    <3>4. Told(rs, ans) = [Told(replies, answer) EXCEPT ![c] = Told(rs, ans)[c]]
      BY <3>3, ToldOne
    <3> QED BY <3>2, <3>4
  <2>4. Told(replies, answer)' = [Told(replies, answer) EXCEPT ![c] = None]
    BY <2>2, <2>3
  <2> QED BY <1>1, <1>2, <1>8, <2>1, <2>4, MappedReturn DEF Simulated
<1>9. CASE pc[c] # "gone"
  <2>1. op' = op /\ answer' = [answer EXCEPT ![c] = r.answer]
    BY <1>1, <1>c, <1>9
  <2>2. Told(replies', answer')[c] = Told(replies, answer)[c]
    BY <1>2, <1>5, <1>6, <2>1
  <2>3. \A d \in Callers : Told(replies', answer')[d] = Told(replies, answer)[d]
    BY <1>7, <2>2
  <2>4. Told(replies', answer') = Told(replies, answer)
    BY <2>3, ToldSame
  <2> QED BY <1>1, <2>1, <2>4, Unseen
<1> QED BY <1>8, <1>9

\* The other steps are not seen.
Quiet ==
    \/ \E c \in Callers : Send(c) \/ Cancel(c)
    \/ Receive \/ Tick \/ Disconnect \/ Panic
    \/ Stop \/ SendWake \/ Retire \/ Join

LEMMA RestSimulated ==
    ASSUME Quiet \/ UNCHANGED vars
    PROVE  Simulated
<1>1. store' = store /\ op' = op /\ answer' = answer /\ replies' = replies
  BY DEF Send, Cancel, Receive, Tick, Disconnect, Panic, Stop, SendWake, Retire, Join,
         Quiet, vars, callerVars, workerVars
<1>2. Told(replies', answer') = Told(replies, answer)
  BY <1>1
<1> QED BY <1>1, <1>2, Unseen

LEMMA InitSimulated == Init => Abstract!Init
<1> SUFFICES ASSUME Init PROVE Abstract!Init
  OBVIOUS
<1>1. /\ store = [k \in Keys |-> None] /\ op = [c \in Callers |-> None]
      /\ answer = [c \in Callers |-> None] /\ replies = <<>>
  BY DEF Init
<1>2. \A c \in Callers : Owed(c) = {}
  BY <1>1 DEF Owed
<1> QED BY <1>1, <1>2 DEF Abstract!Init

LEMMA NextSimulated ==
    ASSUME Inv, [Next]_vars
    PROVE  [Abstract!Next]_(Abstract!vars)
<1>0. Inv'
  BY NextInv
<1>1. ASSUME NEW c \in Callers, CallerStep(c)
      PROVE  Simulated
  BY <1>0, <1>1, BeginSimulated, RestSimulated, ApplyDirectSimulated, LoseReplySimulated,
     ResumeSimulated, ForgetSimulated DEF CallerStep, Quiet
<1>2. ASSUME WorkerStep
      PROVE  Simulated
  BY <1>0, <1>2, RestSimulated, ApplyBatchSimulated, ReplySimulated DEF WorkerStep, Quiet
<1>3. ASSUME DropStep
      PROVE  Simulated
  BY <1>3, RestSimulated DEF DropStep, Quiet
<1>4. Simulated
  BY <1>1, <1>2, <1>3, RestSimulated DEF Next
<1> QED BY <1>4 DEF Simulated

\* The write path with its queue, batches, direct writes, stops and panics
\* implements NodeStore: every write takes effect atomically, once, before its
\* caller returns, and is answered by what it did.
THEOREM Refinement == Spec => WritesAtomic
<1>1. Inv /\ [Next]_vars => [Abstract!Next]_(Abstract!vars)
  BY NextSimulated
<1> QED BY Invariance, InitSimulated, <1>1, PTL DEF Spec, WritesAtomic, Abstract!Spec
=============================================================================
