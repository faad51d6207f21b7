-------------------------- MODULE TranslationProofs --------------------------
(***************************************************************************)
(* Proofs about translation: the queue file and the panel's tasks          *)
(* (TranslationQueue), what a transcript feeds to them (TranscriptFeed),   *)
(* and the files of translated sources (FileTranslation).                  *)
(***************************************************************************)
EXTENDS TranslationQueue, TranscriptFeed, FileTranslation, TLAPS, WellFoundedInduction, FiniteSetTheorems

(***************************************************************************)
(* Functions on 0..n that are defined by recursion.                        *)
(***************************************************************************)
LEMMA LeastExists ==
  ASSUME NEW U, U \subseteq Nat, U # {}
  PROVE  \E x \in U : \A y \in U : x <= y
<1>1. PICK x \in U : \A y \in U : ~(<<y, x>> \in OpToRel(<, Nat))
  BY WFMin, NatLessThanWellFounded
<1>2. \A y \in U : <<y, x>> \in OpToRel(<, Nat) <=> y < x
  BY DEF OpToRel
<1>3. ASSUME NEW y \in U PROVE x <= y
  <2>1. x \in Nat /\ y \in Nat /\ ~(y < x)
    BY <1>1, <1>2
  <2>. QED
    BY <2>1
<1>. QED
  BY <1>3

LEMMA Induction ==
  ASSUME NEW n \in Nat, NEW P, 0 \in P, \A i \in 1..n : i - 1 \in P => i \in P
  PROVE  0..n \subseteq P
<1>. DEFINE U == {i \in 0..n : i \notin P}
<1>1. SUFFICES ASSUME U # {} PROVE FALSE
  OBVIOUS
<1>2. PICK x \in U : \A y \in U : x <= y
  <2>1. U \subseteq Nat
    OBVIOUS
  <2>. HIDE DEF U
  <2>. QED
    BY <1>1, <2>1, LeastExists
<1>3. x \in 1..n
  BY <1>2
<1>4. x - 1 \in 0..n /\ ~(x <= x - 1)
  BY <1>3
<1>5. x - 1 \in P
  BY <1>2, <1>4
<1>. QED
  BY <1>2, <1>3, <1>5

Unfolds(f, n, X, first, step) ==
  /\ f \in [0..n -> X] /\ f[0] = first
  /\ \A i \in 1..n : f[i] = step[<<i, f[i - 1]>>]

(* A step function from a first value gives a function on 0..n. *)
LEMMA RecursionExists ==
  ASSUME NEW n \in Nat, NEW X, NEW first \in X, NEW step \in [(1..n) \X X -> X]
  PROVE  \E f : Unfolds(f, n, X, first, step)
<1>. DEFINE Good(m, f) == f[0] = first /\ \A i \in 1..m : f[i] = step[<<i, f[i - 1]>>]
            P == {m \in 0..n : \E f \in [0..m -> X] : Good(m, f)}
<1>1. 0 \in P
  <2>1. Good(0, [i \in 0..0 |-> first]) /\ [i \in 0..0 |-> first] \in [0..0 -> X]
    OBVIOUS
  <2>2. 0 \in 0..n
    OBVIOUS
  <2>. HIDE DEF Good
  <2>. QED
    BY <2>1, <2>2
<1>2. ASSUME NEW m \in 1..n, m - 1 \in P PROVE m \in P
  <2>1. PICK f \in [0..(m - 1) -> X] : Good(m - 1, f)
    BY <1>2
  <2>2. m - 1 \in 0..(m - 1) /\ f[m - 1] \in X
    BY <2>1
  <2>. DEFINE v == step[<<m, f[m - 1]>>]
              g == [i \in 0..m |-> IF i = m THEN v ELSE f[i]]
  <2>3. v \in X
    BY <2>2
  <2>4. \A i \in 0..(m - 1) : i \in 0..m /\ i # m /\ g[i] = f[i]
    OBVIOUS
  <2>5. g \in [0..m -> X] /\ g[m] = v
    BY <2>3
  <2>6. g[0] = first
    BY <2>1, <2>4
  <2>7. ASSUME NEW i \in 1..m PROVE g[i] = step[<<i, g[i - 1]>>]
    <3>1. CASE i = m
      BY <3>1, <2>2, <2>4, <2>5
    <3>2. CASE i # m
      <4>1. i \in 1..(m - 1) /\ i - 1 \in 0..(m - 1) /\ i \in 0..(m - 1)
        BY <3>2
      <4>. QED
        BY <4>1, <2>1, <2>4
    <3>. QED
      BY <3>1, <3>2
  <2>8. Good(m, g)
    BY <2>6, <2>7
  <2>9. m \in 0..n
    OBVIOUS
  <2>. HIDE DEF Good, g, v
  <2>. QED
    BY <2>5, <2>8, <2>9
<1>3. n \in P
  <2>. HIDE DEF P
  <2>1. 0..n \subseteq P
    BY <1>1, <1>2, Induction
  <2>. QED
    BY <2>1
<1>. QED
  BY <1>3 DEF Unfolds

(***************************************************************************)
(* The elements of a sequence at some places: Kept.                        *)
(***************************************************************************)
IsPick(f, s, at) ==
  f = [n \in 0..Len(s) |-> IF n = 0 THEN <<>>
                           ELSE IF n \in at THEN Append(f[n - 1], s[n]) ELSE f[n - 1]]

\* p holds the elements of s at the places of "at", in their order.
Holding(p, s, at) ==
  /\ \A k \in DOMAIN p : \E i \in DOMAIN s \cap at : p[k] = s[i]
  /\ \A i \in DOMAIN s \cap at : \E k \in DOMAIN p : p[k] = s[i]
  /\ \A k, l \in DOMAIN p : k < l =>
       \E i, j \in DOMAIN s \cap at : i < j /\ p[k] = s[i] /\ p[l] = s[j]

LEMMA PickExists ==
  ASSUME NEW T, NEW s \in Seq(T), NEW at
  PROVE  \E f : IsPick(f, s, at)
<1>. DEFINE n == Len(s)
            step == [p \in (1..n) \X Seq(T) |-> IF p[1] \in at THEN Append(p[2], s[p[1]]) ELSE p[2]]
<1>1. n \in Nat /\ <<>> \in Seq(T)
  OBVIOUS
<1>2. step \in [(1..n) \X Seq(T) -> Seq(T)]
  <2>1. ASSUME NEW p \in (1..n) \X Seq(T)
        PROVE  (IF p[1] \in at THEN Append(p[2], s[p[1]]) ELSE p[2]) \in Seq(T)
    <3>1. p[1] \in 1..n /\ p[2] \in Seq(T) /\ s[p[1]] \in T
      OBVIOUS
    <3>. QED
      BY <3>1
  <2>. QED
    BY <2>1
<1>3. \A m \in 1..n, r \in Seq(T) :
        step[<<m, r>>] = IF m \in at THEN Append(r, s[m]) ELSE r
  OBVIOUS
<1>4. PICK f : Unfolds(f, n, Seq(T), <<>>, step)
  <2>. HIDE DEF n, step
  <2>. QED
    BY <1>1, <1>2, RecursionExists
<1>5. ASSUME NEW m \in 0..n
      PROVE  f[m] = IF m = 0 THEN <<>>
                    ELSE IF m \in at THEN Append(f[m - 1], s[m]) ELSE f[m - 1]
  <2>1. CASE m = 0
    BY <2>1, <1>4 DEF Unfolds
  <2>2. CASE m # 0
    <3>1. m \in 1..n /\ m - 1 \in 0..n
      BY <2>2
    <3>2. f[m] = step[<<m, f[m - 1]>>] /\ f[m - 1] \in Seq(T)
      BY <1>4, <3>1 DEF Unfolds
    <3>. HIDE DEF step
    <3>. QED
      BY <2>2, <3>1, <3>2, <1>3
  <2>. QED
    BY <2>1, <2>2
<1>6. f = [m \in 0..n |-> f[m]]
  BY <1>4 DEF Unfolds
<1>. QED
  BY <1>5, <1>6 DEF IsPick

LEMMA PickHolds ==
  ASSUME NEW T, NEW s \in Seq(T), NEW at, NEW f, IsPick(f, s, at)
  PROVE  f[Len(s)] \in Seq(T) /\ Holding(f[Len(s)], s, at)
<1>. DEFINE n == Len(s)
            Good(m) == /\ f[m] \in Seq(T)
                       /\ \A k \in DOMAIN f[m] : \E i \in (1..m) \cap at : f[m][k] = s[i]
                       /\ \A i \in (1..m) \cap at : \E k \in DOMAIN f[m] : f[m][k] = s[i]
                       /\ \A k, l \in DOMAIN f[m] : k < l =>
                            \E i, j \in (1..m) \cap at : i < j /\ f[m][k] = s[i] /\ f[m][l] = s[j]
            P == {m \in 0..n : Good(m)}
<1>1. n \in Nat /\ DOMAIN s = 1..n
  OBVIOUS
<1>2. /\ f[0] = <<>>
      /\ \A m \in 1..n : f[m] = IF m \in at THEN Append(f[m - 1], s[m]) ELSE f[m - 1]
  <2>1. \A m \in 0..n : f[m] = IF m = 0 THEN <<>>
                               ELSE IF m \in at THEN Append(f[m - 1], s[m]) ELSE f[m - 1]
    BY Zenon DEF IsPick
  <2>2. 0 \in 0..n /\ \A m \in 1..n : m \in 0..n /\ m # 0
    BY <1>1
  <2>. QED
    BY <2>1, <2>2, Zenon
<1>3. Good(0)
  BY <1>2
<1>4. ASSUME NEW m \in 1..n, Good(m - 1) PROVE Good(m)
  <2>1. m - 1 \in Nat /\ s[m] \in T /\ f[m - 1] \in Seq(T)
    BY <1>4
  <2>2. CASE m \notin at
    <3>1. f[m] = f[m - 1]
      BY <1>2, <2>2
    <3>2. (1..m) \cap at = (1..(m - 1)) \cap at
      BY <2>2
    <3>. QED
      BY <1>4, <3>1, <3>2
  <2>3. CASE m \in at
    <3>. DEFINE p == f[m - 1]
                r == f[m]
    <3>1. r = Append(p, s[m])
      BY <1>2, <2>3
    <3>. HIDE DEF p, r
    <3>2. p \in Seq(T) /\ Len(p) \in Nat /\ DOMAIN p = 1..Len(p)
      BY <2>1 DEF p
    <3>3. /\ r \in Seq(T) /\ DOMAIN r = 1..(Len(p) + 1)
          /\ r[Len(p) + 1] = s[m] /\ \A k \in 1..Len(p) : r[k] = p[k]
      BY <2>1, <3>1, <3>2
    <3>4. (1..m) \cap at = ((1..(m - 1)) \cap at) \cup {m}
      BY <2>3
    <3>5. \A k \in DOMAIN p : \E i \in (1..(m - 1)) \cap at : p[k] = s[i]
      BY <1>4 DEF p
    <3>6. \A i \in (1..(m - 1)) \cap at : \E k \in DOMAIN p : p[k] = s[i]
      BY <1>4 DEF p
    <3>7. \A k, l \in DOMAIN p : k < l =>
             \E i, j \in (1..(m - 1)) \cap at : i < j /\ p[k] = s[i] /\ p[l] = s[j]
      BY <1>4 DEF p
    <3>8. \A k \in DOMAIN r : \E i \in (1..m) \cap at : r[k] = s[i]
      <4>1. TAKE k \in DOMAIN r
      <4>2. CASE k \in 1..Len(p)
        BY <4>2, <3>2, <3>3, <3>4, <3>5
      <4>3. CASE k = Len(p) + 1
        BY <4>3, <3>3, <3>4
      <4>. QED
        BY <4>2, <4>3, <3>2, <3>3
    <3>9. \A i \in (1..m) \cap at : \E k \in DOMAIN r : r[k] = s[i]
      <4>1. TAKE i \in (1..m) \cap at
      <4>2. CASE i = m
        <5>1. Len(p) + 1 \in DOMAIN r
          BY <3>2, <3>3
        <5>. QED
          BY <4>2, <5>1, <3>3
      <4>3. CASE i # m
        <5>1. PICK k \in DOMAIN p : p[k] = s[i]
          BY <4>3, <3>4, <3>6
        <5>2. k \in DOMAIN r /\ r[k] = s[i]
          BY <5>1, <3>2, <3>3
        <5>. QED
          BY <5>2
      <4>. QED
        BY <4>2, <4>3
    <3>10. \A k, l \in DOMAIN r : k < l =>
             \E i, j \in (1..m) \cap at : i < j /\ r[k] = s[i] /\ r[l] = s[j]
      <4>1. TAKE k, l \in DOMAIN r
      <4>2. HAVE k < l
      <4>3. CASE l \in 1..Len(p)
        <5>1. k \in DOMAIN p /\ l \in DOMAIN p
          BY <4>2, <4>3, <3>2, <3>3
        <5>2. PICK i, j \in (1..(m - 1)) \cap at : i < j /\ p[k] = s[i] /\ p[l] = s[j]
          BY <5>1, <4>2, <3>7
        <5>3. r[k] = p[k] /\ r[l] = p[l] /\ i \in (1..m) \cap at /\ j \in (1..m) \cap at
          BY <5>1, <3>2, <3>3, <3>4
        <5>. QED
          BY <5>2, <5>3
      <4>4. CASE l = Len(p) + 1
        <5>1. k \in DOMAIN p /\ r[k] = p[k] /\ r[l] = s[m]
          BY <4>2, <4>4, <3>2, <3>3
        <5>2. PICK i \in (1..(m - 1)) \cap at : p[k] = s[i]
          BY <5>1, <3>5
        <5>3. i < m /\ i \in (1..m) \cap at /\ m \in (1..m) \cap at
          BY <3>4
        <5>. QED
          BY <5>1, <5>2, <5>3
      <4>. QED
        BY <4>3, <4>4, <3>2, <3>3
    <3>. QED
      BY <3>3, <3>8, <3>9, <3>10 DEF r
  <2>. QED
    BY <2>2, <2>3
<1>5. Good(n)
  <2>. HIDE DEF Good
  <2>1. 0 \in P /\ \A m \in 1..n : m - 1 \in P => m \in P
    BY <1>1, <1>3, <1>4
  <2>2. n \in 0..n
    BY <1>1
  <2>. HIDE DEF P, n
  <2>3. 0..n \subseteq P
    BY <2>1, <1>1, Induction
  <2>4. n \in P
    BY <2>2, <2>3
  <2>. QED
    BY <2>4 DEF P
<1>6. (1..n) \cap at = DOMAIN s \cap at
  BY <1>1
<1>. QED
  <2>. DEFINE p == f[n]
  <2>1. p \in Seq(T) /\ \A k \in DOMAIN p : \E i \in DOMAIN s \cap at : p[k] = s[i]
    BY <1>5, <1>6
  <2>2. \A i \in DOMAIN s \cap at : \E k \in DOMAIN p : p[k] = s[i]
    BY <1>5, <1>6
  <2>3. \A k, l \in DOMAIN p : k < l =>
           \E i, j \in DOMAIN s \cap at : i < j /\ p[k] = s[i] /\ p[l] = s[j]
    <3>1. \A k, l \in DOMAIN p : k < l =>
             \E i, j \in (1..n) \cap at : i < j /\ p[k] = s[i] /\ p[l] = s[j]
      BY <1>5, Zenon
    <3>. QED
      BY <3>1, <1>6, Zenon
  <2>. QED
    BY <2>1, <2>2, <2>3 DEF Holding

LEMMA KeptHolds ==
  ASSUME NEW T, NEW s \in Seq(T), NEW at
  PROVE  Kept(s, at) \in Seq(T) /\ Holding(Kept(s, at), s, at)
<1>1. CASE at = DOMAIN s
  BY <1>1 DEF Kept, Holding
<1>2. CASE at # DOMAIN s
  <2>. DEFINE f == CHOOSE f : IsPick(f, s, at)
  <2>1. IsPick(f, s, at)
    BY PickExists
  <2>2. Kept(s, at) = f[Len(s)]
    BY <1>2, Zenon DEF Kept, IsPick
  <2>. HIDE DEF f
  <2>. QED
    BY <2>1, <2>2, PickHolds
<1>. QED
  BY <1>1, <1>2
-----------------------------------------------------------------------------
(***************************************************************************)
(* The queue file.                                                         *)
(***************************************************************************)
Kinds == {"conversation", "file", "bootstrap", "memory-update"}
Statuses == {"queued", "failed", "completed"} \cup InFlight
Item == [job : Nat, kind : Kinds, status : Statuses, batch : Nat]
Queue == [items : Seq(Item), active : Nat]

\* A queue of n jobs at most, each of which is there once.
Sound(q, n) ==
  /\ q \in Queue /\ q.active \in 0..n
  /\ \A i \in DOMAIN q.items : q.items[i].job \in 1..n
  /\ \A i, k \in DOMAIN q.items : q.items[i].job = q.items[k].job => i = k

\* The item at place a leads the one at place i.
Leads(q, a, i) ==
  /\ q.items[a].job = q.active
  /\ \/ a = i
     \/ /\ q.items[a].kind = "conversation" /\ q.items[i].kind = "conversation"
        /\ q.items[a].batch = q.items[i].batch

\* The active item is in flight, and what is in flight is led by it.
Led(q) ==
  /\ \A i \in DOMAIN q.items : q.items[i].job = q.active => q.items[i].status \in InFlight
  /\ \A i \in DOMAIN q.items : q.items[i].status \in InFlight => \E a \in DOMAIN q.items : Leads(q, a, i)

Quiet(q) == \A i \in DOMAIN q.items : q.items[i].status \notin InFlight

\* Every conversation of q is still in r.
HasTalk(q, j) == \E i \in DOMAIN q.items : q.items[i].job = j /\ q.items[i].kind = "conversation"
Keeps(q, r) == \A j \in Nat : HasTalk(q, j) => HasTalk(r, j)

LEMMA QueueFields ==
  ASSUME NEW q \in Queue
  PROVE  /\ q.items \in Seq(Item) /\ q.active \in Nat
         /\ \A i \in DOMAIN q.items : q.items[i] \in Item
         /\ ItemsOf(q) \subseteq Item
         /\ q = [items |-> q.items, active |-> q.active]
BY DEF Queue, ItemsOf

LEMMA ItemFields ==
  ASSUME NEW x \in Item
  PROVE  /\ x.job \in Nat /\ x.kind \in Kinds /\ x.status \in Statuses /\ x.batch \in Nat
         /\ \A s \in Statuses : /\ [x EXCEPT !.status = s] \in Item
                                /\ [x EXCEPT !.status = s].job = x.job
                                /\ [x EXCEPT !.status = s].kind = x.kind
                                /\ [x EXCEPT !.status = s].batch = x.batch
                                /\ [x EXCEPT !.status = s].status = s
         /\ \A s \in Statuses, b \in Nat :
              /\ [x EXCEPT !.status = s, !.batch = b] \in Item
              /\ [x EXCEPT !.status = s, !.batch = b].job = x.job
              /\ [x EXCEPT !.status = s, !.batch = b].kind = x.kind
              /\ [x EXCEPT !.status = s, !.batch = b].batch = b
              /\ [x EXCEPT !.status = s, !.batch = b].status = s
BY DEF Item

(* The one item of a job. *)
LEMMA ItemOfPlace ==
  ASSUME NEW n \in Nat, NEW q, Sound(q, n), NEW i \in DOMAIN q.items
  PROVE  InQueue(q, q.items[i].job) /\ ItemOf(q, q.items[i].job) = q.items[i]
<1>. DEFINE j == q.items[i].job
<1>1. q.items[i] \in ItemsOf(q) /\ q.items[i].job = j
  BY DEF ItemsOf
<1>2. ASSUME NEW x \in ItemsOf(q), x.job = j PROVE x = q.items[i]
  BY <1>2 DEF Sound, ItemsOf
<1>. HIDE DEF j
<1>3. ItemOf(q, j) = q.items[i]
  BY <1>1, <1>2 DEF ItemOf
<1>. QED
  BY <1>1, <1>3 DEF j, InQueue

LEMMA PlaceOfJob ==
  ASSUME NEW q, NEW j, InQueue(q, j)
  PROVE  \E i \in DOMAIN q.items : q.items[i].job = j
BY DEF InQueue, ItemsOf

(* New labels on the items of a queue: r has q's jobs at q's places. *)
Relabeled(q, r) ==
  /\ r \in Queue /\ DOMAIN r.items = DOMAIN q.items
  /\ \A i \in DOMAIN q.items : r.items[i].job = q.items[i].job /\ r.items[i].kind = q.items[i].kind

LEMMA RelabeledSound ==
  ASSUME NEW n \in Nat, NEW q, NEW r, Sound(q, n), Relabeled(q, r), r.active \in 0..n
  PROVE  Sound(r, n) /\ Keeps(q, r)
<1>1. Sound(r, n)
  BY DEF Sound, Relabeled
<1>2. Keeps(q, r)
  BY DEF Relabeled, Keeps, HasTalk
<1>. QED
  BY <1>1, <1>2

LEMMA Relabels ==
  ASSUME NEW q \in Queue, NEW f, DOMAIN f = DOMAIN q.items,
         f = [i \in DOMAIN q.items |-> f[i]],
         \A i \in DOMAIN q.items : /\ f[i] \in Item /\ f[i].job = q.items[i].job
                                   /\ f[i].kind = q.items[i].kind
  PROVE  /\ f \in Seq(Item)
         /\ Relabeled(q, [q EXCEPT !.items = f])
         /\ [q EXCEPT !.items = f].items = f /\ [q EXCEPT !.items = f].active = q.active
<1>1. q.items \in Seq(Item)
  BY QueueFields
<1>2. DOMAIN q.items = 1..Len(q.items) /\ Len(q.items) \in Nat
  BY <1>1
<1>3. f \in Seq(Item)
  BY <1>2
<1>4. [q EXCEPT !.items = f] \in Queue
  BY <1>3 DEF Queue
<1>5. [q EXCEPT !.items = f].items = f /\ [q EXCEPT !.items = f].active = q.active
  BY DEF Queue
<1>. QED
  BY <1>3, <1>4, <1>5 DEF Relabeled

(* Some of the items of a queue. *)
LEMMA PickedSound ==
  ASSUME NEW n \in Nat, NEW q, Sound(q, n), NEW at, NEW r \in Queue,
         r.items = Kept(q.items, at), r.active \in 0..n
  PROVE  /\ Sound(r, n) /\ Holding(r.items, q.items, at)
         /\ \A j \in Nat :
              HasTalk(q, j) /\ (\A i \in DOMAIN q.items : q.items[i].job = j => i \in at) => HasTalk(r, j)
<1>1. q.items \in Seq(Item)
  BY QueueFields DEF Sound
<1>2. r.items \in Seq(Item) /\ Holding(r.items, q.items, at)
  BY <1>1, KeptHolds
<1>. DEFINE s == q.items
            p == r.items
<1>3. /\ \A k \in DOMAIN p : \E i \in DOMAIN s \cap at : p[k] = s[i]
      /\ \A i \in DOMAIN s \cap at : \E k \in DOMAIN p : p[k] = s[i]
      /\ \A k, l \in DOMAIN p : k < l =>
           \E i, j \in DOMAIN s \cap at : i < j /\ p[k] = s[i] /\ p[l] = s[j]
  BY <1>2, Zenon DEF Holding
<1>4. \A k \in DOMAIN p : p[k].job \in 1..n
  BY <1>3 DEF Sound
<1>5. ASSUME NEW k \in DOMAIN p, NEW l \in DOMAIN p, k < l PROVE p[k].job # p[l].job
  <2>1. PICK i, j \in DOMAIN s \cap at : i < j /\ p[k] = s[i] /\ p[l] = s[j]
    BY <1>3, <1>5
  <2>2. i \in Nat /\ j \in Nat /\ i # j
    BY <1>1, <2>1
  <2>. QED
    BY <2>1, <2>2 DEF Sound
<1>6. \A k, l \in DOMAIN p : p[k].job = p[l].job => k = l
  <2>1. \A k, l \in DOMAIN p : k \in Nat /\ l \in Nat /\ (k < l \/ l < k \/ k = l)
    BY <1>2
  <2>. QED
    BY <1>5, <2>1
<1>7. ASSUME NEW j \in Nat, HasTalk(q, j), \A i \in DOMAIN q.items : q.items[i].job = j => i \in at
      PROVE  HasTalk(r, j)
  BY <1>3, <1>7 DEF HasTalk
<1>. QED
  BY <1>2, <1>4, <1>6, <1>7 DEF Sound

LEMMA PickedKeeps ==
  ASSUME NEW n \in Nat, NEW q, Sound(q, n), NEW at, NEW r \in Queue,
         r.items = Kept(q.items, at), r.active \in 0..n,
         \A i \in DOMAIN q.items : q.items[i].kind = "conversation" => i \in at
  PROVE  Sound(r, n) /\ Keeps(q, r)
<1>1. ASSUME NEW j \in Nat, HasTalk(q, j) PROVE \A i \in DOMAIN q.items : q.items[i].job = j => i \in at
  BY <1>1 DEF HasTalk, Sound
<1>. QED
  BY <1>1, PickedSound DEF Keeps
-----------------------------------------------------------------------------
(* Finalizing: after Validated nothing is in flight, and no conversation is *)
(* gone.                                                                    *)
LEMMA ValidatedQuiet ==
  ASSUME NEW n \in Nat, NEW q, Sound(q, n), Led(q)
  PROVE  Sound(Validated(q), n) /\ Led(Validated(q)) /\ Quiet(Validated(q)) /\ Keeps(q, Validated(q))
<1>1. CASE ~InQueue(q, q.active)
  <2>1. Validated(q) = q
    BY <1>1 DEF Validated
  <2>2. \A a \in DOMAIN q.items : q.items[a].job # q.active
    BY <1>1, ItemOfPlace
  <2>3. Quiet(q)
    BY <2>2 DEF Quiet, Led, Leads
  <2>. QED
    BY <2>1, <2>3 DEF Keeps
<1>2. CASE InQueue(q, q.active)
  <2>1. PICK a \in DOMAIN q.items : q.items[a].job = q.active
    BY <1>2, PlaceOfJob
  <2>. DEFINE active == ItemOf(q, q.active)
              Judged(x) == IF active.kind = "conversation" THEN SameBatch(active, x)
                                                           ELSE x = active
              to(x) == IF Valid(x) THEN "completed" ELSE "failed"
              Labeled(x) == [x EXCEPT !.status = to(x)]
              f == [i \in DOMAIN q.items |-> IF Judged(q.items[i]) THEN Labeled(q.items[i])
                                                                   ELSE q.items[i]]
              judged == [[q EXCEPT !.items = f] EXCEPT !.active = 0]
              at == {i \in DOMAIN f : ~(f[i].job = active.job /\ Prunable(f[i]))}
  <2>2. q \in Queue /\ active = q.items[a] /\ active.status \in InFlight
    BY <2>1, ItemOfPlace DEF Sound, Led
  <2>3. \A i \in DOMAIN q.items : q.items[i] \in Item
    BY <2>2, QueueFields
  <2>4. Validated(q) = [judged EXCEPT !.items = Kept(f, at)]
    <3>1. judged.items = f
      BY <2>2 DEF Queue
    <3>2. Validated(q) =
            [judged EXCEPT !.items = Kept(judged.items, {i \in DOMAIN judged.items :
               ~(judged.items[i].job = active.job /\ Prunable(judged.items[i]))})]
      BY <1>2, <2>2, Zenon DEF Validated, Changed
    <3>. QED
      BY <3>1, <3>2, Zenon
  <2>5. ASSUME NEW x \in Item
        PROVE  /\ Labeled(x) \in Item /\ Labeled(x).job = x.job /\ Labeled(x).kind = x.kind
               /\ Labeled(x).status \notin InFlight
    <3>. DEFINE t == to(x)
    <3>1. t \in Statuses /\ t \notin InFlight
      BY DEF Statuses, InFlight
    <3>. HIDE DEF t
    <3>2. /\ [x EXCEPT !.status = t] \in Item /\ [x EXCEPT !.status = t].job = x.job
          /\ [x EXCEPT !.status = t].kind = x.kind /\ [x EXCEPT !.status = t].status = t
      BY <3>1 DEF Item
    <3>3. Labeled(x) = [x EXCEPT !.status = t]
      BY DEF t
    <3>. HIDE DEF Labeled
    <3>. QED
      BY <3>1, <3>2, <3>3, Zenon
  <2>6. ASSUME NEW i \in DOMAIN q.items
        PROVE  /\ f[i] \in Item /\ f[i].job = q.items[i].job /\ f[i].kind = q.items[i].kind
               /\ Judged(q.items[i]) => f[i].status \notin InFlight
               /\ ~Judged(q.items[i]) => f[i] = q.items[i]
    <3>. HIDE DEF Judged, Labeled
    <3>1. CASE Judged(q.items[i])
      <4>1. f[i] = Labeled(q.items[i])
        BY <3>1
      <4>. HIDE DEF f
      <4>. QED
        BY <3>1, <4>1, <2>3, <2>5
    <3>2. CASE ~Judged(q.items[i])
      <4>1. f[i] = q.items[i]
        BY <3>2
      <4>. HIDE DEF f
      <4>. QED
        BY <3>2, <4>1, <2>3
    <3>. QED
      BY <3>1, <3>2
  <2>7. ASSUME NEW i \in DOMAIN q.items, q.items[i].status \in InFlight PROVE Judged(q.items[i])
    <3>1. PICK b \in DOMAIN q.items : Leads(q, b, i)
      BY <2>7 DEF Led
    <3>2. b = a
      BY <2>1, <3>1 DEF Leads, Sound
    <3>. QED
      BY <3>1, <3>2, <2>2, <2>7 DEF Leads, SameBatch
  <2>8. \A i \in DOMAIN q.items : f[i].status \notin InFlight
    BY <2>6, <2>7
  <2>9. DOMAIN f = DOMAIN q.items /\ f = [i \in DOMAIN q.items |-> f[i]]
    OBVIOUS
  <2>. DEFINE p == [q EXCEPT !.items = f]
  <2>. HIDE DEF f, Judged, Labeled, active
  <2>10. f \in Seq(Item) /\ Relabeled(q, p) /\ p.items = f
    <3>1. \A i \in DOMAIN q.items : /\ f[i] \in Item /\ f[i].job = q.items[i].job
                                   /\ f[i].kind = q.items[i].kind
      BY <2>6
    <3>. QED
      BY <2>2, <2>9, <3>1, Relabels
  <2>. HIDE DEF p
  <2>11. p \in Queue /\ judged = [p EXCEPT !.active = 0]
    BY <2>10 DEF Relabeled, p
  <2>12. judged \in Queue /\ judged.items = f /\ judged.active = 0
    BY <2>10, <2>11 DEF Queue
  <2>13. Relabeled(q, judged)
    BY <2>10, <2>12 DEF Relabeled
  <2>. HIDE DEF judged, at
  <2>14. Sound(judged, n) /\ Keeps(q, judged)
    BY <2>12, <2>13, RelabeledSound
  <2>15. Kept(f, at) \in Seq(Item) /\ Holding(Kept(f, at), f, at)
    BY <2>10, KeptHolds
  <2>16. Validated(q) \in Queue /\ Validated(q).items = Kept(judged.items, at) /\ Validated(q).active = 0
    BY <2>4, <2>12, <2>15 DEF Queue
  <2>17. \A i \in DOMAIN judged.items : judged.items[i].kind = "conversation" => i \in at
    BY <2>12 DEF at, Prunable
  <2>18. Sound(Validated(q), n) /\ Keeps(judged, Validated(q))
    BY <2>14, <2>16, <2>17, PickedKeeps
  <2>19. Quiet(Validated(q))
    <3>. DEFINE kept == Validated(q).items
    <3>1. kept = Kept(f, at)
      BY <2>12, <2>16
    <3>. HIDE DEF kept
    <3>2. \A k \in DOMAIN kept : \E i \in DOMAIN f : kept[k] = f[i]
      BY <2>15, <3>1, Zenon DEF Holding
    <3>3. \A k \in DOMAIN kept : kept[k].status \notin InFlight
      BY <2>8, <2>9, <3>2
    <3>. QED
      BY <3>3 DEF Quiet, kept
  <2>20. Led(Validated(q))
    <3>1. \A i \in DOMAIN Validated(q).items : Validated(q).items[i].job # 0
      BY <2>18 DEF Sound
    <3>. QED
      BY <2>16, <2>19, <3>1 DEF Led, Quiet
  <2>21. Keeps(q, Validated(q))
    BY <2>14, <2>18 DEF Keeps
  <2>. QED
    BY <2>18, <2>19, <2>20, <2>21
<1>. QED
  BY <1>1, <1>2

LEMMA PrunedLed ==
  ASSUME NEW n \in Nat, NEW q, Sound(q, n), Led(q)
  PROVE  Sound(Pruned(q), n) /\ Led(Pruned(q)) /\ Keeps(q, Pruned(q))
<1>. DEFINE s == q.items
            at == {i \in DOMAIN q.items : ~Prunable(q.items[i])}
            r == Pruned(q)
            kept == Kept(q.items, at)
<1>1. q \in Queue /\ s \in Seq(Item) /\ q.active \in Nat
  BY QueueFields DEF Sound
<1>2. kept \in Seq(Item) /\ Holding(kept, s, at)
  BY <1>1, KeptHolds
<1>3. r = [items |-> kept,
           active |-> IF \E i \in DOMAIN kept : kept[i].job = q.active THEN q.active ELSE 0]
  BY DEF Pruned
<1>. HIDE DEF r
<1>4. /\ r \in Queue /\ r.items = kept
      /\ r.active = IF \E i \in DOMAIN kept : kept[i].job = q.active THEN q.active ELSE 0
  BY <1>1, <1>2, <1>3 DEF Queue
<1>5. \A i \in DOMAIN q.items : q.items[i].kind = "conversation" => i \in at
  BY DEF Prunable
<1>6. Sound(r, n) /\ Keeps(q, r)
  <2>1. r.active \in 0..n
    BY <1>4 DEF Sound
  <2>. HIDE DEF at
  <2>. QED
    BY <2>1, <1>4, <1>5, PickedKeeps
<1>7. /\ \A k \in DOMAIN kept : \E i \in DOMAIN s : kept[k] = s[i]
      /\ \A i \in DOMAIN s : s[i].status \in InFlight => \E k \in DOMAIN kept : kept[k] = s[i]
  BY <1>2 DEF Holding, Prunable, InFlight
<1>8. ASSUME NEW k \in DOMAIN kept, kept[k].status \in InFlight
      PROVE  \E a \in DOMAIN kept : Leads(r, a, k)
  <2>1. PICK i \in DOMAIN s : kept[k] = s[i]
    BY <1>7
  <2>2. PICK b \in DOMAIN s : Leads(q, b, i)
    BY <1>8, <2>1 DEF Led
  <2>3. s[b].job = q.active /\ s[b].status \in InFlight
    BY <2>2 DEF Leads, Led
  <2>4. PICK a \in DOMAIN kept : kept[a] = s[b]
    BY <1>7, <2>3
  <2>5. r.active = q.active
    BY <1>4, <2>3, <2>4
  <2>6. CASE b = i
    <3>1. Leads(r, k, k)
      BY <1>4, <2>1, <2>3, <2>5, <2>6 DEF Leads
    <3>. QED
      BY <3>1
  <2>7. CASE b # i
    <3>1. Leads(r, a, k)
      BY <1>4, <2>1, <2>2, <2>3, <2>4, <2>5, <2>7 DEF Leads
    <3>. QED
      BY <3>1
  <2>. QED
    BY <2>6, <2>7
<1>9. ASSUME NEW k \in DOMAIN kept, kept[k].job = r.active PROVE kept[k].status \in InFlight
  <2>1. r.active # 0
    BY <1>4, <1>6, <1>9 DEF Sound
  <2>2. r.active = q.active
    BY <1>4, <2>1
  <2>3. PICK i \in DOMAIN s : kept[k] = s[i]
    BY <1>7
  <2>. QED
    BY <1>9, <2>2, <2>3 DEF Led
<1>10. Led(r)
  BY <1>4, <1>8, <1>9 DEF Led
<1>. QED
  BY <1>6, <1>10 DEF r

LEMMA HeldOrQuiet ==
  ASSUME NEW n \in Nat, NEW q, Sound(q, n), Led(q)
  PROVE  /\ Sound(Reconciled(q), n) /\ Led(Reconciled(q)) /\ Keeps(q, Reconciled(q))
         /\ ~Holds(q) => Quiet(Reconciled(q))
<1>1. CASE Holds(q)
  BY <1>1 DEF Reconciled, Keeps
<1>2. CASE ~Holds(q)
  BY <1>2, ValidatedQuiet DEF Reconciled
<1>. QED
  BY <1>1, <1>2

(* A poll finalizes at most; what it leaves in flight is still led. *)
LEMMA PolledLed ==
  ASSUME NEW n \in Nat, NEW q, Sound(q, n), Led(q)
  PROVE  Sound(Polled(q), n) /\ Led(Polled(q)) /\ Keeps(q, Polled(q))
<1>1. Sound(Pruned(q), n) /\ Led(Pruned(q)) /\ Keeps(q, Pruned(q))
  BY PrunedLed
<1>2. Polled(q) \in {Pruned(q), Reconciled(Pruned(q))}
  BY DEF Polled
<1>3. Keeps(Pruned(q), Reconciled(Pruned(q)))
      /\ Sound(Reconciled(Pruned(q)), n) /\ Led(Reconciled(Pruned(q)))
  BY <1>1, HeldOrQuiet
<1>. QED
  BY <1>1, <1>2, <1>3 DEF Keeps

\* A dispatch keeps a sound queue, in which only its own items are in flight.
Dispatch == [leader : Nat, batch : Nat, copy : Queue, at : {"launch", "mark"}, ids : SUBSET Nat]
Own(d, item) == item.job = d.leader \/ item.batch = d.batch
Drawn(d, n) ==
  /\ d \in Dispatch /\ Sound(d.copy, n)
  /\ \A i \in DOMAIN d.copy.items : d.copy.items[i].status \in InFlight => Own(d, d.copy.items[i])
AllDrawn(ds, n) == \A d \in ds : Drawn(d, n)

LEMMA SoundMore ==
  ASSUME NEW n \in Nat, NEW m \in Nat, n <= m, NEW q, Sound(q, n)
  PROVE  Sound(q, m)
<1>1. \A j \in 1..n : j \in 1..m
  OBVIOUS
<1>. QED
  BY <1>1 DEF Sound

LEMMA DrawnMore ==
  ASSUME NEW n \in Nat, NEW m \in Nat, n <= m, NEW ds, AllDrawn(ds, n)
  PROVE  AllDrawn(ds, m)
BY SoundMore DEF AllDrawn, Drawn

LEMMA HandsLed ==
  ASSUME NEW n \in Nat, NEW r, Sound(r, n), Quiet(r), AllDrawn(dispatches, n),
         NEW first \in DOMAIN r.items, r.items[first].status = "queued", Hands(r, first)
  PROVE  Sound(queue', n) /\ Led(queue') /\ Keeps(r, queue') /\ AllDrawn(dispatches', n)
<1>. DEFINE leader == r.items[first]
            talk == leader.kind = "conversation"
            chosen == IF talk THEN BatchOf(r, first) ELSE {first}
            batch == IF talk THEN leader.job ELSE 0
            f == [i \in DOMAIN r.items |-> IF i \notin chosen THEN r.items[i]
                    ELSE [r.items[i] EXCEPT !.status = "dispatching", !.batch = batch]]
            next == [active |-> leader.job, items |-> f]
            d == [leader |-> leader.job, batch |-> batch, copy |-> next, at |-> "launch",
                  ids |-> {r.items[i].job : i \in chosen}]
<1>1. queue' = next /\ dispatches' = dispatches \cup {d}
  BY Zenon DEF Hands
<1>2. /\ r \in Queue /\ r.items \in Seq(Item) /\ Len(r.items) \in Nat
      /\ DOMAIN r.items = 1..Len(r.items) /\ \A i \in DOMAIN r.items : r.items[i] \in Item
  BY QueueFields DEF Sound
<1>3. leader.job \in Nat /\ leader.job \in 1..n /\ batch \in Nat
  BY <1>2 DEF Sound, Item
<1>4. /\ chosen \subseteq DOMAIN r.items /\ first \in chosen
      /\ \A i \in chosen : talk => r.items[i].kind = "conversation"
      /\ \A i \in chosen : ~talk => i = first
  <2>1. CASE talk
    <3>1. chosen = BatchOf(r, first)
      BY <2>1
    <3>2. \A i \in chosen : i \in first..Len(r.items) /\ i \in first..i
      BY <1>2, <3>1 DEF BatchOf
    <3>3. first \in first..Len(r.items) /\ \A k \in first..first : k = first
      BY <1>2
    <3>4. first \in chosen
      BY <2>1, <3>1, <3>3 DEF BatchOf
    <3>5. \A i \in chosen : r.items[i].kind = "conversation"
      BY <3>1, <3>2 DEF BatchOf
    <3>. QED
      BY <1>2, <2>1, <3>2, <3>4, <3>5
  <2>2. CASE ~talk
    BY <2>2
  <2>. QED
    BY <2>1, <2>2
<1>. HIDE DEF chosen, batch
<1>5. ASSUME NEW i \in DOMAIN r.items
      PROVE  /\ f[i] \in Item /\ f[i].job = r.items[i].job /\ f[i].kind = r.items[i].kind
             /\ i \in chosen => f[i].status \in InFlight /\ f[i].batch = batch
             /\ i \notin chosen => f[i] = r.items[i]
  <2>1. CASE i \notin chosen
    BY <1>2, <2>1
  <2>2. CASE i \in chosen
    <3>. DEFINE x == r.items[i]
    <3>1. f[i] = [x EXCEPT !.status = "dispatching", !.batch = batch]
      BY <2>2
    <3>2. x \in Item /\ "dispatching" \in Statuses /\ "dispatching" \in InFlight
      BY <1>2 DEF Statuses, InFlight
    <3>. HIDE DEF f
    <3>. QED
      BY <2>2, <3>1, <3>2, <1>3 DEF Item
  <2>. QED
    BY <2>1, <2>2
<1>6. DOMAIN f = DOMAIN r.items /\ f = [i \in DOMAIN r.items |-> f[i]]
  OBVIOUS
<1>7. next.items = f /\ next.active = leader.job
  OBVIOUS
<1>. HIDE DEF f
<1>8. f \in Seq(Item)
  <2>1. \A i \in DOMAIN r.items : f[i] \in Item
    BY <1>5
  <2>2. f \in [1..Len(r.items) -> Item]
    BY <2>1, <1>2, <1>6
  <2>. QED
    BY <2>2, <1>2
<1>9. next \in Queue
  BY <1>3, <1>8 DEF Queue
<1>. HIDE DEF next
<1>10. Relabeled(r, next)
  BY <1>5, <1>6, <1>7, <1>9 DEF Relabeled
<1>11. Sound(next, n) /\ Keeps(r, next)
  <2>1. next.active \in 0..n
    BY <1>3, <1>7
  <2>. QED
    BY <2>1, <1>10, RelabeledSound
<1>12. ASSUME NEW i \in DOMAIN r.items, f[i].status \in InFlight PROVE i \in chosen
  BY <1>5, <1>12 DEF Quiet
<1>13. ASSUME NEW i \in DOMAIN next.items, next.items[i].status \in InFlight
       PROVE  Leads(next, first, i) /\ (next.items[i].job = leader.job \/ next.items[i].batch = batch)
  <2>1. i \in chosen /\ i \in DOMAIN r.items /\ first \in DOMAIN r.items
    BY <1>6, <1>7, <1>12, <1>13
  <2>2. f[i].batch = batch /\ f[first].batch = batch /\ f[first].job = leader.job
        /\ f[i].kind = r.items[i].kind /\ f[first].kind = leader.kind /\ f[i].job = r.items[i].job
    BY <1>4, <1>5, <2>1
  <2>3. i = first \/ (f[i].kind = "conversation" /\ f[first].kind = "conversation")
    BY <1>4, <2>1, <2>2
  <2>. QED
    BY <1>7, <2>2, <2>3 DEF Leads
<1>14. \A i \in DOMAIN next.items : next.items[i].job = next.active => next.items[i].status \in InFlight
  <2>1. TAKE i \in DOMAIN next.items
  <2>2. HAVE next.items[i].job = next.active
  <2>3. i = first
    BY <1>5, <1>6, <1>7, <2>2 DEF Sound
  <2>. QED
    BY <1>4, <1>5, <1>7, <2>3
<1>15. Led(next)
  <2>1. first \in DOMAIN next.items
    BY <1>6, <1>7
  <2>. QED
    BY <1>13, <1>14, <2>1 DEF Led
<1>16. Drawn(d, n)
  <2>1. \A i \in chosen : r.items[i].job \in Nat
    BY <1>2, <1>4 DEF Item
  <2>2. {r.items[i].job : i \in chosen} \in SUBSET Nat
    BY <2>1
  <2>3. d \in Dispatch
    BY <1>3, <1>9, <2>2 DEF Dispatch
  <2>4. d.copy = next /\ d.leader = leader.job /\ d.batch = batch
    OBVIOUS
  <2>. HIDE DEF d
  <2>5. \A i \in DOMAIN next.items : next.items[i].status \in InFlight => Own(d, next.items[i])
    BY <1>13, <2>4 DEF Own
  <2>. QED
    BY <1>11, <2>3, <2>4, <2>5 DEF Drawn
<1>. HIDE DEF d
<1>17. AllDrawn(dispatches', n)
  BY <1>1, <1>16 DEF AllDrawn
<1>. QED
  BY <1>1, <1>11, <1>15, <1>17

LEMMA DispatchesLed ==
  ASSUME NEW n \in Nat, NEW q, Sound(q, n), Led(q), AllDrawn(dispatches, n), Dispatches(q)
  PROVE  Sound(queue', n) /\ Led(queue') /\ Keeps(q, queue') /\ AllDrawn(dispatches', n)
<1>1. CASE Holds(q)
  BY <1>1 DEF Dispatches, Keeps
<1>2. CASE ~Holds(q)
  <2>. DEFINE r == Reconciled(q)
  <2>1. Sound(r, n) /\ Led(r) /\ Quiet(r) /\ Keeps(q, r)
    BY <1>2, HeldOrQuiet
  <2>2. \/ queue' = [r EXCEPT !.active = 0] /\ UNCHANGED dispatches
        \/ \E first \in DOMAIN r.items : r.items[first].status = "queued" /\ Hands(r, first)
    BY <1>2 DEF Dispatches
  <2>. HIDE DEF r
  <2>3. CASE queue' = [r EXCEPT !.active = 0] /\ UNCHANGED dispatches
    <3>. DEFINE p == [r EXCEPT !.active = 0]
    <3>1. p \in Queue /\ p.items = r.items /\ p.active = 0
      BY <2>1 DEF Sound, Queue
    <3>. HIDE DEF p
    <3>2. Sound(p, n) /\ Keeps(r, p)
      BY <2>1, <3>1, RelabeledSound DEF Relabeled
    <3>3. \A i \in DOMAIN p.items : p.items[i].job # 0
      BY <3>2 DEF Sound
    <3>4. Led(p)
      BY <2>1, <3>1, <3>3 DEF Led, Quiet
    <3>5. Keeps(q, p)
      BY <2>1, <3>2 DEF Keeps
    <3>6. queue' = p
      BY <2>3 DEF p
    <3>. QED
      BY <2>3, <3>2, <3>4, <3>5, <3>6
  <2>4. CASE \E first \in DOMAIN r.items : r.items[first].status = "queued" /\ Hands(r, first)
    <3>1. Sound(queue', n) /\ Led(queue') /\ Keeps(r, queue') /\ AllDrawn(dispatches', n)
      BY <2>1, <2>4, HandsLed
    <3>. QED
      BY <2>1, <3>1 DEF Keeps
  <2>. QED
    BY <2>2, <2>3, <2>4
<1>. QED
  BY <1>1, <1>2
-----------------------------------------------------------------------------
(* What every step does to the queue.                                      *)
QueueInv == jobs \in Nat /\ Sound(queue, jobs) /\ Led(queue) /\ AllDrawn(dispatches, jobs)

LEMMA InFlightFollows == QueueInv => InFlightIsActive
<1>. SUFFICES ASSUME QueueInv, NEW item \in ItemsOf(queue), item.status \in InFlight
              PROVE  /\ InQueue(queue, queue.active)
                     /\ item.job = queue.active \/ SameBatch(ItemOf(queue, queue.active), item)
  BY DEF InFlightIsActive
<1>1. PICK i \in DOMAIN queue.items : queue.items[i] = item
  BY DEF ItemsOf
<1>2. PICK a \in DOMAIN queue.items : Leads(queue, a, i)
  BY <1>1 DEF QueueInv, Led
<1>3. InQueue(queue, queue.active) /\ ItemOf(queue, queue.active) = queue.items[a]
  BY <1>2, ItemOfPlace DEF QueueInv, Leads
<1>. QED
  BY <1>1, <1>2, <1>3 DEF Leads, SameBatch

(* A dispatched item that is found running. *)
LEMMA RunningLed ==
  ASSUME NEW n \in Nat, NEW q, Sound(q, n), Led(q), NEW f,
         DOMAIN f = DOMAIN q.items, f = [i \in DOMAIN q.items |-> f[i]],
         \A i \in DOMAIN q.items :
            \/ f[i] = q.items[i]
            \/ q.items[i].status = "dispatching" /\ f[i] = [q.items[i] EXCEPT !.status = "running"]
  PROVE  LET r == [q EXCEPT !.items = f] IN Sound(r, n) /\ Led(r) /\ Keeps(q, r)
<1>. DEFINE r == [q EXCEPT !.items = f]
<1>1. q \in Queue /\ \A i \in DOMAIN q.items : q.items[i] \in Item
  BY QueueFields DEF Sound
<1>2. ASSUME NEW i \in DOMAIN q.items
      PROVE  /\ f[i] \in Item /\ f[i].job = q.items[i].job /\ f[i].kind = q.items[i].kind
             /\ f[i].batch = q.items[i].batch
             /\ f[i].status \in InFlight <=> q.items[i].status \in InFlight
  <2>. DEFINE x == q.items[i]
              y == f[i]
  <2>1. x \in Item /\ (y = x \/ (x.status = "dispatching" /\ y = [x EXCEPT !.status = "running"]))
    BY <1>1
  <2>2. "running" \in Statuses /\ "running" \in InFlight /\ "dispatching" \in InFlight
    BY DEF Statuses, InFlight
  <2>. HIDE DEF x, y
  <2>3. /\ y \in Item /\ y.job = x.job /\ y.kind = x.kind /\ y.batch = x.batch
        /\ y.status \in InFlight <=> x.status \in InFlight
    <3>1. CASE y = x
      BY <2>1, <3>1
    <3>2. CASE x.status = "dispatching" /\ y = [x EXCEPT !.status = "running"]
      BY <2>1, <2>2, <3>2 DEF Item
    <3>. QED
      BY <2>1, <3>1, <3>2
  <2>. QED
    BY <2>3 DEF x, y
<1>3. Relabeled(q, r) /\ r.items = f /\ r.active = q.active
  <2>1. \A i \in DOMAIN q.items : f[i] \in Item /\ f[i].job = q.items[i].job
                                  /\ f[i].kind = q.items[i].kind
    BY <1>2
  <2>. QED
    BY <1>1, <2>1, Relabels
<1>. HIDE DEF r
<1>4. Sound(r, n) /\ Keeps(q, r)
  <2>1. r.active \in 0..n
    BY <1>3 DEF Sound
  <2>. QED
    BY <2>1, <1>3, RelabeledSound
<1>5. \A i \in DOMAIN r.items : r.items[i].job = r.active => r.items[i].status \in InFlight
  BY <1>2, <1>3 DEF Led
<1>6. ASSUME NEW i \in DOMAIN r.items, r.items[i].status \in InFlight
      PROVE  \E a \in DOMAIN r.items : Leads(r, a, i)
  <2>1. PICK a \in DOMAIN q.items : Leads(q, a, i)
    BY <1>2, <1>3, <1>6 DEF Led
  <2>2. Leads(r, a, i)
    BY <1>2, <1>3, <2>1 DEF Leads
  <2>. QED
    BY <1>3, <2>2
<1>7. Led(r)
  BY <1>5, <1>6 DEF Led
<1>. QED
  BY <1>4, <1>7 DEF r

LEMMA SubmissionQueue ==
  ASSUME QueueInv, NEW d \in dispatches, Submitted(d) \/ Marked(d), UNCHANGED jobs
  PROVE  AllDrawn(dispatches', jobs)
<1>1. d \in Dispatch
  BY DEF QueueInv, AllDrawn, Drawn
<1>. DEFINE e == [d EXCEPT !.at = "mark"]
<1>2. e \in Dispatch /\ e.copy = d.copy /\ e.leader = d.leader /\ e.batch = d.batch
  BY <1>1 DEF Dispatch
<1>. HIDE DEF e
<1>3. Drawn(e, jobs)
  BY <1>2 DEF QueueInv, AllDrawn, Drawn, Own
<1>4. dispatches' \subseteq dispatches \cup {e}
  BY DEF Submitted, Marked, e
<1>. QED
  BY <1>3, <1>4 DEF QueueInv, AllDrawn

LEMMA MarksQueue ==
  ASSUME QueueInv, NEW d \in dispatches, Marks(d)
  PROVE  QueueInv' /\ Keeps(queue, queue')
<1>. DEFINE Mine(item) == /\ item.status = "dispatching"
                          /\ IF d.batch # 0 THEN item.batch = d.batch ELSE item.job = d.leader
            f == [i \in DOMAIN queue.items |->
                    IF Mine(queue.items[i]) THEN [queue.items[i] EXCEPT !.status = "running"]
                                            ELSE queue.items[i]]
<1>1. queue' = queue \/ queue' = [queue EXCEPT !.items = f]
  BY Zenon DEF Marks, Changed
<1>2. AllDrawn(dispatches', jobs) /\ jobs' = jobs
  BY SubmissionQueue DEF Marks
<1>3. DOMAIN f = DOMAIN queue.items /\ f = [i \in DOMAIN queue.items |-> f[i]]
  OBVIOUS
<1>4. \A i \in DOMAIN queue.items :
         \/ f[i] = queue.items[i]
         \/ /\ queue.items[i].status = "dispatching"
            /\ f[i] = [queue.items[i] EXCEPT !.status = "running"]
  OBVIOUS
<1>. HIDE DEF f
<1>5. Sound(queue', jobs) /\ Led(queue') /\ Keeps(queue, queue')
  <2>1. CASE queue' = queue
    BY <2>1 DEF QueueInv, Keeps
  <2>2. CASE queue' = [queue EXCEPT !.items = f]
    BY <2>2, <1>3, <1>4, RunningLed DEF QueueInv
  <2>. QED
    BY <1>1, <2>1, <2>2
<1>. QED
  BY <1>2, <1>5 DEF QueueInv

LEMMA TakesQueue ==
  ASSUME QueueInv, NEW heard \in BOOLEAN, Takes(heard)
  PROVE  QueueInv' /\ Keeps(queue, queue')
<1>. DEFINE Mine(item) == item.job = queue.active /\ item.status = "dispatching"
            f == [i \in DOMAIN queue.items |->
                    IF Mine(queue.items[i]) THEN [queue.items[i] EXCEPT !.status = "running"]
                                            ELSE queue.items[i]]
<1>1. queue' = queue \/ queue' = [queue EXCEPT !.items = f]
  BY Zenon DEF Takes, Changed
<1>2. AllDrawn(dispatches', jobs) /\ jobs' = jobs
  BY DEF Takes, QueueInv
<1>3. DOMAIN f = DOMAIN queue.items /\ f = [i \in DOMAIN queue.items |-> f[i]]
  OBVIOUS
<1>4. \A i \in DOMAIN queue.items :
         \/ f[i] = queue.items[i]
         \/ /\ queue.items[i].status = "dispatching"
            /\ f[i] = [queue.items[i] EXCEPT !.status = "running"]
  OBVIOUS
<1>. HIDE DEF f
<1>5. Sound(queue', jobs) /\ Led(queue') /\ Keeps(queue, queue')
  <2>1. CASE queue' = queue
    BY <2>1 DEF QueueInv, Keeps
  <2>2. CASE queue' = [queue EXCEPT !.items = f]
    BY <2>2, <1>3, <1>4, RunningLed DEF QueueInv
  <2>. QED
    BY <1>1, <2>1, <2>2
<1>. QED
  BY <1>2, <1>5 DEF QueueInv

(* The copy a failed call saves has nothing in flight. *)
LEMMA FailsQueue ==
  ASSUME QueueInv, NEW d \in dispatches, SubmitFails(d)
  PROVE  QueueInv'
<1>. DEFINE q == d.copy
            Mine(item) == item.job = d.leader \/ item.batch = d.batch
            f == [i \in DOMAIN q.items |->
                    IF Mine(q.items[i]) THEN [q.items[i] EXCEPT !.status = "failed"] ELSE q.items[i]]
            p == [q EXCEPT !.items = f]
            r == [p EXCEPT !.active = 0]
<1>1. queue' = r
  BY Zenon DEF SubmitFails, Changed
<1>2. /\ Sound(q, jobs) /\ q \in Queue /\ jobs' = jobs /\ dispatches' \subseteq dispatches
      /\ \A i \in DOMAIN q.items : q.items[i].status \in InFlight => Mine(q.items[i])
  BY DEF QueueInv, AllDrawn, Drawn, Sound, Own, SubmitFails
<1>. HIDE DEF q, Mine
<1>3. ASSUME NEW i \in DOMAIN q.items
      PROVE  /\ f[i] \in Item /\ f[i].job = q.items[i].job /\ f[i].kind = q.items[i].kind
             /\ f[i].status \notin InFlight
  <2>. DEFINE x == q.items[i]
              y == f[i]
  <2>1. x \in Item /\ "failed" \in Statuses /\ "failed" \notin InFlight
    BY <1>2, QueueFields DEF Statuses, InFlight
  <2>2. \/ y = x /\ x.status \notin InFlight
        \/ y = [x EXCEPT !.status = "failed"]
    BY <1>2
  <2>. HIDE DEF x, y
  <2>3. y \in Item /\ y.job = x.job /\ y.kind = x.kind /\ y.status \notin InFlight
    BY <2>1, <2>2 DEF Item
  <2>. QED
    BY <2>3 DEF x, y
<1>4. DOMAIN f = DOMAIN q.items /\ f = [i \in DOMAIN q.items |-> f[i]]
  OBVIOUS
<1>. HIDE DEF f
<1>5. Relabeled(q, p) /\ p.items = f
  <2>1. \A i \in DOMAIN q.items : f[i] \in Item /\ f[i].job = q.items[i].job
                                  /\ f[i].kind = q.items[i].kind
    BY <1>3
  <2>. QED
    BY <1>2, <1>4, <2>1, Relabels
<1>. HIDE DEF p
<1>6. r \in Queue /\ r.items = f /\ r.active = 0
  BY <1>5 DEF Relabeled, Queue
<1>. HIDE DEF r
<1>7. Relabeled(q, r)
  BY <1>5, <1>6 DEF Relabeled
<1>8. Sound(r, jobs)
  <2>1. r.active \in 0..jobs
    BY <1>6 DEF QueueInv
  <2>. QED
    BY <2>1, <1>2, <1>7, RelabeledSound DEF QueueInv
<1>9. Led(r)
  <2>1. \A i \in DOMAIN r.items : r.items[i].job # 0
    BY <1>8 DEF Sound
  <2>2. \A i \in DOMAIN r.items : r.items[i].status \notin InFlight
    BY <1>3, <1>4, <1>6
  <2>. QED
    BY <1>6, <2>1, <2>2 DEF Led
<1>. QED
  BY <1>1, <1>2, <1>8, <1>9 DEF QueueInv, AllDrawn

LEMMA StopsQueue ==
  ASSUME QueueInv, Stops
  PROVE  QueueInv' /\ Keeps(queue, queue')
<1>. DEFINE q == Validated(queue)
<1>1. Sound(q, jobs) /\ Led(q) /\ Keeps(queue, q)
  BY ValidatedQuiet DEF QueueInv
<1>2. Dispatches(q) /\ jobs' = jobs
  BY DEF Stops
<1>. HIDE DEF q
<1>3. Sound(queue', jobs) /\ Led(queue') /\ Keeps(q, queue') /\ AllDrawn(dispatches', jobs)
  BY <1>1, <1>2, DispatchesLed DEF QueueInv
<1>. QED
  BY <1>1, <1>2, <1>3 DEF QueueInv, Keeps

LEMMA PollsQueue ==
  ASSUME QueueInv, Polls
  PROVE  QueueInv' /\ Keeps(queue, queue')
<1>1. Sound(Polled(queue), jobs) /\ Led(Polled(queue)) /\ Keeps(queue, Polled(queue))
  BY PolledLed DEF QueueInv
<1>2. queue' = Polled(queue) /\ UNCHANGED <<dispatches, jobs>>
  BY DEF Polls
<1>. QED
  BY <1>1, <1>2 DEF QueueInv

\* New jobs, numbered on.
Fresh(new) ==
  /\ new \in Seq(Item)
  /\ \A i \in DOMAIN new : new[i].job = jobs + i /\ new[i].status = "queued"

LEMMA CreatesQueue ==
  ASSUME QueueInv, NEW new, Fresh(new), Creates(new)
  PROVE  /\ QueueInv' /\ Keeps(queue, queue') /\ jobs' = jobs + Len(new)
         /\ \A i \in DOMAIN new : new[i].kind = "conversation" => HasTalk(queue', jobs + i)
<1>. DEFINE q == Enqueued(queue, new)
            old == queue.items
            n == jobs + Len(new)
<1>1. /\ queue \in Queue /\ old \in Seq(Item) /\ new \in Seq(Item) /\ queue.active \in Nat
      /\ Len(old) \in Nat /\ Len(new) \in Nat /\ jobs \in Nat
      /\ DOMAIN old = 1..Len(old) /\ DOMAIN new = 1..Len(new)
  BY QueueFields DEF QueueInv, Sound, Fresh
<1>2. q \in Queue /\ q.items = old \o new /\ q.active = queue.active
  <2>1. old \o new \in Seq(Item) /\ q = [queue EXCEPT !.items = old \o new]
    BY <1>1 DEF Enqueued
  <2>. HIDE DEF q
  <2>. QED
    BY <2>1, <1>1 DEF Queue
<1>3. /\ DOMAIN q.items = 1..(Len(old) + Len(new))
      /\ \A i \in DOMAIN old : i \in DOMAIN q.items /\ q.items[i] = old[i]
      /\ \A i \in DOMAIN new : Len(old) + i \in DOMAIN q.items /\ q.items[Len(old) + i] = new[i]
      /\ \A i \in DOMAIN q.items : i \in DOMAIN old \/ i - Len(old) \in DOMAIN new
  <2>. HIDE DEF old
  <2>. QED
    BY <1>1, <1>2
<1>. HIDE DEF q
<1>4. /\ \A i \in DOMAIN old : old[i].job \in 1..jobs
      /\ \A i \in DOMAIN new : new[i].job = jobs + i /\ new[i].status = "queued"
  BY DEF QueueInv, Sound, Fresh
<1>. HIDE DEF old
<1>5. ASSUME NEW i \in DOMAIN q.items
      PROVE  \/ i \in DOMAIN old /\ q.items[i] = old[i] /\ q.items[i].job \in 1..jobs
             \/ /\ i - Len(old) \in DOMAIN new /\ q.items[i] = new[i - Len(old)]
                /\ q.items[i].job = jobs + (i - Len(old))
  <2>1. CASE i \in DOMAIN old
    BY <2>1, <1>3, <1>4
  <2>2. CASE i - Len(old) \in DOMAIN new
    <3>1. Len(old) + (i - Len(old)) = i
      BY <1>1, <1>3
    <3>. QED
      BY <2>2, <3>1, <1>3, <1>4
  <2>. QED
    BY <2>1, <2>2, <1>3
<1>6. n \in Nat /\ jobs <= n
  BY <1>1
<1>7. \A i \in DOMAIN q.items : q.items[i].job \in 1..n
  BY <1>1, <1>5
<1>8. ASSUME NEW i \in DOMAIN q.items, NEW k \in DOMAIN q.items, q.items[i].job = q.items[k].job
      PROVE  i = k
  <2>1. i \in Nat /\ k \in Nat
    BY <1>1, <1>3
  <2>2. CASE i \in DOMAIN old /\ q.items[i] = old[i] /\ q.items[i].job \in 1..jobs
    <3>1. ~(q.items[k].job = jobs + (k - Len(old)) /\ k - Len(old) \in DOMAIN new)
      BY <1>1, <1>8, <2>1, <2>2
    <3>2. k \in DOMAIN old /\ q.items[k] = old[k]
      BY <1>5, <3>1
    <3>. QED
      BY <1>8, <2>2, <3>2 DEF QueueInv, Sound, old
  <2>3. CASE i - Len(old) \in DOMAIN new /\ q.items[i].job = jobs + (i - Len(old))
    <3>1. ~(q.items[k].job \in 1..jobs)
      BY <1>1, <1>8, <2>1, <2>3
    <3>2. q.items[k].job = jobs + (k - Len(old))
      BY <1>5, <3>1
    <3>3. jobs + (i - Len(old)) = jobs + (k - Len(old))
      BY <1>8, <2>3, <3>2
    <3>4. \A L, b \in Nat : b + (i - L) = b + (k - L) => i = k
      BY <2>1
    <3>. QED
      BY <1>1, <3>3, <3>4
  <2>. QED
    BY <1>5, <2>2, <2>3
<1>9. Sound(q, n)
  <2>1. q.active \in 0..n
    BY <1>2, <1>6 DEF QueueInv, Sound
  <2>. QED
    BY <2>1, <1>2, <1>7, <1>8 DEF Sound
<1>10. Led(q)
  <2>1. ASSUME NEW i \in DOMAIN q.items, q.items[i].job = q.active PROVE q.items[i].status \in InFlight
    <3>2. CASE i \in DOMAIN old /\ q.items[i] = old[i]
      BY <2>1, <3>2, <1>2 DEF QueueInv, Led, old
    <3>3. CASE ~(i \in DOMAIN old /\ q.items[i] = old[i])
      <4>1. q.active = jobs + (i - Len(old)) /\ i - Len(old) \in DOMAIN new
        BY <1>5, <2>1, <3>3
      <4>2. q.active \in 0..jobs
        BY <1>2 DEF QueueInv, Sound
      <4>. QED
        BY <4>1, <4>2, <1>1
    <3>. QED
      BY <3>2, <3>3
  <2>2. ASSUME NEW i \in DOMAIN q.items, q.items[i].status \in InFlight
        PROVE  \E a \in DOMAIN q.items : Leads(q, a, i)
    <3>1. i \in DOMAIN old /\ q.items[i] = old[i]
      BY <1>4, <1>5, <2>2 DEF InFlight
    <3>2. PICK a \in DOMAIN old : Leads(queue, a, i)
      BY <2>2, <3>1 DEF QueueInv, Led, old
    <3>3. a \in DOMAIN q.items /\ q.items[a] = old[a]
      BY <1>3
    <3>4. Leads(q, a, i)
      BY <1>2, <3>1, <3>2, <3>3 DEF Leads, old
    <3>. QED
      BY <3>3, <3>4
  <2>. QED
    BY <2>1, <2>2 DEF Led
<1>11. Dispatches(q) /\ jobs' = n
  BY DEF Creates, q
<1>12. AllDrawn(dispatches, n)
  BY <1>6, DrawnMore DEF QueueInv
<1>. HIDE DEF n
<1>13. Sound(queue', n) /\ Led(queue') /\ Keeps(q, queue') /\ AllDrawn(dispatches', n)
  BY <1>6, <1>9, <1>10, <1>11, <1>12, DispatchesLed
<1>14. \A j \in Nat : HasTalk(queue, j) => HasTalk(q, j)
  BY <1>3 DEF HasTalk, old
<1>15. ASSUME NEW i \in DOMAIN new, new[i].kind = "conversation" PROVE HasTalk(queue', jobs + i)
  <2>1. HasTalk(q, jobs + i)
    BY <1>3, <1>4, <1>15 DEF HasTalk
  <2>2. jobs + i \in Nat
    BY <1>1
  <2>. QED
    BY <2>1, <2>2, <1>13 DEF Keeps
<1>16. QueueInv' /\ Keeps(queue, queue')
  BY <1>6, <1>11, <1>13, <1>14 DEF QueueInv, Keeps
<1>. QED
  BY <1>11, <1>15, <1>16 DEF n
-----------------------------------------------------------------------------
(***************************************************************************)
(* The tasks of the panel.                                                 *)
(***************************************************************************)
Task == [texts : Seq(Texts), chain : Nat, jobs : Seq(Nat), at : Nat]

\* A task waits for a text of its own, and has one job for each of its texts.
Fit(t, n) ==
  /\ t \in Task /\ t.texts # <<>>
  /\ t.at = 0 => t.jobs = <<>>
  /\ t.at > 0 => Len(t.jobs) = Len(t.texts) /\ t.at \in 1..Len(t.jobs)
  /\ \A i \in DOMAIN t.jobs : t.jobs[i] \in 1..n
  /\ \A i, m \in DOMAIN t.jobs : t.jobs[i] = t.jobs[m] => i = m
Apart(t, u) == \A i \in DOMAIN t.jobs, m \in DOMAIN u.jobs : t.jobs[i] # u.jobs[m]
Orderly(ts, n) ==
  /\ ts \in Seq(Task) /\ \A k \in DOMAIN ts : Fit(ts[k], n)
  /\ \A k, l \in DOMAIN ts : k # l => Apart(ts[k], ts[l])

\* The conversations a task has still to read are in the queue.
Awaits(t, q) == t.at > 0 => \A i \in t.at..Len(t.jobs) : HasTalk(q, t.jobs[i])
Waiting(ts, q) == \A k \in DOMAIN ts : Awaits(ts[k], q)

PanelInv ==
  /\ Orderly(tasks, jobs) /\ pending \in Seq(Texts) /\ chain \in Nat /\ faults \in Nat
  /\ faults = 0 => Waiting(tasks, queue)

LEMMA UnreadFollows == PanelInv => UnreadIsKept
<1>. SUFFICES ASSUME PanelInv, NEW k \in DOMAIN tasks, tasks[k].at > 0, faults = 0,
                     NEW i \in tasks[k].at..Len(tasks[k].jobs)
              PROVE  InQueue(queue, tasks[k].jobs[i])
  BY DEF UnreadIsKept
<1>1. HasTalk(queue, tasks[k].jobs[i])
  BY DEF PanelInv, Waiting, Awaits
<1>. QED
  BY <1>1 DEF HasTalk, InQueue, ItemsOf

LEMMA FitMore ==
  ASSUME NEW n \in Nat, NEW m \in Nat, n <= m, NEW t, Fit(t, n) PROVE Fit(t, m)
<1>1. \A j \in 1..n : j \in 1..m
  OBVIOUS
<1>. QED
  BY <1>1 DEF Fit

LEMMA OrderlyMore ==
  ASSUME NEW n \in Nat, NEW m \in Nat, n <= m, NEW ts, Orderly(ts, n) PROVE Orderly(ts, m)
BY FitMore DEF Orderly

LEMMA AwaitsKept ==
  ASSUME NEW n \in Nat, NEW t, Fit(t, n), NEW q, NEW r, Keeps(q, r), Awaits(t, q)
  PROVE  Awaits(t, r)
<1>. SUFFICES ASSUME t.at > 0, NEW i \in t.at..Len(t.jobs) PROVE HasTalk(r, t.jobs[i])
  BY DEF Awaits
<1>1. t.jobs \in Seq(Nat) /\ t.at \in 1..Len(t.jobs)
  BY DEF Fit, Task
<1>2. t.jobs[i] \in Nat
  BY <1>1
<1>. QED
  BY <1>2 DEF Awaits, Keeps

LEMMA WaitingKept ==
  ASSUME NEW n \in Nat, NEW ts, Orderly(ts, n), NEW q, NEW r, Keeps(q, r), Waiting(ts, q)
  PROVE  Waiting(ts, r)
BY AwaitsKept DEF Waiting, Orderly

LEMMA AppendOrderly ==
  ASSUME NEW n \in Nat, NEW ts, Orderly(ts, n), NEW t, Fit(t, n),
         \A k \in DOMAIN ts : Apart(ts[k], t)
  PROVE  /\ Orderly(Append(ts, t), n)
         /\ \A q : Waiting(ts, q) /\ Awaits(t, q) => Waiting(Append(ts, t), q)
<1>. DEFINE us == Append(ts, t)
<1>1. ts \in Seq(Task) /\ t \in Task /\ Len(ts) \in Nat /\ DOMAIN ts = 1..Len(ts)
  BY DEF Orderly, Fit
<1>2. /\ us \in Seq(Task) /\ DOMAIN us = 1..(Len(ts) + 1) /\ us[Len(ts) + 1] = t
      /\ \A k \in DOMAIN ts : us[k] = ts[k]
  BY <1>1
<1>. HIDE DEF us
<1>3. ASSUME NEW k \in DOMAIN us
      PROVE  (k \in DOMAIN ts /\ us[k] = ts[k]) \/ (k = Len(ts) + 1 /\ us[k] = t)
  BY <1>1, <1>2
<1>4. \A k \in DOMAIN us : Fit(us[k], n)
  BY <1>3 DEF Orderly
<1>5. \A u : Apart(u, t) <=> Apart(t, u)
  BY Zenon DEF Apart
<1>6. \A k, l \in DOMAIN us : k # l => Apart(us[k], us[l])
  BY <1>3, <1>5 DEF Orderly
<1>7. Orderly(us, n)
  BY <1>2, <1>4, <1>6 DEF Orderly
<1>8. \A q : Waiting(ts, q) /\ Awaits(t, q) => Waiting(us, q)
  BY <1>3 DEF Waiting
<1>. QED
  BY <1>7, <1>8 DEF us

\* us is ts with t in place of the element at k.
Replaced(ts, us, k, t) ==
  /\ us \in Seq(Task) /\ DOMAIN us = DOMAIN ts /\ us[k] = t
  /\ \A l \in DOMAIN ts : l # k => us[l] = ts[l]

LEMMA ReplacedOrderly ==
  ASSUME NEW n \in Nat, NEW ts, Orderly(ts, n), NEW k \in DOMAIN ts, NEW t, Fit(t, n),
         NEW us, Replaced(ts, us, k, t), \A l \in DOMAIN ts : l # k => Apart(ts[l], t)
  PROVE  /\ Orderly(us, n)
         /\ \A q : Awaits(t, q) /\ (\A l \in DOMAIN ts : l # k => Awaits(ts[l], q)) => Waiting(us, q)
<1>1. \A l \in DOMAIN us : (l # k /\ us[l] = ts[l] /\ l \in DOMAIN ts) \/ (l = k /\ us[l] = t)
  BY DEF Replaced
<1>2. \A u : Apart(u, t) <=> Apart(t, u)
  BY Zenon DEF Apart
<1>3. \A l \in DOMAIN us : Fit(us[l], n)
  BY <1>1 DEF Orderly
<1>4. \A l, m \in DOMAIN us : l # m => Apart(us[l], us[m])
  BY <1>1, <1>2 DEF Orderly
<1>5. Orderly(us, n)
  BY <1>3, <1>4 DEF Orderly, Replaced
<1>. QED
  BY <1>1, <1>5 DEF Waiting

LEMMA WithoutOrderly ==
  ASSUME NEW n \in Nat, NEW ts, Orderly(ts, n), NEW k \in DOMAIN ts
  PROVE  /\ Orderly(WithoutAt(ts, k), n)
         /\ \A q : (\A l \in DOMAIN ts : l # k => Awaits(ts[l], q)) => Waiting(WithoutAt(ts, k), q)
<1>. DEFINE us == WithoutAt(ts, k)
<1>1. ts \in Seq(Task) /\ Len(ts) \in Nat /\ DOMAIN ts = 1..Len(ts) /\ k \in 1..Len(ts)
  BY DEF Orderly
<1>2. /\ us \in Seq(Task) /\ DOMAIN us = 1..(Len(ts) - 1)
      /\ \A i \in DOMAIN us : us[i] = IF i < k THEN ts[i] ELSE ts[i + 1]
  <2>. DEFINE a == SubSeq(ts, 1, k - 1)
              b == SubSeq(ts, k + 1, Len(ts))
  <2>1. a \in Seq(Task) /\ Len(a) = k - 1 /\ \A i \in 1..(k - 1) : a[i] = ts[i]
    BY <1>1
  <2>2. b \in Seq(Task) /\ Len(b) = Len(ts) - k /\ \A i \in 1..(Len(ts) - k) : b[i] = ts[i + k]
    BY <1>1
  <2>3. us = a \o b
    BY DEF WithoutAt
  <2>. HIDE DEF a, b, us
  <2>4. us \in Seq(Task) /\ Len(us) = Len(ts) - 1 /\ DOMAIN us = 1..Len(us)
    <3>1. us \in Seq(Task) /\ Len(us) = Len(a) + Len(b)
      BY <2>1, <2>2, <2>3
    <3>2. Len(a) + Len(b) = Len(ts) - 1
      BY <1>1, <2>1, <2>2
    <3>. QED
      BY <3>1, <3>2
  <2>5. \A i \in 1..(Len(ts) - 1) : us[i] = IF i <= k - 1 THEN a[i] ELSE b[i - (k - 1)]
    BY <1>1, <2>1, <2>2, <2>3
  <2>6. ASSUME NEW i \in 1..(Len(ts) - 1) PROVE us[i] = IF i < k THEN ts[i] ELSE ts[i + 1]
    <3>1. CASE i < k
      BY <3>1, <1>1, <2>1, <2>5
    <3>2. CASE ~(i < k)
      <4>1. i - (k - 1) \in 1..(Len(ts) - k) /\ i - (k - 1) + k = i + 1
        BY <3>2, <1>1
      <4>. DEFINE m == i - (k - 1)
      <4>2. us[i] = b[m] /\ m \in 1..(Len(ts) - k) /\ m + k = i + 1
        BY <3>2, <4>1, <1>1, <2>5
      <4>. HIDE DEF m
      <4>3. b[m] = ts[m + k]
        BY <2>2, <4>2
      <4>. QED
        BY <3>2, <4>2, <4>3
    <3>. QED
      BY <3>1, <3>2
  <2>. QED
    BY <2>4, <2>6
<1>. HIDE DEF us
<1>. DEFINE from(i) == IF i < k THEN i ELSE i + 1
<1>3. /\ \A i \in DOMAIN us : from(i) \in DOMAIN ts /\ from(i) # k /\ us[i] = ts[from(i)]
      /\ \A i, l \in DOMAIN us : i # l => from(i) # from(l)
  BY <1>1, <1>2
<1>. HIDE DEF from
<1>4. Orderly(us, n)
  BY <1>2, <1>3 DEF Orderly
<1>5. \A q : (\A l \in DOMAIN ts : l # k => Awaits(ts[l], q)) => Waiting(us, q)
  BY <1>3 DEF Waiting
<1>. QED
  BY <1>4, <1>5 DEF us

\* r is q without the item of job j, which is absent or completed.
Removed(q, j, r) ==
  /\ InQueue(q, j) => ItemOf(q, j).status = "completed"
  /\ r \in Queue /\ r.active = q.active
  /\ r.items = Kept(q.items, {i \in DOMAIN q.items : q.items[i].job # j})

(* A result that was read goes with its item; the others stay. *)
LEMMA RemovesQueue ==
  ASSUME NEW n \in Nat, NEW q, Sound(q, n), Led(q), NEW j, NEW r, Removed(q, j, r)
  PROVE  /\ Sound(r, n) /\ Led(r)
         /\ \A x \in Nat : x # j /\ HasTalk(q, x) => HasTalk(r, x)
<1>. DEFINE at == {i \in DOMAIN q.items : q.items[i].job # j}
<1>1. /\ InQueue(q, j) => ItemOf(q, j).status = "completed"
      /\ r \in Queue /\ r.items = Kept(q.items, at) /\ r.active = q.active
  BY DEF Removed
<1>2. /\ \A i : i \in at <=> i \in DOMAIN q.items /\ q.items[i].job # j
  OBVIOUS
<1>. HIDE DEF at
<1>. DEFINE s == q.items
            p == Kept(q.items, at)
<1>4. r.items = p /\ r.active = q.active /\ r \in Queue
  BY <1>1
<1>5. /\ Sound(r, n) /\ Holding(p, s, at)
      /\ \A x \in Nat :
           HasTalk(q, x) /\ (\A i \in DOMAIN q.items : q.items[i].job = x => i \in at) => HasTalk(r, x)
  <2>1. r.active \in 0..n
    BY <1>4 DEF Sound
  <2>. QED
    BY <1>4, <2>1, PickedSound
<1>6. \A x \in Nat : x # j /\ HasTalk(q, x) => HasTalk(r, x)
  BY <1>2, <1>5
<1>7. ASSUME NEW i \in DOMAIN s, s[i].status \in InFlight PROVE i \in at
  <2>1. s[i].job = j => s[i].status = "completed"
    BY <1>1, ItemOfPlace
  <2>. QED
    BY <1>2, <1>7, <2>1 DEF InFlight
<1>. HIDE DEF p, s
<1>8. /\ \A k \in DOMAIN p : \E i \in DOMAIN s : i \in at /\ p[k] = s[i]
      /\ \A i \in DOMAIN s : i \in at => \E k \in DOMAIN p : p[k] = s[i]
  BY <1>5 DEF Holding
<1>9. ASSUME NEW k \in DOMAIN p, p[k].status \in InFlight
      PROVE  \E a \in DOMAIN p : Leads(r, a, k)
  <2>1. PICK i \in DOMAIN s : p[k] = s[i]
    BY <1>8
  <2>2. PICK b \in DOMAIN s : Leads(q, b, i)
    BY <1>9, <2>1 DEF Led, s
  <2>3. s[b].job = q.active /\ s[b].status \in InFlight
    BY <2>2 DEF Leads, Led, s
  <2>4. PICK a \in DOMAIN p : p[a] = s[b]
    BY <1>7, <1>8, <2>3
  <2>5. CASE b = i
    <3>1. Leads(r, k, k)
      BY <1>4, <2>1, <2>3, <2>5 DEF Leads
    <3>. QED
      BY <3>1
  <2>6. CASE b # i
    <3>1. Leads(r, a, k)
      BY <1>4, <2>1, <2>2, <2>3, <2>4, <2>6 DEF Leads, s
    <3>. QED
      BY <3>1
  <2>. QED
    BY <2>5, <2>6
<1>10. \A k \in DOMAIN p : p[k].job = r.active => p[k].status \in InFlight
  BY <1>4, <1>8 DEF Led, s
<1>. QED
  BY <1>4, <1>5, <1>6, <1>9, <1>10 DEF Led

(* One poll of a waiting task takes at most the item it waits for. *)
LEMMA LooksQueue ==
  ASSUME QueueInv, NEW k \in DOMAIN tasks, Looks(k)
  PROVE  /\ QueueInv'
         /\ \A x \in Nat : x # tasks[k].jobs[tasks[k].at] /\ HasTalk(queue, x) => HasTalk(queue', x)
<1>. DEFINE q == Polled(queue)
            j == tasks[k].jobs[tasks[k].at]
<1>1. Sound(q, jobs) /\ Led(q) /\ Keeps(queue, q)
  BY PolledLed DEF QueueInv
<1>2. UNCHANGED <<dispatches, jobs>>
  BY DEF Looks
<1>3. \/ queue' = q
      \/ /\ InQueue(q, j) => ItemOf(q, j).status = "completed"
         /\ queue' = [q EXCEPT !.items = Kept(@, {i \in DOMAIN @ : @[i].job # j})]
  BY Zenon DEF Looks, ResultIsRead
<1>. HIDE DEF q, j
<1>4. CASE queue' = q
  BY <1>1, <1>2, <1>4 DEF QueueInv, Keeps
<1>5. CASE /\ InQueue(q, j) => ItemOf(q, j).status = "completed"
           /\ queue' = [q EXCEPT !.items = Kept(@, {i \in DOMAIN @ : @[i].job # j})]
  <2>. DEFINE p == Kept(q.items, {i \in DOMAIN q.items : q.items[i].job # j})
  <2>1. Removed(q, j, queue')
    <3>1. q \in Queue /\ q.items \in Seq(Item)
      BY <1>1, QueueFields DEF Sound
    <3>2. queue' = [q EXCEPT !.items = p] /\ p \in Seq(Item)
      BY <1>5, <3>1, KeptHolds
    <3>. HIDE DEF p
    <3>3. queue' \in Queue /\ queue'.items = p /\ queue'.active = q.active
      BY <3>1, <3>2 DEF Queue
    <3>. QED
      BY <1>5, <3>3 DEF Removed, p
  <2>2. jobs \in Nat
    BY DEF QueueInv
  <2>3. /\ Sound(queue', jobs) /\ Led(queue')
        /\ \A x \in Nat : x # j /\ HasTalk(q, x) => HasTalk(queue', x)
    BY <1>1, <2>1, <2>2, RemovesQueue
  <2>. QED
    BY <1>1, <1>2, <2>3 DEF QueueInv, Keeps, j
<1>. QED
  BY <1>3, <1>4, <1>5

(* A step that leaves the tasks alone. *)
LEMMA QuietPanel ==
  ASSUME PanelInv, QueueInv, UNCHANGED tasks, pending' \in Seq(Texts), chain' \in Nat,
         jobs' \in Nat, jobs <= jobs',
         (faults' = faults /\ Keeps(queue, queue')) \/ faults' = faults + 1
  PROVE  PanelInv'
<1>1. jobs \in Nat /\ Orderly(tasks, jobs) /\ faults \in Nat
  BY DEF PanelInv, QueueInv
<1>2. Orderly(tasks, jobs')
  BY <1>1, OrderlyMore
<1>3. ASSUME faults' = 0 PROVE Waiting(tasks, queue')
  <2>1. faults = 0 /\ Keeps(queue, queue')
    BY <1>1, <1>3
  <2>2. Waiting(tasks, queue)
    BY <2>1 DEF PanelInv
  <2>. QED
    BY <1>1, <2>1, <2>2, WaitingKept
<1>4. faults' \in Nat
  BY <1>1
<1>. QED
  BY <1>2, <1>3, <1>4 DEF PanelInv

LEMMA FlushesPanel ==
  ASSUME PanelInv, NEW texts \in Seq(Texts), texts # <<>>, Flushed(texts),
         UNCHANGED <<queue, jobs, chain, faults>>, jobs \in Nat
  PROVE  PanelInv'
<1>. DEFINE t == [texts |-> texts, chain |-> chain, jobs |-> <<>>, at |-> 0]
<1>1. chain \in Nat /\ Orderly(tasks, jobs)
  BY DEF PanelInv
<1>2. t \in Task /\ t.texts = texts /\ t.jobs = <<>> /\ t.at = 0
  BY <1>1 DEF Task
<1>3. tasks' = Append(tasks, t) /\ pending' = <<>>
  BY DEF Flushed
<1>. HIDE DEF t
<1>4. Fit(t, jobs)
  BY <1>2 DEF Fit
<1>5. \A k \in DOMAIN tasks : Apart(tasks[k], t)
  BY <1>2 DEF Apart
<1>6. Awaits(t, queue)
  BY <1>2 DEF Awaits
<1>7. Orderly(tasks', jobs) /\ (Waiting(tasks, queue) => Waiting(tasks', queue))
  BY <1>1, <1>3, <1>4, <1>5, <1>6, AppendOrderly
<1>. QED
  BY <1>3, <1>7 DEF PanelInv

(* A text that is typed: its task waits from the start. *)
LEMMA ComposesPanel ==
  ASSUME QueueInv, PanelInv, NEW x \in Inputs, Composes(x)
  PROVE  QueueInv' /\ PanelInv'
<1>. DEFINE new == <<NewItem(jobs + 1, "conversation")>>
            n == jobs + 1
            t == [texts |-> <<x>>, chain |-> 0, jobs |-> <<n>>, at |-> 1]
<1>1. jobs \in Nat /\ n \in Nat /\ jobs <= n /\ Orderly(tasks, jobs) /\ x \in Texts
  BY DEF PanelInv, QueueInv, Texts
<1>2. Fresh(new) /\ Len(new) = 1 /\ 1 \in DOMAIN new /\ new[1].kind = "conversation"
  <2>1. NewItem(n, "conversation") \in Item
    BY <1>1 DEF NewItem, Item, Kinds, Statuses
  <2>2. NewItem(n, "conversation").job = n /\ NewItem(n, "conversation").status = "queued"
        /\ NewItem(n, "conversation").kind = "conversation"
    BY DEF NewItem
  <2>. QED
    BY <2>1, <2>2 DEF Fresh
<1>3. Creates(new) /\ tasks' = Append(tasks, t) /\ UNCHANGED <<pending, chain, faults>>
  BY DEF Composes
<1>. HIDE DEF new
<1>4. QueueInv' /\ Keeps(queue, queue') /\ jobs' = n /\ HasTalk(queue', n)
  BY <1>2, <1>3, CreatesQueue
<1>5. t \in Task /\ t.texts = <<x>> /\ t.jobs = <<n>> /\ t.at = 1
  BY <1>1 DEF Task
<1>. HIDE DEF t
<1>6. Len(t.texts) = 1 /\ Len(t.jobs) = 1 /\ t.texts # <<>> /\ DOMAIN t.jobs = {1} /\ t.jobs[1] = n
  BY <1>5
<1>7. Fit(t, n)
  BY <1>1, <1>5, <1>6 DEF Fit
<1>8. ASSUME NEW k \in DOMAIN tasks PROVE Apart(tasks[k], t)
  <2>1. \A i \in DOMAIN tasks[k].jobs : tasks[k].jobs[i] \in 1..jobs
    BY <1>1 DEF Orderly, Fit
  <2>. QED
    BY <2>1, <1>1, <1>6 DEF Apart
<1>9. Awaits(t, queue')
  BY <1>4, <1>5, <1>6 DEF Awaits
<1>10. Orderly(tasks, n)
  BY <1>1, OrderlyMore
<1>11. Orderly(tasks', n) /\ (Waiting(tasks, queue') => Waiting(tasks', queue'))
  BY <1>1, <1>3, <1>7, <1>8, <1>9, <1>10, AppendOrderly
<1>12. Waiting(tasks, queue) => Waiting(tasks, queue')
  BY <1>1, <1>4, WaitingKept
<1>. QED
  BY <1>3, <1>4, <1>11, <1>12 DEF PanelInv

(* A task that starts gets one new job for each of its texts. *)
LEMMA StartsPanel ==
  ASSUME QueueInv, PanelInv, NEW k \in DOMAIN tasks, Starts(k)
  PROVE  QueueInv' /\ PanelInv'
<1>. DEFINE old == tasks[k]
            texts == old.texts
            ids == [i \in DOMAIN texts |-> jobs + i]
            new == [i \in DOMAIN texts |-> NewItem(jobs + i, "conversation")]
            n == jobs + Len(texts)
            t == [[old EXCEPT !.jobs = ids] EXCEPT !.at = 1]
<1>1. /\ jobs \in Nat /\ Orderly(tasks, jobs) /\ tasks \in Seq(Task)
      /\ old \in Task /\ old.at = 0 /\ texts # <<>> /\ texts \in Seq(Texts)
  BY DEF PanelInv, QueueInv, Orderly, Fit, Task, Starts, Begins
<1>2. Creates(new) /\ UNCHANGED <<pending, chain, faults>>
  BY DEF Starts
<1>3. tasks' = [tasks EXCEPT ![k].jobs = ids, ![k].at = 1]
  BY Zenon DEF Starts, Begins
<1>4. tasks' = [tasks EXCEPT ![k] = t]
  BY Zenon, <1>3
<1>. HIDE DEF old
<1>5. /\ Len(texts) \in Nat /\ 0 < Len(texts) /\ DOMAIN texts = 1..Len(texts)
      /\ n \in Nat /\ jobs <= n
  BY <1>1
<1>. HIDE DEF texts
<1>6. /\ ids \in Seq(Nat) /\ Len(ids) = Len(texts) /\ DOMAIN ids = 1..Len(texts)
      /\ \A i \in DOMAIN ids : ids[i] = jobs + i
  BY <1>1, <1>5
<1>7. Fresh(new) /\ Len(new) = Len(texts) /\ DOMAIN new = DOMAIN ids
      /\ \A i \in DOMAIN new : new[i].kind = "conversation"
  <2>1. ASSUME NEW i \in DOMAIN texts
        PROVE  /\ new[i] \in Item /\ new[i].job = jobs + i /\ new[i].status = "queued"
               /\ new[i].kind = "conversation"
    <3>1. jobs + i \in Nat
      BY <1>1, <1>5
    <3>. QED
      BY <3>1 DEF NewItem, Item, Kinds, Statuses
  <2>2. DOMAIN new = 1..Len(texts)
    BY <1>5
  <2>. HIDE DEF new
  <2>3. new = [i \in 1..Len(texts) |-> new[i]]
    BY <1>5 DEF new
  <2>4. new \in Seq(Item)
    BY <1>5, <2>1, <2>2, <2>3
  <2>. QED
    BY <1>5, <1>6, <2>1, <2>2, <2>4 DEF Fresh
<1>. HIDE DEF new, ids
<1>8. QueueInv' /\ Keeps(queue, queue') /\ jobs' = n /\ \A i \in DOMAIN ids : HasTalk(queue', jobs + i)
  BY <1>2, <1>7, CreatesQueue
<1>. HIDE DEF n
<1>9. t \in Task /\ t.texts = texts /\ t.jobs = ids /\ t.at = 1
  BY <1>1, <1>6 DEF Task, texts
<1>. HIDE DEF t
<1>10. Fit(t, n)
  <2>1. \A i \in DOMAIN ids : ids[i] \in 1..n
    BY <1>1, <1>5, <1>6 DEF n
  <2>2. \A i, m \in DOMAIN ids : ids[i] = ids[m] => i = m
    BY <1>1, <1>5, <1>6
  <2>3. 1 \in 1..Len(t.jobs)
    BY <1>5, <1>6, <1>9
  <2>. QED
    BY <1>1, <1>6, <1>9, <2>1, <2>2, <2>3 DEF Fit
<1>11. ASSUME NEW l \in DOMAIN tasks PROVE Apart(tasks[l], t)
  <2>1. \A i \in DOMAIN tasks[l].jobs : tasks[l].jobs[i] \in 1..jobs
    BY <1>1 DEF Orderly, Fit
  <2>2. \A i \in DOMAIN t.jobs : t.jobs[i] = jobs + i /\ i \in Nat /\ i > 0
    BY <1>5, <1>6, <1>9
  <2>. QED
    BY <2>1, <2>2, <1>1 DEF Apart
<1>12. Awaits(t, queue')
  <2>1. \A i \in 1..Len(ids) : i \in DOMAIN ids /\ ids[i] = jobs + i
    BY <1>6
  <2>. QED
    BY <1>8, <1>9, <2>1 DEF Awaits
<1>13. Orderly(tasks, n)
  BY <1>1, <1>5, OrderlyMore
<1>14. Replaced(tasks, tasks', k, t)
  BY <1>1, <1>4, <1>9 DEF Replaced
<1>15. \A l \in DOMAIN tasks : l # k => Apart(tasks[l], t)
  BY <1>11
<1>16. /\ Orderly(tasks', n)
       /\ (\A l \in DOMAIN tasks : l # k => Awaits(tasks[l], queue')) => Waiting(tasks', queue')
  BY <1>5, <1>10, <1>12, <1>13, <1>14, <1>15, ReplacedOrderly
<1>17. Waiting(tasks, queue) => Waiting(tasks, queue')
  BY <1>1, <1>8, WaitingKept
<1>18. Waiting(tasks, queue) => Waiting(tasks', queue')
  BY <1>16, <1>17 DEF Waiting
<1>. QED
  BY <1>2, <1>8, <1>16, <1>18 DEF PanelInv

LEMMA CreatesToolPanel ==
  ASSUME QueueInv, PanelInv, NEW kind \in Tools, CreatesTool(kind)
  PROVE  QueueInv' /\ PanelInv'
<1>. DEFINE new == <<NewItem(jobs + 1, kind)>>
<1>1. jobs \in Nat /\ UNCHANGED <<tasks, pending, chain, faults>>
  BY DEF QueueInv, CreatesTool
<1>2. (Dispatches(queue) /\ jobs' = jobs) \/ Creates(new)
  BY DEF CreatesTool
<1>3. QueueInv' /\ Keeps(queue, queue') /\ jobs' \in Nat /\ jobs <= jobs'
  <2>1. ASSUME Dispatches(queue), jobs' = jobs
        PROVE  QueueInv' /\ Keeps(queue, queue') /\ jobs' \in Nat /\ jobs <= jobs'
    <3>1. Sound(queue', jobs) /\ Led(queue') /\ Keeps(queue, queue') /\ AllDrawn(dispatches', jobs)
      BY <2>1, DispatchesLed DEF QueueInv
    <3>. QED
      BY <1>1, <2>1, <3>1 DEF QueueInv
  <2>2. ASSUME Creates(new)
        PROVE  QueueInv' /\ Keeps(queue, queue') /\ jobs' \in Nat /\ jobs <= jobs'
    <3>1. kind \in Kinds /\ jobs + 1 \in Nat
      BY <1>1, TranslationAssumption DEF Kinds
    <3>2. NewItem(jobs + 1, kind) \in Item /\ NewItem(jobs + 1, kind).job = jobs + 1
          /\ NewItem(jobs + 1, kind).status = "queued"
      BY <3>1 DEF NewItem, Item, Statuses
    <3>3. Fresh(new) /\ Len(new) = 1
      BY <3>2 DEF Fresh
    <3>. HIDE DEF new
    <3>4. QueueInv' /\ Keeps(queue, queue') /\ jobs' = jobs + Len(new)
      BY <2>2, <3>3, CreatesQueue
    <3>. QED
      BY <1>1, <3>3, <3>4
  <2>. QED
    BY <1>2, <2>1, <2>2
<1>4. pending' \in Seq(Texts) /\ chain' \in Nat
  BY <1>1 DEF PanelInv
<1>. QED
  BY <1>1, <1>3, <1>4, QuietPanel

(* A wait that ends goes on to the task's next text, or ends the task. *)
LEMMA LooksPanel ==
  ASSUME QueueInv, PanelInv, NEW k \in DOMAIN tasks, Looks(k)
  PROVE  QueueInv' /\ PanelInv'
<1>. DEFINE old == tasks[k]
            j == old.jobs[old.at]
            t == [old EXCEPT !.at = @ + 1]
<1>1. /\ jobs \in Nat /\ Orderly(tasks, jobs) /\ tasks \in Seq(Task)
      /\ old \in Task /\ Fit(old, jobs) /\ old.at > 0
  BY DEF PanelInv, QueueInv, Orderly, Fit, Looks
<1>2. /\ QueueInv'
      /\ \A x \in Nat : x # j /\ HasTalk(queue, x) => HasTalk(queue', x)
  BY LooksQueue
<1>3. UNCHANGED <<pending, chain, faults, jobs>>
  BY DEF Looks
<1>4. \/ old.at = Len(old.texts) /\ tasks' = WithoutAt(tasks, k)
      \/ old.at # Len(old.texts) /\ tasks' = [tasks EXCEPT ![k].at = @ + 1]
  BY Zenon DEF Looks, Advances
<1>5. ASSUME NEW l \in DOMAIN tasks, l # k, Awaits(tasks[l], queue) PROVE Awaits(tasks[l], queue')
  <2>1. ASSUME tasks[l].at > 0, NEW i \in tasks[l].at..Len(tasks[l].jobs)
        PROVE  HasTalk(queue', tasks[l].jobs[i])
    <3>1. tasks[l].at \in 1..Len(tasks[l].jobs) /\ tasks[l].jobs \in Seq(Nat)
      BY <1>1, <2>1 DEF Orderly, Fit, Task
    <3>2. i \in DOMAIN tasks[l].jobs /\ tasks[l].jobs[i] \in Nat
      BY <3>1
    <3>3. old.at \in DOMAIN old.jobs
      BY <1>1 DEF Fit, Task
    <3>4. Apart(tasks[l], old)
      BY <1>1, <1>5 DEF Orderly
    <3>. HIDE DEF old
    <3>5. tasks[l].jobs[i] # j
      BY <3>2, <3>3, <3>4 DEF Apart
    <3>6. HasTalk(queue, tasks[l].jobs[i])
      BY <1>5, <2>1 DEF Awaits
    <3>. HIDE DEF j
    <3>. QED
      BY <1>2, <3>2, <3>5, <3>6
  <2>. QED
    BY <2>1 DEF Awaits
<1>6. CASE old.at = Len(old.texts) /\ tasks' = WithoutAt(tasks, k)
  <2>1. /\ Orderly(tasks', jobs)
        /\ (\A l \in DOMAIN tasks : l # k => Awaits(tasks[l], queue')) => Waiting(tasks', queue')
    BY <1>1, <1>6, WithoutOrderly
  <2>2. Waiting(tasks, queue) => Waiting(tasks', queue')
    BY <1>5, <2>1 DEF Waiting
  <2>. QED
    BY <1>2, <1>3, <2>1, <2>2 DEF PanelInv
<1>7. CASE old.at # Len(old.texts) /\ tasks' = [tasks EXCEPT ![k].at = @ + 1]
  <2>1. tasks' = [tasks EXCEPT ![k] = t]
    BY Zenon, <1>7
  <2>. HIDE DEF old
  <2>2. /\ Len(old.jobs) = Len(old.texts) /\ old.at \in 1..Len(old.jobs)
        /\ old.jobs \in Seq(Nat) /\ old.texts \in Seq(Texts) /\ old.at \in Nat
    BY <1>1 DEF Fit, Task
  <2>3. t \in Task /\ t.texts = old.texts /\ t.jobs = old.jobs /\ t.at = old.at + 1
    <3>. DEFINE m == old.at + 1
    <3>1. m \in Nat /\ t = [old EXCEPT !.at = m]
      BY <2>2
    <3>. HIDE DEF m, t
    <3>2. t \in Task /\ t.texts = old.texts /\ t.jobs = old.jobs /\ t.at = m
      BY <1>1, <3>1 DEF Task
    <3>. QED
      BY <3>2 DEF m
  <2>. HIDE DEF t
  <2>4. t.at \in 1..Len(t.jobs) /\ t.at # 0
    BY <1>7, <2>2, <2>3
  <2>5. Fit(t, jobs)
    BY <1>1, <2>2, <2>3, <2>4 DEF Fit
  <2>6. Replaced(tasks, tasks', k, t)
    BY <1>1, <2>1, <2>3 DEF Replaced
  <2>7. \A l \in DOMAIN tasks : l # k => Apart(tasks[l], t)
    BY <1>1, <2>3 DEF Orderly, Apart, old
  <2>8. ASSUME Awaits(old, queue) PROVE Awaits(t, queue')
    <3>1. ASSUME NEW i \in t.at..Len(t.jobs) PROVE HasTalk(queue', t.jobs[i])
      <4>1. /\ i \in old.at..Len(old.jobs) /\ i \in DOMAIN old.jobs /\ old.at \in DOMAIN old.jobs
            /\ i # old.at /\ old.jobs[i] \in Nat
        BY <2>2, <2>3
      <4>2. HasTalk(queue, old.jobs[i])
        BY <1>1, <2>8, <4>1 DEF Awaits
      <4>3. old.jobs[i] # j
        BY <1>1, <4>1 DEF Fit
      <4>. HIDE DEF j
      <4>. QED
        BY <1>2, <2>3, <4>1, <4>2, <4>3
    <3>. QED
      BY <3>1 DEF Awaits
  <2>9. /\ Orderly(tasks', jobs)
        /\ Awaits(t, queue') /\ (\A l \in DOMAIN tasks : l # k => Awaits(tasks[l], queue'))
             => Waiting(tasks', queue')
    BY <1>1, <2>5, <2>6, <2>7, ReplacedOrderly
  <2>10. Waiting(tasks, queue) => Waiting(tasks', queue')
    BY <1>5, <2>8, <2>9 DEF Waiting, old
  <2>. QED
    BY <1>2, <1>3, <2>9, <2>10 DEF PanelInv
<1>. QED
  BY <1>4, <1>6, <1>7

LEMMA EmptyQueue ==
  ASSUME NEW n \in Nat
  PROVE  Sound(NoQueue, n) /\ Led(NoQueue)
<1>1. NoQueue \in Queue /\ NoQueue.items = <<>> /\ NoQueue.active = 0
  BY DEF NoQueue, Queue
<1>. QED
  BY <1>1 DEF Sound, Led

LEMMA RestartsPanel ==
  ASSUME QueueInv, PanelInv, Restarts
  PROVE  QueueInv' /\ PanelInv'
<1>1. /\ queue' = NoQueue /\ dispatches' = {} /\ pending' = <<>> /\ tasks' = <<>>
      /\ UNCHANGED <<chain, jobs>> /\ faults' = faults + 1
  BY DEF Restarts
<1>2. jobs \in Nat /\ faults \in Nat /\ chain \in Nat
  BY DEF QueueInv, PanelInv
<1>3. QueueInv'
  BY <1>1, <1>2, EmptyQueue DEF QueueInv, AllDrawn
<1>4. Orderly(tasks', jobs')
  BY <1>1 DEF Orderly
<1>. QED
  BY <1>1, <1>2, <1>3, <1>4 DEF PanelInv

(* Replies that are shown, batched, flushed or dropped. *)
LEMMA RepliesPanel ==
  ASSUME QueueInv, PanelInv,
         Flush \/ Clears \/ \E x \in Replies : Preserves(x) \/ Queues(x) \/ TranslatesFinal(x) \/ Retries(x)
  PROVE  QueueInv' /\ PanelInv'
<1>1. UNCHANGED <<queue, dispatches, jobs, faults>> /\ jobs \in Nat /\ chain \in Nat
      /\ pending \in Seq(Texts)
  BY DEF Flush, Clears, Preserves, Queues, TranslatesFinal, Retries, worker, QueueInv, PanelInv
<1>2. QueueInv' /\ Keeps(queue, queue')
  BY <1>1 DEF QueueInv, Keeps
<1>3. ASSUME NEW x \in Replies
      PROVE  Append(pending, x) \in Seq(Texts) /\ Append(pending, x) # <<>>
  <2>1. x \in Texts
    BY DEF Texts
  <2>. QED
    BY <1>1, <2>1
<1>4. ASSUME UNCHANGED tasks, pending' \in Seq(Texts), chain' \in Nat PROVE PanelInv'
  BY <1>1, <1>2, <1>4, QuietPanel
<1>5. ASSUME NEW texts \in Seq(Texts), texts # <<>>, Flushed(texts), UNCHANGED chain PROVE PanelInv'
  BY <1>1, <1>5, FlushesPanel
<1>6. CASE Flush
  <2>1. pending # <<>> /\ Flushed(pending) /\ UNCHANGED chain
    BY <1>6 DEF Flush
  <2>. QED
    BY <1>1, <1>2, <1>5, <2>1
<1>7. CASE Clears
  <2>1. UNCHANGED tasks /\ pending' = <<>> /\ chain' = chain + 1
    BY <1>7 DEF Clears
  <2>. QED
    BY <1>1, <1>2, <1>4, <2>1
<1>8. ASSUME NEW x \in Replies, Preserves(x) PROVE PanelInv'
  BY <1>1, <1>4, <1>8 DEF Preserves
<1>9. ASSUME NEW x \in Replies, Queues(x) \/ TranslatesFinal(x) \/ Retries(x) PROVE PanelInv'
  <2>1. UNCHANGED chain /\ (\/ pending' = Append(pending, x) /\ UNCHANGED tasks
                            \/ Flushed(Append(pending, x)))
    BY <1>9 DEF Queues, TranslatesFinal, Retries
  <2>. QED
    BY <1>1, <1>3, <1>4, <1>5, <2>1
<1>. QED
  BY <1>2, <1>6, <1>7, <1>8, <1>9

(* The dispatcher, the Translator and its hooks leave the tasks alone. *)
LEMMA WorkerPanel ==
  ASSUME QueueInv, PanelInv,
         Submission \/ TranslatorWorks \/ Polls \/ Takes(FALSE) \/ StopIsLost \/ Exits
           \/ \E d \in dispatches : SubmitFails(d)
  PROVE  QueueInv' /\ PanelInv'
<1>1. jobs \in Nat /\ chain \in Nat /\ pending \in Seq(Texts)
  BY DEF QueueInv, PanelInv
<1>2. ASSUME QueueInv', UNCHANGED <<panel, jobs>>,
             (faults' = faults /\ Keeps(queue, queue')) \/ faults' = faults + 1
      PROVE  PanelInv'
  <2>1. UNCHANGED tasks /\ pending' \in Seq(Texts) /\ chain' \in Nat /\ jobs' \in Nat /\ jobs <= jobs'
    BY <1>1, <1>2 DEF panel
  <2>. QED
    BY <1>2, <2>1, QuietPanel
<1>3. ASSUME UNCHANGED worker, UNCHANGED jobs PROVE QueueInv' /\ Keeps(queue, queue')
  BY <1>3 DEF worker, QueueInv, Keeps
<1>4. ASSUME NEW d \in dispatches, Submits(d) PROVE QueueInv' /\ PanelInv'
  <2>1. UNCHANGED <<queue, panel, jobs, faults>> /\ Submitted(d)
    BY <1>4 DEF Submits
  <2>2. AllDrawn(dispatches', jobs)
    BY <2>1, SubmissionQueue
  <2>3. QueueInv' /\ Keeps(queue, queue')
    BY <2>1, <2>2 DEF QueueInv, Keeps
  <2>. QED
    BY <1>2, <2>1, <2>3
<1>5. ASSUME NEW d \in dispatches, Marks(d) PROVE QueueInv' /\ PanelInv'
  <2>1. QueueInv' /\ Keeps(queue, queue')
    BY <1>5, MarksQueue
  <2>2. UNCHANGED <<panel, jobs, faults>>
    BY <1>5 DEF Marks
  <2>. QED
    BY <1>2, <2>1, <2>2
<1>6. ASSUME NEW heard \in BOOLEAN, Takes(heard) PROVE QueueInv' /\ PanelInv'
  <2>1. QueueInv' /\ Keeps(queue, queue')
    BY <1>6, TakesQueue
  <2>2. UNCHANGED <<panel, jobs>> /\ (faults' = faults \/ faults' = faults + 1)
    BY <1>6 DEF Takes
  <2>. QED
    BY <1>2, <2>1, <2>2
<1>7. ASSUME Stops PROVE QueueInv' /\ PanelInv'
  <2>1. QueueInv' /\ Keeps(queue, queue')
    BY <1>7, StopsQueue
  <2>2. UNCHANGED <<panel, jobs, faults>>
    BY <1>7 DEF Stops
  <2>. QED
    BY <1>2, <2>1, <2>2
<1>8. ASSUME NEW j \in 1..jobs, Writes(j) PROVE QueueInv' /\ PanelInv'
  <2>1. UNCHANGED <<worker, panel, jobs, faults>>
    BY <1>8 DEF Writes
  <2>. QED
    BY <1>2, <1>3, <2>1
<1>9. ASSUME Polls PROVE QueueInv' /\ PanelInv'
  <2>1. QueueInv' /\ Keeps(queue, queue')
    BY <1>9, PollsQueue
  <2>2. UNCHANGED <<panel, jobs, faults>>
    BY <1>9 DEF Polls
  <2>. QED
    BY <1>2, <2>1, <2>2
<1>10. ASSUME StopIsLost \/ Exits PROVE QueueInv' /\ PanelInv'
  <2>1. UNCHANGED <<worker, panel, jobs>> /\ faults' = faults + 1
    BY <1>10 DEF StopIsLost, Exits
  <2>. QED
    BY <1>2, <1>3, <2>1
<1>11. ASSUME NEW d \in dispatches, SubmitFails(d) PROVE QueueInv' /\ PanelInv'
  <2>1. QueueInv'
    BY <1>11, FailsQueue
  <2>2. UNCHANGED <<panel, jobs>> /\ faults' = faults + 1
    BY <1>11 DEF SubmitFails
  <2>. QED
    BY <1>2, <2>1, <2>2
<1>. QED
  BY <1>4, <1>5, <1>6, <1>7, <1>8, <1>9, <1>10, <1>11 DEF Submission, TranslatorWorks

LEMMA TranslationInit == Init => QueueInv /\ PanelInv
<1>. SUFFICES ASSUME Init PROVE QueueInv /\ PanelInv
  OBVIOUS
<1>1. /\ queue = NoQueue /\ dispatches = {} /\ pending = <<>> /\ tasks = <<>> /\ chain = 1
      /\ jobs = 0 /\ faults = 0
  BY DEF Init
<1>2. Sound(NoQueue, 0) /\ Led(NoQueue)
  BY EmptyQueue
<1>3. Orderly(tasks, jobs) /\ Waiting(tasks, queue)
  BY <1>1 DEF Orderly, Waiting
<1>. QED
  BY <1>1, <1>2, <1>3 DEF QueueInv, PanelInv, AllDrawn

LEMMA TranslationStep ==
  QueueInv /\ PanelInv /\ [Next]_vars => QueueInv' /\ PanelInv'
<1>. SUFFICES ASSUME QueueInv, PanelInv, [Next]_vars PROVE QueueInv' /\ PanelInv'
  OBVIOUS
<1>1. CASE Asks
  BY <1>1, RepliesPanel, ComposesPanel, CreatesToolPanel DEF Asks
<1>2. CASE Faulty
  BY <1>2, RestartsPanel, WorkerPanel DEF Faulty
<1>3. CASE Submission \/ TranslatorWorks \/ Polls
  BY <1>3, WorkerPanel
<1>4. CASE Flush \/ Clears
  BY <1>4, RepliesPanel
<1>5. CASE \E k \in DOMAIN tasks : Starts(k) \/ Looks(k)
  BY <1>5, StartsPanel, LooksPanel
<1>6. CASE UNCHANGED vars
  <2>1. UNCHANGED <<queue, dispatches, jobs, tasks, pending, chain, faults>>
    BY <1>6 DEF vars
  <2>2. QueueInv'
    BY <2>1 DEF QueueInv
  <2>3. PanelInv'
    BY <2>1 DEF PanelInv
  <2>. QED
    BY <2>2, <2>3
<1>. QED
  BY <1>1, <1>2, <1>3, <1>4, <1>5, <1>6 DEF Next

(* The queue is led by its active item, and every conversation that a task *)
(* of the panel still has to read is in it, in every state.                *)
THEOREM TranslationInvariant == Spec => [](QueueInv /\ PanelInv)
<1>. QED
  BY TranslationInit, TranslationStep, PTL DEF Spec

(* Whatever fails, exits, gets lost or restarts, an item of the queue file *)
(* is dispatching, running or validating only as the active item or in the *)
(* active item's batch, where a Stop or a poll finalizes it.               *)
THEOREM InFlightIsLed == Spec => []InFlightIsActive
<1>. QED
  BY TranslationInvariant, InFlightFollows, PTL

(* A text that a panel task waits for has its item in the queue file until *)
(* that task reads it: no poll, cleanup, Stop or other reader takes it, as *)
(* long as no launch fails and the backend is not restarted.               *)
THEOREM UnreadStays == Spec => []UnreadIsKept
<1>. QED
  BY TranslationInvariant, UnreadFollows, PTL
-----------------------------------------------------------------------------
(***************************************************************************)
(* The transcript on its way to the panel: a log and its cache remember    *)
(* what went to the Translator.                                            *)
(***************************************************************************)
EventKinds == {"text", "question", "todo", "agent", "tool_use", "tool_result", "thinking"}
LineId == {<<"line", n, k>> : n \in Nat, k \in EventKinds}
MarkId == {<<"turn", t, end>> : t \in Nat, end \in {"start", "end"}}
Ident == LineId \cup MarkId
Entry == [seq : Nat, id : Ident]
Log == [on : BOOLEAN, events : Seq(Entry), next : Nat, seen : SUBSET Ident]
Turn == [n : Nat, from : Nat, busy : BOOLEAN]
Once(s) == \A i, j \in DOMAIN s : s[i] = s[j] => i = j

\* Events whose handlers wait: each once, and none that the log has seen.
Unseen(s, seen) == s \in Seq(Ident) /\ Once(s) /\ \A i \in DOMAIN s : s[i] \notin seen

\* What the log, or the cache of a stopped session, keeps of what was sent.
Remembered == IF log.on THEN log.seen \cap Ids(log.events) ELSE Ids(cache)

Feeding ==
  /\ lines \in Seq(DOMAIN EventsOf) /\ turn \in Turn
  /\ log \in Log /\ cache \in Seq(Entry) /\ sent \in Seq(Ident)
FeedInv ==
  /\ Feeding
  /\ tail.state # "none" \/ handling # <<>> => log.on
  /\ Unseen(handling, log.seen)
  /\ Once(sent) /\ \A i \in DOMAIN sent : sent[i] \in Remembered

LEMMA KindsOnce ==
  ASSUME NEW k \in DOMAIN EventsOf
  PROVE  EventsOf[k] \in Seq(EventKinds) /\ Once(EventsOf[k])
<1>1. /\ DOMAIN AssistantEvents = {"answer", "explains", "asks", "plans", "delegates", "calls",
                                   "thinks", "synthetic"}
      /\ DOMAIN UserEvents = {"result", "prompt"}
  BY DEF AssistantEvents, UserEvents
<1>2. k \in DOMAIN AssistantEvents \cup DOMAIN UserEvents
  BY DEF EventsOf
<1>3. EventsOf[k] = IF k \in DOMAIN AssistantEvents THEN AssistantEvents[k] ELSE UserEvents[k]
  BY <1>2 DEF EventsOf
<1>4. \/ EventsOf[k] = <<>>
      \/ \E a \in EventKinds : EventsOf[k] = <<a>>
      \/ EventsOf[k] = <<"text", "question">>
  <2>1. CASE k \in DOMAIN AssistantEvents
    BY <1>1, <1>3, <2>1 DEF AssistantEvents, EventKinds
  <2>2. CASE k \notin DOMAIN AssistantEvents
    BY <1>1, <1>2, <1>3, <2>2 DEF UserEvents, EventKinds
  <2>. QED
    BY <2>1, <2>2
<1>5. "text" \in EventKinds /\ "question" \in EventKinds
  BY DEF EventKinds
<1>. HIDE DEF EventKinds
<1>6. <<>> \in Seq(EventKinds) /\ Once(<<>>)
  BY DEF Once
<1>7. ASSUME NEW a \in EventKinds PROVE <<a>> \in Seq(EventKinds) /\ Once(<<a>>)
  BY DEF Once
<1>8. <<"text", "question">> \in Seq(EventKinds) /\ Once(<<"text", "question">>)
  <2>1. "text" # "question"
    OBVIOUS
  <2>. DEFINE s == <<"text", "question">>
  <2>2. s \in Seq(EventKinds)
    BY <1>5
  <2>3. DOMAIN s = 1..2 /\ s[1] = "text" /\ s[2] = "question"
    OBVIOUS
  <2>. HIDE DEF s
  <2>4. \A i \in 1..2 : i = 1 \/ i = 2
    OBVIOUS
  <2>5. Once(s)
    BY <2>1, <2>3, <2>4 DEF Once
  <2>. QED
    BY <2>2, <2>5 DEF s
<1>. QED
  BY <1>4, <1>6, <1>7, <1>8

LEMMA LineOnce ==
  ASSUME Feeding, NEW n \in 1..Len(lines)
  PROVE  /\ LineEvents(n) \in Seq(LineId) /\ Once(LineEvents(n))
         /\ \A i \in DOMAIN LineEvents(n) : LineEvents(n)[i][2] = n
<1>. DEFINE ks == EventsOf[lines[n]]
            s == LineEvents(n)
<1>1. lines[n] \in DOMAIN EventsOf /\ n \in Nat
  BY DEF Feeding
<1>2. ks \in Seq(EventKinds) /\ Once(ks)
  BY <1>1, KindsOnce
<1>3. s = [i \in 1..Len(ks) |-> <<"line", n, ks[i]>>]
  BY DEF LineEvents, EventId
<1>. HIDE DEF ks, s, EventKinds
<1>4. \A i \in 1..Len(ks) : <<"line", n, ks[i]>> \in LineId
  BY <1>1, <1>2 DEF LineId
<1>5. s \in Seq(LineId)
  BY <1>2, <1>3, <1>4
<1>6. Once(s) /\ \A i \in DOMAIN s : s[i][2] = n
  BY <1>2, <1>3 DEF Once
<1>. QED
  BY <1>5, <1>6 DEF s

(* The events of some lines, in file order: none comes twice. *)
IsReading(f, ns) ==
  f = [n \in 0..Len(lines) |->
         IF n = 0 THEN <<>> ELSE f[n - 1] \o (IF n \in ns THEN LineEvents(n) ELSE <<>>)]

LEMMA ReadingExists ==
  ASSUME Feeding, NEW ns
  PROVE  \E f : IsReading(f, ns)
<1>. DEFINE n == Len(lines)
            piece == [m \in 1..n |-> IF m \in ns THEN LineEvents(m) ELSE <<>>]
            step == [p \in (1..n) \X Seq(LineId) |-> p[2] \o piece[p[1]]]
<1>1. n \in Nat /\ <<>> \in Seq(LineId)
  BY DEF Feeding
<1>2. \A m \in 1..n : piece[m] \in Seq(LineId)
  BY LineOnce
<1>3. \A m \in 1..n : piece[m] = IF m \in ns THEN LineEvents(m) ELSE <<>>
  OBVIOUS
<1>. HIDE DEF n, piece, LineId
<1>4. step \in [(1..n) \X Seq(LineId) -> Seq(LineId)]
  BY <1>2
<1>5. \A m \in 1..n, r \in Seq(LineId) : step[<<m, r>>] = r \o piece[m]
  OBVIOUS
<1>6. PICK f : Unfolds(f, n, Seq(LineId), <<>>, step)
  <2>. HIDE DEF step
  <2>. QED
    BY <1>1, <1>4, RecursionExists
<1>7. ASSUME NEW m \in 0..n
      PROVE  f[m] = IF m = 0 THEN <<>>
                    ELSE f[m - 1] \o (IF m \in ns THEN LineEvents(m) ELSE <<>>)
  <2>1. CASE m = 0
    BY <2>1, <1>6 DEF Unfolds
  <2>2. CASE m # 0
    <3>1. m \in 1..n /\ m - 1 \in 0..n
      BY <1>1, <2>2
    <3>2. f[m] = step[<<m, f[m - 1]>>] /\ f[m - 1] \in Seq(LineId)
      BY <1>6, <3>1 DEF Unfolds
    <3>. HIDE DEF step
    <3>. QED
      BY <2>2, <3>1, <3>2, <1>3, <1>5
  <2>. QED
    BY <2>1, <2>2
<1>8. f = [m \in 0..n |-> f[m]]
  BY <1>6 DEF Unfolds
<1>. QED
  BY <1>7, <1>8 DEF IsReading, n

LEMMA JoinsOnce ==
  ASSUME NEW T, NEW s \in Seq(T), NEW t \in Seq(T), Once(s), Once(t),
         \A i \in DOMAIN s, k \in DOMAIN t : s[i] # t[k]
  PROVE  s \o t \in Seq(T) /\ Once(s \o t)
<1>. DEFINE u == s \o t
<1>1. /\ u \in Seq(T) /\ Len(s) \in Nat /\ Len(t) \in Nat /\ DOMAIN s = 1..Len(s) /\ DOMAIN t = 1..Len(t)
      /\ DOMAIN u = 1..(Len(s) + Len(t))
      /\ \A i \in DOMAIN u : u[i] = IF i <= Len(s) THEN s[i] ELSE t[i - Len(s)]
  OBVIOUS
<1>. HIDE DEF u
<1>2. ASSUME NEW i \in DOMAIN u
      PROVE  \/ i \in DOMAIN s /\ u[i] = s[i]
             \/ i - Len(s) \in DOMAIN t /\ u[i] = t[i - Len(s)]
  BY <1>1
<1>3. ASSUME NEW i \in DOMAIN u, NEW k \in DOMAIN u, u[i] = u[k] PROVE i = k
  <2>1. i \in Nat /\ k \in Nat
    BY <1>1
  <2>2. CASE i \in DOMAIN s /\ u[i] = s[i]
    <3>1. k \in DOMAIN s /\ u[k] = s[k]
      BY <1>2, <1>3, <2>2
    <3>. QED
      BY <1>3, <2>2, <3>1 DEF Once
  <2>3. CASE i - Len(s) \in DOMAIN t /\ u[i] = t[i - Len(s)]
    <3>1. k - Len(s) \in DOMAIN t /\ u[k] = t[k - Len(s)]
      BY <1>2, <1>3, <2>3
    <3>2. i - Len(s) = k - Len(s)
      BY <1>3, <2>3, <3>1 DEF Once
    <3>. QED
      BY <1>1, <2>1, <3>2
  <2>. QED
    BY <1>2, <2>2, <2>3
<1>. QED
  BY <1>1, <1>3 DEF Once, u

LEMMA ReadingOnce ==
  ASSUME Feeding, NEW ns, NEW f, IsReading(f, ns)
  PROVE  f[Len(lines)] \in Seq(LineId) /\ Once(f[Len(lines)])
<1>. DEFINE n == Len(lines)
            Good(m) == f[m] \in Seq(LineId) /\ Once(f[m]) /\ \A i \in DOMAIN f[m] : f[m][i][2] \in 1..m
            P == {m \in 0..n : Good(m)}
<1>1. n \in Nat
  BY DEF Feeding
<1>2. \A m \in 0..n : f[m] = IF m = 0 THEN <<>>
                             ELSE f[m - 1] \o (IF m \in ns THEN LineEvents(m) ELSE <<>>)
  BY Zenon DEF IsReading
<1>3. 0 \in P
  <2>1. 0 \in 0..n
    BY <1>1
  <2>2. f[0] = <<>>
    BY <1>2, <2>1
  <2>3. <<>> \in Seq(LineId) /\ Once(<<>>) /\ DOMAIN <<>> = {}
    BY DEF Once
  <2>4. Good(0)
    BY <2>2, <2>3
  <2>. HIDE DEF Good
  <2>. QED
    BY <2>1, <2>4
<1>4. ASSUME NEW m \in 1..n, m - 1 \in P PROVE m \in P
  <2>. DEFINE s == f[m - 1]
              t == IF m \in ns THEN LineEvents(m) ELSE <<>>
  <2>1. m \in 0..n /\ m - 1 \in 0..n /\ m # 0 /\ m \in Nat
    BY <1>1
  <2>2. f[m] = s \o t
    BY <1>2, <2>1
  <2>3. s \in Seq(LineId) /\ Once(s) /\ \A i \in DOMAIN s : s[i][2] \in 1..(m - 1)
    BY <1>4
  <2>4. t \in Seq(LineId) /\ Once(t) /\ \A i \in DOMAIN t : t[i][2] = m
    BY LineOnce DEF Once
  <2>. HIDE DEF s, t, n, LineId
  <2>5. \A i \in DOMAIN s, k \in DOMAIN t : s[i] # t[k]
    BY <2>1, <2>3, <2>4
  <2>6. s \o t \in Seq(LineId) /\ Once(s \o t)
    BY <2>3, <2>4, <2>5, JoinsOnce
  <2>7. ASSUME NEW i \in DOMAIN (s \o t) PROVE (s \o t)[i][2] \in 1..m
    <3>1. \/ i \in DOMAIN s /\ (s \o t)[i] = s[i]
          \/ i - Len(s) \in DOMAIN t /\ (s \o t)[i] = t[i - Len(s)]
      BY <2>3, <2>4
    <3>. QED
      BY <3>1, <2>1, <2>3, <2>4
  <2>. QED
    BY <2>1, <2>2, <2>6, <2>7
<1>5. n \in P
  <2>. HIDE DEF P
  <2>1. 0..n \subseteq P
    BY <1>1, <1>3, <1>4, Induction
  <2>. QED
    BY <1>1, <2>1
<1>. QED
  BY <1>5

LEMMA EventsOnce ==
  ASSUME Feeding, NEW ns
  PROVE  EventsIn(ns) \in Seq(Ident) /\ Once(EventsIn(ns))
<1>. DEFINE f == CHOOSE f : IsReading(f, ns)
<1>1. IsReading(f, ns)
  BY ReadingExists
<1>2. EventsIn(ns) = f[Len(lines)]
  BY Zenon DEF EventsIn, IsReading
<1>. HIDE DEF f
<1>3. f[Len(lines)] \in Seq(LineId) /\ Once(f[Len(lines)])
  BY <1>1, ReadingOnce
<1>4. \A s \in Seq(LineId) : s \in Seq(Ident)
  BY DEF Ident
<1>. QED
  BY <1>2, <1>3, <1>4

(* What a handler has not seen is delivered once. *)
LEMMA DeliversOnce ==
  ASSUME Feeding, NEW l \in Log, NEW ns, handling = <<>>, Delivers(l, EventsIn(ns))
  PROVE  Unseen(handling', l.seen)
<1>. DEFINE ids == EventsIn(ns)
            at == {i \in DOMAIN ids : ids[i] \notin l.seen}
            p == Kept(ids, at)
<1>1. ids \in Seq(Ident) /\ Once(ids)
  BY EventsOnce
<1>2. handling' = handling \o p
  BY DEF Delivers
<1>3. \A i \in at : i \in DOMAIN ids /\ ids[i] \notin l.seen
  OBVIOUS
<1>. HIDE DEF ids, at
<1>4. p \in Seq(Ident) /\ Holding(p, ids, at)
  BY <1>1, KeptHolds
<1>. HIDE DEF p
<1>5. handling' = p
  <2>1. \A s \in Seq(Ident) : <<>> \o s = s
    OBVIOUS
  <2>. QED
    BY <1>2, <1>4, <2>1
<1>6. \A k \in DOMAIN p : \E i \in DOMAIN ids \cap at : p[k] = ids[i]
  BY <1>4 DEF Holding
<1>7. ASSUME NEW k \in DOMAIN p, NEW l2 \in DOMAIN p, p[k] = p[l2], k < l2 PROVE FALSE
  <2>1. PICK i, j \in DOMAIN ids \cap at : i < j /\ p[k] = ids[i] /\ p[l2] = ids[j]
    BY <1>4, <1>7 DEF Holding
  <2>2. i = j
    BY <1>1, <1>7, <2>1 DEF Once
  <2>3. i \in Nat
    BY <1>1, <2>1
  <2>. QED
    BY <2>1, <2>2, <2>3
<1>8. Once(p)
  <2>1. \A k, m \in DOMAIN p : k < m \/ m < k \/ k = m
    BY <1>4
  <2>. QED
    BY <1>7, <2>1 DEF Once
<1>. QED
  BY <1>3, <1>4, <1>5, <1>6, <1>8 DEF Unseen

LEMMA IdsGrow ==
  ASSUME NEW s \in Seq(Entry), NEW x \in Entry
  PROVE  Append(s, x) \in Seq(Entry) /\ Ids(Append(s, x)) = Ids(s) \cup {x.id}
<1>. DEFINE u == Append(s, x)
<1>1. /\ u \in Seq(Entry) /\ Len(s) \in Nat /\ Len(u) = Len(s) + 1 /\ u[Len(s) + 1] = x
      /\ \A i \in 1..Len(s) : u[i] = s[i]
  OBVIOUS
<1>. HIDE DEF u
<1>2. \A i \in 1..Len(u) : i \in 1..Len(s) \/ i = Len(s) + 1
  BY <1>1
<1>3. \A i \in 1..Len(s) : i \in 1..Len(u)
  BY <1>1
<1>4. Len(s) + 1 \in 1..Len(u)
  BY <1>1
<1>5. Ids(u) \subseteq Ids(s) \cup {x.id}
  BY <1>1, <1>2 DEF Ids
<1>6. Ids(s) \cup {x.id} \subseteq Ids(u)
  BY <1>1, <1>3, <1>4 DEF Ids
<1>. QED
  BY <1>1, <1>5, <1>6 DEF u

LEMMA LoadedLog ==
  ASSUME Feeding
  PROVE  /\ Loaded(log) \in Log /\ Loaded(log).on
         /\ log.on => Loaded(log) = log
         /\ ~log.on => Loaded(log).events = cache /\ Loaded(log).seen = Ids(cache)
<1>1. CASE log.on
  BY <1>1 DEF Loaded, Feeding
<1>2. CASE ~log.on
  <2>. DEFINE next == IF cache = <<>> THEN 1 ELSE cache[Len(cache)].seq + 1
              seen == Ids(cache)
              l == [on |-> TRUE, events |-> cache, next |-> next, seen |-> seen]
  <2>1. cache \in Seq(Entry) /\ \A i \in 1..Len(cache) : cache[i].id \in Ident /\ cache[i].seq \in Nat
    <3>1. cache \in Seq(Entry)
      BY DEF Feeding
    <3>2. \A i \in 1..Len(cache) : cache[i] \in Entry
      BY <3>1
    <3>. QED
      BY <3>1, <3>2 DEF Entry
  <2>2. next \in Nat
    <3>1. CASE cache # <<>>
      <4>1. Len(cache) \in 1..Len(cache)
        BY <2>1, <3>1
      <4>. QED
        BY <2>1, <4>1
    <3>. QED
      BY <3>1
  <2>3. seen \in SUBSET Ident
    BY <2>1 DEF Ids
  <2>4. Loaded(log) = l
    BY <1>2 DEF Loaded
  <2>. HIDE DEF next, seen
  <2>5. l \in Log /\ l.on /\ l.events = cache /\ l.seen = seen
    BY <2>1, <2>2, <2>3 DEF Log
  <2>. QED
    BY <1>2, <2>4, <2>5 DEF seen
<1>. QED
  BY <1>1, <1>2

LEMMA PublishedLog ==
  ASSUME NEW l \in Log, NEW f, NEW id \in Ident
  PROVE  /\ Published(l, f, id).log \in Log
         /\ Published(l, f, id).log.on = l.on /\ Published(l, f, id).log.seen = l.seen
         /\ Ids(Published(l, f, id).log.events) = Ids(l.events) \cup {id}
<1>. DEFINE x == [seq |-> l.next, id |-> id]
            more == Append(l.events, x)
            n == l.next + 1
            m == [[l EXCEPT !.events = more] EXCEPT !.next = n]
<1>1. l.events \in Seq(Entry) /\ l.next \in Nat /\ x \in Entry /\ x.id = id
  BY DEF Log, Entry
<1>2. more \in Seq(Entry) /\ Ids(more) = Ids(l.events) \cup {id} /\ n \in Nat
  <2>. HIDE DEF x
  <2>. QED
    BY <1>1, IdsGrow
<1>3. Published(l, f, id).log = m
  BY Zenon DEF Published
<1>. HIDE DEF more, n
<1>4. m \in Log /\ m.on = l.on /\ m.seen = l.seen /\ m.events = more
  BY <1>2 DEF Log
<1>. QED
  BY <1>2, <1>3, <1>4

(* A step that goes on from the log, or from its cache, and forgets nothing. *)
LEMMA GrowsLog ==
  ASSUME FeedInv, handling = <<>>, NEW l, l = Loaded(log), log' \in Log, log'.on,
         log'.seen = l.seen, Ids(l.events) \subseteq Ids(log'.events),
         UNCHANGED <<cache, sent>>, lines' \in Seq(DOMAIN EventsOf), turn' \in Turn,
         Unseen(handling', l.seen)
  PROVE  FeedInv'
<1>1. Feeding'
  BY DEF FeedInv, Feeding
<1>2. \A id \in Remembered : id \in l.seen /\ id \in Ids(l.events)
  BY LoadedLog DEF Remembered, FeedInv
<1>3. \A id \in Remembered : id \in Remembered'
  BY <1>2 DEF Remembered
<1>. QED
  BY <1>1, <1>3 DEF FeedInv

LEMMA LeavesLog ==
  ASSUME FeedInv, UNCHANGED <<log, cache, sent, handling, tail>>,
         lines' \in Seq(DOMAIN EventsOf), turn' \in Turn
  PROVE  FeedInv'
<1>1. Feeding'
  BY DEF FeedInv, Feeding
<1>2. Remembered' = Remembered
  BY DEF Remembered
<1>. QED
  BY <1>1, <1>2 DEF FeedInv

LEMMA TurnsAreFinite ==
  ASSUME Feeding, NEW l
  PROVE  Cardinality(Turns(l)) \in Nat /\ OpenTurns(l) \subseteq Nat
<1>1. turn.n + 1 \in Nat /\ Turns(l) \subseteq 1..(turn.n + 1)
  BY DEF Feeding, Turns, Turn
<1>2. IsFiniteSet(1..(turn.n + 1))
  BY <1>1, FS_Interval
<1>3. IsFiniteSet(Turns(l))
  BY <1>1, <1>2, FS_Subset
<1>4. Cardinality(Turns(l)) \in Nat
  BY <1>3, FS_CardinalityType
<1>5. OpenTurns(l) \subseteq Nat
  BY <1>1 DEF OpenTurns
<1>. QED
  BY <1>4, <1>5

(* A prompt or a Stop puts a mark in the log. *)
LEMMA RecordsLog ==
  ASSUME FeedInv, NEW end \in {"start", "end"}, Records(end)
  PROVE  /\ log' \in Log /\ log'.on /\ log'.seen = Loaded(log).seen
         /\ Ids(Loaded(log).events) \subseteq Ids(log'.events)
<1>. DEFINE l == Loaded(log)
            f == Synced(l, feed)
            t == IF OpenTurns(l) # {} THEN CHOOSE t \in OpenTurns(l) : TRUE
                 ELSE IF end = "start" THEN Cardinality(Turns(l)) + 1 ELSE 0
            mark == Mark(t, end)
<1>1. l \in Log /\ l.on
  BY LoadedLog DEF FeedInv
<1>2. log' = l \/ log' = Published(l, f, mark).log
  BY Zenon DEF Records
<1>3. t \in Nat
  <2>. HIDE DEF l
  <2>1. Cardinality(Turns(l)) \in Nat /\ OpenTurns(l) \subseteq Nat
    BY TurnsAreFinite DEF FeedInv
  <2>2. OpenTurns(l) # {} => (CHOOSE x \in OpenTurns(l) : TRUE) \in OpenTurns(l)
    OBVIOUS
  <2>. QED
    BY <2>1, <2>2
<1>. HIDE DEF l, f, t
<1>4. mark \in Ident
  BY <1>3 DEF Mark, Ident, MarkId
<1>. HIDE DEF mark
<1>5. CASE log' = l
  BY <1>1, <1>5 DEF l
<1>6. CASE log' = Published(l, f, mark).log
  BY <1>1, <1>4, <1>6, PublishedLog DEF l
<1>. QED
  BY <1>2, <1>5, <1>6

(* The tail: what it reads and the log has not seen goes to a handler. *)
LEMMA TailLog ==
  ASSUME FeedInv, handling = <<>>, NEW l \in Log, StartTail(l) \/ \E key : TailStarts(l, key)
  PROVE  Unseen(handling', l.seen)
<1>1. Feeding
  BY DEF FeedInv
<1>2. ASSUME NEW key, TailStarts(l, key) PROVE Unseen(handling', l.seen)
  BY <1>1, <1>2, DeliversOnce DEF TailStarts
<1>3. ASSUME handling' = <<>> PROVE Unseen(handling', l.seen)
  BY <1>3 DEF Unseen, Once
<1>. QED
  BY <1>2, <1>3, Zenon DEF StartTail

LEMMA RestOf ==
  ASSUME NEW T, NEW s \in Seq(T), 1 <= Len(s)
  PROVE  /\ SubSeq(s, 2, Len(s)) \in Seq(T) /\ Len(SubSeq(s, 2, Len(s))) = Len(s) - 1
         /\ \A k \in 1..(Len(s) - 1) : SubSeq(s, 2, Len(s))[k] = s[k + 1]
<1>. DEFINE n == Len(s)
            b == SubSeq(s, 2, n)
<1>1. n \in Nat /\ 1 <= n
  OBVIOUS
<1>2. b \in Seq(T) /\ Len(b) = n - 1
  <2>1. ASSUME NEW j \in 1..n
        PROVE  SubSeq(s, j + 1, n) \in Seq(T) /\ Len(SubSeq(s, j + 1, n)) = n - j
    OBVIOUS
  <2>2. 1 \in 1..n /\ 1 + 1 = 2
    BY <1>1
  <2>. QED
    BY <2>1, <2>2
<1>3. \A k \in 1..(n - 1) : b[k] = s[k + 1]
  OBVIOUS
<1>. QED
  BY <1>2, <1>3

LEMMA HandlesLog ==
  ASSUME FeedInv, ~Races, HandleEvent
  PROVE  FeedInv'
<1>. DEFINE id == handling[1]
            base == [Loaded(log) EXCEPT !.seen = @ \cup {id}]
            new == Published(base, feed, id).log
<1>1. /\ 1 \in DOMAIN handling
      /\ handling' = SubSeq(handling, 1, 0) \o SubSeq(handling, 2, Len(handling))
      /\ IF Displayed(id) THEN log' = new /\ (sent' = sent \/ sent' = Append(sent, id))
                          ELSE UNCHANGED <<log, sent>>
      /\ UNCHANGED <<cache, lines, turn, tail>>
  <2>1. PICK i \in DOMAIN handling :
          /\ i = 1
          /\ handling' = SubSeq(handling, 1, i - 1) \o SubSeq(handling, i + 1, Len(handling))
          /\ IF Displayed(handling[i])
             THEN /\ log' = Published([Loaded(log) EXCEPT !.seen = @ \cup {handling[i]}], feed, handling[i]).log
                  /\ sent' = IF Translates(handling[i]) THEN Append(sent, handling[i]) ELSE sent
             ELSE UNCHANGED <<log, sent>>
          /\ UNCHANGED <<role, tail, cache>>
    BY Zenon DEF HandleEvent
  <2>2. UNCHANGED <<cache, lines, turn, tail>>
    BY <2>1 DEF role
  <2>3. 1 - 1 = 0 /\ 1 + 1 = 2
    OBVIOUS
  <2>. QED
    BY <2>1, <2>2, <2>3, Zenon
<1>2. /\ Feeding /\ handling \in Seq(Ident) /\ Once(handling) /\ sent \in Seq(Ident) /\ Once(sent)
      /\ \A i \in DOMAIN handling : handling[i] \notin log.seen
      /\ id \in Ident /\ log \in Log /\ id \notin log.seen
  BY <1>1 DEF FeedInv, Unseen, Feeding
<1>3. log.on /\ Loaded(log) = log
  BY <1>1, <1>2, LoadedLog DEF FeedInv
<1>4. \A i \in DOMAIN sent : sent[i] \in log.seen /\ sent[i] \in Ids(log.events)
  BY <1>3 DEF FeedInv, Remembered
<1>5. /\ handling' \in Seq(Ident) /\ Len(handling') = Len(handling) - 1
      /\ \A k \in 1..(Len(handling) - 1) : handling'[k] = handling[k + 1]
  <2>. DEFINE s == handling
              a == SubSeq(s, 1, 0)
              b == SubSeq(s, 2, Len(s))
  <2>1. a \in Seq(Ident) /\ Len(a) = 0
    BY <1>1, <1>2
  <2>2. b \in Seq(Ident) /\ Len(b) = Len(s) - 1 /\ \A k \in 1..(Len(s) - 1) : b[k] = s[k + 1]
    <3>1. s \in Seq(Ident) /\ 1 <= Len(s)
      BY <1>1, <1>2
    <3>. HIDE DEF s
    <3>. QED
      BY <3>1, RestOf
  <2>3. handling' = a \o b
    BY <1>1
  <2>. HIDE DEF a, b, s
  <2>4. a \o b \in Seq(Ident) /\ Len(a \o b) = Len(b) /\ \A k \in 1..Len(b) : (a \o b)[k] = b[k]
    BY <2>1, <2>2
  <2>. QED
    BY <2>2, <2>3, <2>4 DEF s
<1>6. \A i, k \in 1..Len(handling) : handling[i] = handling[k] => i = k
  BY <1>2 DEF Once
<1>7. /\ DOMAIN handling' = 1..(Len(handling) - 1) /\ Len(handling) \in Nat
      /\ \A k \in 1..(Len(handling) - 1) : k + 1 \in 1..Len(handling) /\ k + 1 # 1
  BY <1>2, <1>5
<1>8. Once(handling') /\ \A k \in DOMAIN handling' : handling'[k] \notin log.seen \cup {id}
  <2>1. ASSUME NEW i \in DOMAIN handling', NEW k \in DOMAIN handling', handling'[i] = handling'[k]
        PROVE  i = k
    <3>1. i + 1 = k + 1
      BY <1>5, <1>6, <1>7, <2>1
    <3>. QED
      BY <1>7, <3>1
  <2>2. ASSUME NEW k \in DOMAIN handling' PROVE handling'[k] \notin log.seen \cup {id}
    <3>1. handling'[k] = handling[k + 1] /\ k + 1 \in 1..Len(handling) /\ k + 1 # 1
      BY <1>5, <1>7
    <3>2. 1 \in 1..Len(handling)
      BY <1>1, <1>2
    <3>3. handling[k + 1] # handling[1]
      BY <1>6, <3>1, <3>2
    <3>. QED
      BY <1>2, <3>1, <3>3
  <2>. QED
    BY <2>1, <2>2 DEF Once
<1>9. /\ base \in Log /\ base.on /\ base.seen = log.seen \cup {id} /\ base.events = log.events
  <2>. DEFINE seen == log.seen \cup {id}
  <2>1. base = [log EXCEPT !.seen = seen] /\ seen \in SUBSET Ident
    BY <1>2, <1>3 DEF Log
  <2>. HIDE DEF seen, base
  <2>2. base \in Log /\ base.on = log.on /\ base.seen = seen /\ base.events = log.events
    BY <1>2, <2>1 DEF Log
  <2>. QED
    BY <1>3, <2>2 DEF seen
<1>. HIDE DEF base
<1>10. /\ new \in Log /\ new.on /\ new.seen = log.seen \cup {id}
       /\ Ids(new.events) = Ids(log.events) \cup {id}
  <2>. HIDE DEF id
  <2>1. base \in Log /\ id \in Ident
    BY <1>2, <1>9
  <2>2. /\ new \in Log /\ new.on = base.on /\ new.seen = base.seen
        /\ Ids(new.events) = Ids(base.events) \cup {id}
    BY <2>1, PublishedLog, Zenon
  <2>. QED
    BY <1>9, <2>2
<1>. HIDE DEF new, id
<1>11. /\ log' \in Log /\ log'.on /\ log'.seen \subseteq log.seen \cup {id}
       /\ log.seen \subseteq log'.seen /\ Ids(log.events) \subseteq Ids(log'.events)
       /\ sent' = sent \/ (/\ sent' = Append(sent, id)
                           /\ id \in log'.seen /\ id \in Ids(log'.events))
  BY <1>1, <1>2, <1>3, <1>10
<1>12. \A i \in DOMAIN sent : sent[i] \in log'.seen /\ sent[i] \in Ids(log'.events) /\ sent[i] # id
  BY <1>2, <1>4, <1>11
<1>13. /\ sent' \in Seq(Ident) /\ Once(sent')
       /\ \A i \in DOMAIN sent' : sent'[i] \in log'.seen /\ sent'[i] \in Ids(log'.events)
  <2>1. CASE sent' = sent
    BY <1>2, <1>12, <2>1
  <2>2. CASE sent' = Append(sent, id) /\ id \in log'.seen /\ id \in Ids(log'.events)
    <3>1. /\ sent' \in Seq(Ident) /\ Len(sent) \in Nat /\ DOMAIN sent = 1..Len(sent)
          /\ DOMAIN sent' = 1..(Len(sent) + 1) /\ sent'[Len(sent) + 1] = id
          /\ \A i \in DOMAIN sent : sent'[i] = sent[i]
      BY <1>2, <2>2
    <3>2. \A i \in DOMAIN sent' : (i \in DOMAIN sent /\ sent'[i] = sent[i]) \/ (i = Len(sent) + 1 /\ sent'[i] = id)
      BY <3>1
    <3>3. Once(sent')
      BY <1>2, <1>12, <3>2 DEF Once
    <3>. QED
      BY <1>12, <2>2, <3>1, <3>2, <3>3
  <2>. QED
    BY <1>11, <2>1, <2>2
<1>14. Feeding'
  BY <1>1, <1>2, <1>11, <1>13 DEF Feeding
<1>15. Unseen(handling', log'.seen)
  BY <1>5, <1>8, <1>11 DEF Unseen
<1>16. \A i \in DOMAIN sent' : sent'[i] \in Remembered'
  BY <1>11, <1>13 DEF Remembered
<1>. QED
  BY <1>11, <1>13, <1>14, <1>15, <1>16 DEF FeedInv

LEMMA FeedStep ==
  ~Races /\ FeedInv /\ [FeedNext]_feedVars => FeedInv'
<1>. SUFFICES ASSUME ~Races, FeedInv, [FeedNext]_feedVars PROVE FeedInv'
  OBVIOUS
<1>. DEFINE l == Loaded(log)
<1>1. /\ Feeding /\ lines \in Seq(DOMAIN EventsOf) /\ turn \in Turn
      /\ log \in Log /\ cache \in Seq(Entry) /\ Len(lines) \in Nat
  BY DEF FeedInv, Feeding
<1>2. l \in Log /\ l.on /\ (log.on => l = log)
  BY <1>1, LoadedLog
<1>3. \A seen : Unseen(<<>>, seen)
  BY DEF Unseen, Once
<1>4. ASSUME UNCHANGED <<log, cache, sent, handling, tail>>,
             lines' \in Seq(DOMAIN EventsOf), turn' \in Turn
      PROVE  FeedInv'
  BY <1>4, LeavesLog
<1>5. ASSUME handling = <<>>, log' \in Log, log'.on, log'.seen = l.seen,
             Ids(l.events) \subseteq Ids(log'.events), UNCHANGED <<cache, sent>>,
             lines' \in Seq(DOMAIN EventsOf), turn' \in Turn, Unseen(handling', l.seen)
      PROVE  FeedInv'
  BY <1>5, GrowsLog
<1>6. CASE HandleEvent
  BY <1>6, HandlesLog
<1>7. ASSUME NEW k \in LineKinds, BeginLine(k) PROVE FeedInv'
  <2>1. k \in DOMAIN EventsOf
    BY FeedAssumption
  <2>2. lines' = Append(lines, k) /\ UNCHANGED <<log, cache, sent, handling, tail, turn>>
    BY <1>7 DEF BeginLine, publishing
  <2>3. lines' \in Seq(DOMAIN EventsOf)
    BY <1>1, <2>1, <2>2
  <2>. QED
    BY <1>1, <1>4, <2>2, <2>3
<1>8. CASE EndLine \/ Toggle \/ ApplyFeed \/ Reload
  <2>1. UNCHANGED <<log, cache, sent, handling, tail, turn, lines>>
    BY <1>8 DEF EndLine, Toggle, ApplyFeed, Reload, publishing, role
  <2>. QED
    BY <1>1, <1>4, <2>1
<1>9. ASSUME Prompt \/ StopHook, handling = <<>> PROVE FeedInv'
  <2>1. /\ Records("start") \/ Records("end")
        /\ UNCHANGED <<lines, tail, handling, cache, sent>>
    BY <1>9 DEF Prompt, StopHook
  <2>2. turn' \in Turn
    <3>1. CASE turn' = [n |-> turn.n + 1, from |-> Len(lines) + 1, busy |-> TRUE]
      BY <1>1, <3>1 DEF Turn
    <3>2. CASE turn' = [turn EXCEPT !.busy = FALSE]
      BY <1>1, <3>2 DEF Turn
    <3>. QED
      BY <1>9, <3>1, <3>2 DEF Prompt, StopHook
  <2>3. /\ log' \in Log /\ log'.on /\ log'.seen = l.seen
        /\ Ids(l.events) \subseteq Ids(log'.events)
    BY <2>1, RecordsLog
  <2>. HIDE DEF l
  <2>. QED
    BY <1>1, <1>3, <1>5, <1>9, <2>1, <2>2, <2>3
<1>10. ASSUME RetrySubscribe \/ FlushTail, handling = <<>> PROVE FeedInv'
  <2>1. log.on /\ l = log
    BY <1>2, <1>10 DEF RetrySubscribe, FlushTail, FeedInv
  <2>2. UNCHANGED <<log, cache, sent, lines, turn>>
    BY <1>10 DEF RetrySubscribe, FlushTail, publishing, role
  <2>3. Unseen(handling', log.seen)
    <3>1. CASE RetrySubscribe
      BY <1>1, <1>10, <3>1, TailLog DEF RetrySubscribe
    <3>2. CASE FlushTail
      <4>1. handling' = <<>> \/ \E ns : Delivers(log, EventsIn(ns))
        BY <1>10, <3>2, Zenon DEF FlushTail
      <4>. QED
        BY <1>1, <1>3, <1>10, <4>1, DeliversOnce
    <3>. QED
      BY <1>10, <3>1, <3>2
  <2>. HIDE DEF l
  <2>. QED
    BY <1>1, <1>5, <1>10, <2>1, <2>2, <2>3
<1>11. ASSUME StartSession \/ PollFeed, handling = <<>> PROVE FeedInv'
  <2>1. log' = l /\ StartTail(l) /\ UNCHANGED <<cache, sent, lines, turn>>
    BY <1>11 DEF StartSession, PollFeed, Prepares, role
  <2>. HIDE DEF l
  <2>2. Unseen(handling', l.seen)
    BY <1>2, <1>11, <2>1, TailLog
  <2>. QED
    BY <1>1, <1>2, <1>5, <1>11, <2>1, <2>2
<1>12. ASSUME StopTask, handling = <<>> PROVE FeedInv'
  <2>1. /\ log.on /\ tail' = NoTail /\ log' = NoLog /\ cache' = log.events
        /\ UNCHANGED <<lines, turn, handling, sent>>
    BY <1>12 DEF StopTask, role
  <2>2. NoTail.state = "none" /\ NoLog \in Log /\ ~NoLog.on /\ NoLog.seen = {}
    BY DEF NoTail, NoLog, Log
  <2>3. log.events \in Seq(Entry)
    BY <1>1 DEF Log
  <2>4. Feeding'
    BY <1>1, <2>1, <2>2, <2>3 DEF Feeding
  <2>5. Remembered \subseteq Remembered'
    BY <2>1, <2>2 DEF Remembered
  <2>. QED
    BY <1>3, <1>12, <2>1, <2>2, <2>4, <2>5 DEF FeedInv
<1>13. ASSUME ClearSession, handling = <<>> PROVE FeedInv'
  <2>1. /\ log.on /\ log' = [log EXCEPT !.events = <<>>, !.next = 1] /\ sent' = <<>>
        /\ UNCHANGED <<lines, turn, tail, handling, cache>>
    BY <1>13 DEF ClearSession, role
  <2>2. log' \in Log /\ log'.on
    <3>1. <<>> \in Seq(Entry) /\ 1 \in Nat
      OBVIOUS
    <3>. QED
      BY <1>1, <2>1, <3>1 DEF Log
  <2>3. Feeding' /\ Once(sent')
    BY <1>1, <2>1, <2>2 DEF Feeding, Once
  <2>. QED
    BY <1>3, <1>13, <2>1, <2>2, <2>3 DEF FeedInv
<1>14. CASE UNCHANGED feedVars
  <2>1. UNCHANGED <<log, cache, sent, handling, tail, turn, lines>>
    BY <1>14 DEF feedVars
  <2>. QED
    BY <1>1, <1>4, <2>1
<1>. QED
  BY <1>6, <1>7, <1>8, <1>9, <1>10, <1>11, <1>12, <1>13, <1>14 DEF FeedNext

LEMMA FeedStart == FeedInit => FeedInv
<1>. SUFFICES ASSUME FeedInit PROVE FeedInv
  OBVIOUS
<1>1. /\ lines = <<>> /\ turn = [n |-> 0, from |-> 1, busy |-> FALSE] /\ tail = NoTail
      /\ handling = <<>> /\ log = NoLog /\ cache = <<>> /\ sent = <<>>
  BY DEF FeedInit
<1>2. NoTail.state = "none" /\ NoLog \in Log
  BY DEF NoTail, NoLog, Log
<1>3. Feeding
  BY <1>1, <1>2 DEF Feeding, Turn
<1>. QED
  BY <1>1, <1>2, <1>3 DEF FeedInv, Unseen, Once

LEMMA OnceFollows == FeedInv => TranslatedOnce
<1>. SUFFICES ASSUME FeedInv PROVE TranslatedOnce
  OBVIOUS
<1>1. sent \in Seq(Ident) /\ Once(sent)
  BY DEF FeedInv, Feeding
<1>. QED
  BY <1>1 DEF Once, TranslatedOnce

(* However often a transcript is replayed, for a new path, after a pause   *)
(* of translation or for a reload, no text of it is given to translation   *)
(* twice, unless the panel was cleared in between: a session remembers     *)
(* what it gave, and its cache what the session remembered.                *)
THEOREM SentOnce ==
  ASSUME ~Races
  PROVE  FeedSpec => []TranslatedOnce
<1>1. FeedInit => FeedInv
  BY FeedStart
<1>2. FeedInv /\ [FeedNext]_feedVars => FeedInv'
  BY FeedStep
<1>3. FeedInv => TranslatedOnce
  BY OnceFollows
<1>. QED
  BY <1>1, <1>2, <1>3, PTL DEF FeedSpec
-----------------------------------------------------------------------------
(***************************************************************************)
(* The translated files: the chunks of a source.                           *)
(***************************************************************************)
Gathering == [done : Seq(Seq(Nat)), now : Seq(Nat), size : Nat]

\* One line more.
WithLine(text, n, before) ==
  IF before.now # <<>> /\ before.size + text[n] > ChunkTarget
  THEN [done |-> Append(before.done, before.now), now |-> <<n>>, size |-> text[n]]
  ELSE [before EXCEPT !.now = Append(@, n), !.size = @ + text[n]]

\* The chunks hold exactly these lines.
Hold(chunks, total) ==
  /\ \A i \in DOMAIN chunks : \A k \in DOMAIN chunks[i] : chunks[i][k] \in total
  /\ \A l \in total : \E i \in DOMAIN chunks : \E k \in DOMAIN chunks[i] : chunks[i][k] = l

LEMMA AppendIs ==
  ASSUME NEW T, NEW s \in Seq(T), NEW e \in T
  PROVE  /\ Append(s, e) \in Seq(T) /\ Len(s) \in Nat /\ DOMAIN s = 1..Len(s)
         /\ DOMAIN Append(s, e) = 1..(Len(s) + 1) /\ Append(s, e)[Len(s) + 1] = e
         /\ \A i \in DOMAIN s : Append(s, e)[i] = s[i]
  OBVIOUS

LEMMA LineIsTyped ==
  ASSUME NEW text \in Seq(Nat), NEW n \in 1..Len(text), NEW g \in Gathering
  PROVE  WithLine(text, n, g) \in Gathering
<1>1. g.done \in Seq(Seq(Nat)) /\ g.now \in Seq(Nat) /\ g.size \in Nat /\ text[n] \in Nat /\ n \in Nat
  BY DEF Gathering
<1>2. CASE g.now # <<>> /\ g.size + text[n] > ChunkTarget
  <2>1. WithLine(text, n, g) = [done |-> Append(g.done, g.now), now |-> <<n>>, size |-> text[n]]
    BY <1>2, Zenon DEF WithLine
  <2>. QED
    BY <1>1, <2>1 DEF Gathering
<1>3. CASE ~(g.now # <<>> /\ g.size + text[n] > ChunkTarget)
  <2>1. WithLine(text, n, g) = [g EXCEPT !.now = Append(@, n), !.size = @ + text[n]]
    BY <1>3, Zenon DEF WithLine
  <2>2. Append(g.now, n) \in Seq(Nat) /\ g.size + text[n] \in Nat
    BY <1>1
  <2>. QED
    BY <2>1, <2>2 DEF Gathering
<1>. QED
  BY <1>2, <1>3

LEMMA LineIsAdded ==
  ASSUME NEW text \in Seq(Nat), NEW n \in 1..Len(text), NEW g \in Gathering,
         Hold(Append(g.done, g.now), 1..(n - 1))
  PROVE  Hold(Append(WithLine(text, n, g).done, WithLine(text, n, g).now), 1..n)
<1>. DEFINE h == WithLine(text, n, g)
            a == g.done
            b == g.now
            old == Append(a, b)
<1>1. /\ a \in Seq(Seq(Nat)) /\ b \in Seq(Nat) /\ g.size \in Nat /\ text[n] \in Nat /\ n \in Nat
      /\ Hold(old, 1..(n - 1))
  BY DEF Gathering
<1>2. CASE b # <<>> /\ g.size + text[n] > ChunkTarget
  <2>1. h = [done |-> Append(a, b), now |-> <<n>>, size |-> text[n]]
    BY <1>2, Zenon DEF WithLine
  <2>3. h.done = old /\ h.now = <<n>>
    BY <2>1
  <2>. DEFINE new == Append(old, <<n>>)
  <2>. HIDE DEF h, a, b
  <2>4. old \in Seq(Seq(Nat)) /\ <<n>> \in Seq(Nat)
    BY <1>1
  <2>. HIDE DEF old
  <2>5. /\ Len(old) \in Nat /\ DOMAIN old = 1..Len(old) /\ DOMAIN new = 1..(Len(old) + 1)
        /\ \A i \in DOMAIN old : new[i] = old[i]
        /\ new[Len(old) + 1] = <<n>> /\ DOMAIN <<n>> = {1} /\ <<n>>[1] = n
    BY <2>4
  <2>. HIDE DEF new
  <2>6. \A i \in DOMAIN new : \A k \in DOMAIN new[i] : new[i][k] \in 1..n
    <3>1. TAKE i \in DOMAIN new
    <3>2. CASE i \in DOMAIN old
      <4>1. \A k \in DOMAIN old[i] : old[i][k] \in 1..(n - 1)
        BY <1>1, <3>2 DEF Hold
      <4>. QED
        BY <1>1, <2>5, <3>2, <4>1
    <3>3. CASE i = Len(old) + 1
      BY <1>1, <2>5, <3>3
    <3>. QED
      BY <2>5, <3>2, <3>3
  <2>7. \A l \in 1..n : \E i \in DOMAIN new : \E k \in DOMAIN new[i] : new[i][k] = l
    <3>1. TAKE l \in 1..n
    <3>2. CASE l = n
      BY <2>5, <3>2
    <3>3. CASE l # n
      <4>1. l \in 1..(n - 1)
        BY <3>3
      <4>2. PICK i \in DOMAIN old : \E k \in DOMAIN old[i] : old[i][k] = l
        BY <1>1, <4>1 DEF Hold
      <4>. QED
        BY <2>5, <4>2
    <3>. QED
      BY <3>2, <3>3
  <2>8. Append(WithLine(text, n, g).done, WithLine(text, n, g).now) = new
    BY <2>3 DEF h, new
  <2>9. Hold(new, 1..n)
    BY <2>6, <2>7 DEF Hold
  <2>. QED
    BY <2>8, <2>9
<1>3. CASE ~(b # <<>> /\ g.size + text[n] > ChunkTarget)
  <2>1. h = [g EXCEPT !.now = Append(@, n), !.size = @ + text[n]]
    BY <1>3, Zenon DEF WithLine
  <2>2. h = [done |-> a, now |-> Append(b, n), size |-> g.size + text[n]]
    BY <2>1 DEF Gathering
  <2>4. h.done = a /\ h.now = Append(b, n)
    BY <2>2
  <2>. DEFINE c == Append(b, n)
              new == Append(a, c)
  <2>. HIDE DEF h, a, b
  <2>5. /\ c \in Seq(Nat) /\ Len(b) \in Nat /\ DOMAIN b = 1..Len(b) /\ DOMAIN c = 1..(Len(b) + 1)
        /\ c[Len(b) + 1] = n /\ \A k \in DOMAIN b : c[k] = b[k] /\ k \in DOMAIN c
    BY <1>1
  <2>. HIDE DEF c
  <2>6. /\ Len(a) \in Nat /\ DOMAIN a = 1..Len(a) /\ DOMAIN old = 1..(Len(a) + 1)
        /\ DOMAIN new = 1..(Len(a) + 1)
        /\ old[Len(a) + 1] = b /\ new[Len(a) + 1] = c
        /\ \A i \in DOMAIN a : old[i] = a[i] /\ new[i] = a[i]
    <3>1. a \in Seq(Seq(Nat)) /\ b \in Seq(Nat) /\ c \in Seq(Nat)
      BY <1>1, <2>5
    <3>. QED
      BY <3>1, AppendIs
  <2>. HIDE DEF new, old
  <2>7. \A i \in DOMAIN new : \A k \in DOMAIN new[i] : new[i][k] \in 1..n
    <3>1. TAKE i \in DOMAIN new
    <3>2. i \in DOMAIN old /\ \A k \in DOMAIN old[i] : old[i][k] \in 1..(n - 1)
      BY <1>1, <2>6 DEF Hold
    <3>3. CASE i \in DOMAIN a
      BY <1>1, <2>6, <3>2, <3>3
    <3>4. CASE i = Len(a) + 1
      <4>0. new[i] = c /\ old[i] = b
        BY <2>6, <3>4
      <4>4. \A k \in DOMAIN b : b[k] \in 1..(n - 1)
        BY <3>2, <4>0
      <4>1. TAKE k \in DOMAIN new[i]
      <4>2. CASE k \in DOMAIN b
        BY <1>1, <2>5, <4>0, <4>2, <4>4
      <4>3. CASE k = Len(b) + 1
        BY <1>1, <2>5, <4>0, <4>3
      <4>. QED
        BY <2>5, <4>0, <4>2, <4>3
    <3>. QED
      BY <2>6, <3>3, <3>4
  <2>8. \A l \in 1..n : \E i \in DOMAIN new : \E k \in DOMAIN new[i] : new[i][k] = l
    <3>1. TAKE l \in 1..n
    <3>2. Len(a) + 1 \in DOMAIN new /\ Len(b) + 1 \in DOMAIN c
      BY <2>5, <2>6
    <3>3. CASE l = n
      BY <2>5, <2>6, <3>2, <3>3
    <3>4. CASE l # n
      <4>1. l \in 1..(n - 1)
        BY <3>4
      <4>2. PICK i \in DOMAIN old : \E k \in DOMAIN old[i] : old[i][k] = l
        BY <1>1, <4>1 DEF Hold
      <4>3. CASE i \in DOMAIN a
        BY <2>6, <4>2, <4>3
      <4>4. CASE i = Len(a) + 1
        BY <2>5, <2>6, <3>2, <4>2, <4>4
      <4>. QED
        BY <2>6, <4>2, <4>3, <4>4
    <3>. QED
      BY <3>3, <3>4
  <2>9. Append(WithLine(text, n, g).done, WithLine(text, n, g).now) = new
    BY <2>4 DEF h, new, c
  <2>10. Hold(new, 1..n)
    BY <2>7, <2>8 DEF Hold
  <2>. QED
    BY <2>9, <2>10
<1>. QED
  BY <1>2, <1>3

IsGathered(f, text) ==
  f = [n \in 0..Len(text) |->
        IF n = 0 THEN [done |-> <<>>, now |-> <<>>, size |-> 0] ELSE WithLine(text, n, f[n - 1])]

LEMMA GatheringExists == ASSUME NEW text \in Seq(Nat) PROVE \E f : IsGathered(f, text)
<1>. DEFINE n == Len(text)
            none == [done |-> <<>>, now |-> <<>>, size |-> 0]
            step == [p \in (1..n) \X Gathering |-> WithLine(text, p[1], p[2])]
<1>1. n \in Nat /\ none \in Gathering
  BY DEF Gathering
<1>2. step \in [(1..n) \X Gathering -> Gathering]
  <2>1. ASSUME NEW p \in (1..n) \X Gathering PROVE WithLine(text, p[1], p[2]) \in Gathering
    <3>1. p[1] \in 1..n /\ p[2] \in Gathering
      OBVIOUS
    <3>. QED
      BY <3>1, LineIsTyped
  <2>. QED
    BY <2>1
<1>3. \A m \in 1..n, g \in Gathering : step[<<m, g>>] = WithLine(text, m, g)
  OBVIOUS
<1>4. PICK f : Unfolds(f, n, Gathering, none, step)
  <2>. HIDE DEF n, none, step
  <2>. QED
    BY <1>1, <1>2, RecursionExists
<1>5. ASSUME NEW m \in 0..n PROVE f[m] = IF m = 0 THEN none ELSE WithLine(text, m, f[m - 1])
  <2>1. CASE m = 0
    BY <1>4, <2>1 DEF Unfolds
  <2>2. CASE m # 0
    <3>1. m \in 1..n /\ m - 1 \in 0..n
      BY <2>2
    <3>2. f[m] = step[<<m, f[m - 1]>>] /\ f[m - 1] \in Gathering
      BY <1>4, <3>1 DEF Unfolds
    <3>. HIDE DEF step
    <3>. QED
      BY <1>3, <2>2, <3>1, <3>2
  <2>. QED
    BY <2>1, <2>2
<1>6. f = [m \in 0..n |-> f[m]]
  BY <1>4 DEF Unfolds
<1>. QED
  BY <1>5, <1>6 DEF IsGathered

(* Every line of a text is in a chunk, and nothing else is.                *)
LEMMA ChunksHold ==
  ASSUME NEW text \in Seq(Nat)
  PROVE  Chunks(text) \in Seq(Seq(Nat)) /\ Hold(Chunks(text), 1..Len(text))
<1>. DEFINE n == Len(text)
            f == CHOOSE f : IsGathered(f, text)
            Good(m) == f[m] \in Gathering /\ Hold(Append(f[m].done, f[m].now), 1..m)
            P == {m \in 0..n : Good(m)}
<1>1. IsGathered(f, text) /\ n \in Nat
  BY GatheringExists
<1>2. Gathered(text) = f[n]
  BY Zenon DEF Gathered, IsGathered, WithLine
<1>. HIDE DEF f
<1>3. \A m \in 0..n : f[m] = IF m = 0 THEN [done |-> <<>>, now |-> <<>>, size |-> 0]
                             ELSE WithLine(text, m, f[m - 1])
  BY <1>1, Zenon DEF IsGathered
<1>4. Good(0)
  <2>1. 0 \in 0..n
    BY <1>1
  <2>2. f[0] = [done |-> <<>>, now |-> <<>>, size |-> 0]
    BY <1>3, <2>1, Zenon
  <2>3. f[0] \in Gathering /\ f[0].done = <<>> /\ f[0].now = <<>>
    BY <2>2 DEF Gathering
  <2>. QED
    BY <2>3 DEF Hold
<1>5. ASSUME NEW m \in 1..n, Good(m - 1) PROVE Good(m)
  <2>1. m \in 0..n /\ m # 0
    BY <1>1
  <2>2. f[m] = WithLine(text, m, f[m - 1])
    BY <1>3, <2>1, Zenon
  <2>. QED
    BY <1>5, <2>2, LineIsTyped, LineIsAdded
<1>6. Good(n)
  <2>. HIDE DEF Good
  <2>1. 0 \in P /\ \A m \in 1..n : m - 1 \in P => m \in P
    BY <1>1, <1>4, <1>5
  <2>2. n \in 0..n
    BY <1>1
  <2>. HIDE DEF P, n
  <2>3. 0..n \subseteq P
    BY <2>1, <1>1, Induction
  <2>. QED
    BY <2>2, <2>3 DEF P
<1>7. Chunks(text) = Append(f[n].done, f[n].now)
  BY <1>2 DEF Chunks
<1>. QED
  BY <1>6, <1>7 DEF Gathering

(* The chunks of a source hold as many lines as it has.                    *)
LEMMA WholeText ==
  ASSUME NEW source \in Sources
  PROVE  /\ Len(Chunks(SourceText[source])) \in Nat
         /\ Cardinality(LinesIn(source, Len(Chunks(SourceText[source])))) = Len(SourceText[source])
         /\ Len(SourceText[source]) \in Nat
<1>. DEFINE text == SourceText[source]
            chunks == Chunks(text)
            n == Len(chunks)
<1>1. text \in Seq(Nat)
  BY FileTranslationAssumption
<1>2. chunks \in Seq(Seq(Nat)) /\ Hold(chunks, 1..Len(text))
  BY <1>1, ChunksHold
<1>3. LinesIn(source, n) = UNION {{chunks[i][k] : k \in DOMAIN chunks[i]} : i \in 1..n}
  BY DEF LinesIn
<1>. HIDE DEF chunks, text
<1>4. DOMAIN chunks = 1..n /\ n \in Nat /\ Len(text) \in Nat
  BY <1>1, <1>2
<1>5. \A l : l \in LinesIn(source, n) <=> \E i \in DOMAIN chunks : \E k \in DOMAIN chunks[i] : chunks[i][k] = l
  BY <1>3, <1>4
<1>6. LinesIn(source, n) = 1..Len(text)
  BY <1>2, <1>5 DEF Hold
<1>7. Cardinality(1..Len(text)) = Len(text)
  <2>1. 1 \in Int /\ Len(text) \in Int
    BY <1>4
  <2>2. Cardinality(1..Len(text)) = IF 1 > Len(text) THEN 0 ELSE Len(text) - 1 + 1
    BY <2>1, FS_Interval
  <2>. QED
    BY <1>4, <2>2
<1>. QED
  BY <1>4, <1>6, <1>7 DEF chunks, text

-----------------------------------------------------------------------------
(***************************************************************************)
(* The files of a translation.                                             *)
(***************************************************************************)
Works      == {"file", "bootstrap", "memory-update"}
FileItem   == [job : Nat, kind : Works, source : Sources \cup {"none"},
               language : Languages \cup {"none"}, status : JobStatuses]
AskedItem    == [job : Nat, kind : Works, source : Sources \cup {"none"},
               language : Languages \cup {"none"}]
IndexEntry == [job : Nat, source : Sources, language : Languages, place : ResultPlaces,
               status : JobStatuses]
Directory  == [request : BOOLEAN, done : Nat, output : BOOLEAN,
               report : {"none", "queued", "completed", "failed"}]
Result     == [job : Nat, lines : Nat]
Stages     == {"judge", "copy", "drop", "list", "settle"}
Check      == [item : FileItem, at : Stages, items : Seq(FileItem), place : ResultPlaces, ok : BOOLEAN]

FilesTyped ==
  /\ njobs \in 2..(2 + MaxFileJobs) /\ booted \in BOOLEAN
  /\ fitems \in Seq(FileItem) /\ creates \subseteq AskedItem /\ checks \subseteq Check
  /\ requests \in Seq(Wanted \cup {<<"promote">>})
  /\ dirs \in [FileJobs -> Directory] /\ index \in Seq(IndexEntry)
  /\ finished \in [Sources \X Languages -> Result] /\ copies \in [Targets -> Result]

\* What a job is for never changes, wherever a copy of it is.
Is(wanted, x) == x.job \in DOMAIN wanted /\ wanted[x.job] = <<x.kind, x.source, x.language>>
ChunksOf(request) == Len(Chunks(SourceText[request[2]]))
Told(wanted) ==
  /\ wanted \in [3..njobs -> Wanted]
  /\ \A i \in DOMAIN fitems : Is(wanted, fitems[i])
  /\ \A new \in creates : Is(wanted, new)
  /\ \A c \in checks : Is(wanted, c.item) /\ \A i \in DOMAIN c.items : Is(wanted, c.items[i])
  /\ \A i \in DOMAIN index :
       /\ index[i].job \in 1..njobs
       /\ index[i].job >= 3 => wanted[index[i].job] = <<"file", index[i].source, index[i].language>>
  /\ \A j \in DOMAIN runs : j \in DOMAIN wanted /\ wanted[j][1] = "bootstrap"
  /\ \A j \in DOMAIN wanted : wanted[j][1] = "file" => dirs[j].done <= ChunksOf(wanted[j])
  /\ \A j \in FileJobs : j > njobs => dirs[j].done = 0

ResultsAreWhole ==
  /\ \A p \in Sources \X Languages : finished[p] # NoResult => IsWhole(finished[p], p[1])
  /\ \A t \in Targets : copies[t] # NoResult => \E s \in Sources : IsWhole(copies[t], s)

IndexIsSound ==
  /\ \A i \in DOMAIN index : Len(index[i].place) = 2 => index[i].place = FileKey(index[i])
  /\ booted => \A i \in DOMAIN index :
       /\ Completed(index[i]) /\ index[i].place = FileKey(index[i])
       /\ finished[index[i].place] # NoResult

\* A call copies a whole result or finds one, and lists the place of it.
CheckIsSound(c) ==
  /\ c.at \in {"copy", "drop", "list"} => c.item.kind = "file"
  /\ c.at = "copy" =>
       /\ dirs[c.item.job].output => dirs[c.item.job].done = Len(Chunks(SourceText[c.item.source]))
       /\ dirs[c.item.job].output \/ finished[FileKey(c.item)] # NoResult
  /\ c.at \in {"drop", "list"} =>
       c.place = FileKey(c.item) /\ finished[FileKey(c.item)] # NoResult
ChecksAreSound == (checks # {} => booted) /\ \A c \in checks : CheckIsSound(c)

FilesInv == FilesTyped /\ (\E wanted : Told(wanted)) /\ ResultsAreWhole /\ IndexIsSound /\ ChecksAreSound

(* What follows from the request of a job.                                 *)
LEMMA FileIsAsked ==
  ASSUME NEW wanted, NEW n, wanted \in [3..n -> Wanted], n \in 2..(2 + MaxFileJobs), NEW x, Is(wanted, x)
  PROVE  /\ x.job \in 3..n /\ x.job \in FileJobs /\ x.kind \in Works
         /\ wanted[x.job][1] = x.kind /\ wanted[x.job][2] = x.source /\ wanted[x.job][3] = x.language
         /\ x.kind = "file" => x.source \in Sources /\ x.language \in Languages
<1>1. x.job \in 3..n /\ wanted[x.job] = <<x.kind, x.source, x.language>>
  BY DEF Is
<1>2. wanted[x.job] \in Wanted
  BY <1>1
<1>3. x.job \in FileJobs
  BY <1>1, FileTranslationAssumption DEF FileJobs
<1>. QED
  BY <1>1, <1>2, <1>3 DEF Wanted, Works

LEMMA StatusIsSet ==
  ASSUME NEW items \in Seq(FileItem), NEW j, NEW status \in JobStatuses
  PROVE  /\ WithStatus(items, j, status) \in Seq(FileItem)
         /\ DOMAIN WithStatus(items, j, status) = DOMAIN items
         /\ \A wanted : (\A i \in DOMAIN items : Is(wanted, items[i])) =>
              \A i \in DOMAIN items : Is(wanted, WithStatus(items, j, status)[i])
<1>. DEFINE New(i) == IF items[i].job = j THEN [items[i] EXCEPT !.status = status] ELSE items[i]
            new == WithStatus(items, j, status)
<1>1. ASSUME NEW i \in DOMAIN items
      PROVE  /\ New(i) \in FileItem /\ New(i).job = items[i].job /\ New(i).kind = items[i].kind
             /\ New(i).source = items[i].source /\ New(i).language = items[i].language
  <2>1. items[i] \in FileItem
    OBVIOUS
  <2>. QED
    BY <2>1 DEF FileItem
<1>2. new = [i \in DOMAIN items |-> New(i)]
  BY DEF WithStatus
<1>. HIDE DEF New, new
<1>3. DOMAIN items = 1..Len(items) /\ Len(items) \in Nat
  OBVIOUS
<1>4. DOMAIN new = DOMAIN items /\ \A i \in DOMAIN items : new[i] = New(i)
  BY <1>2
<1>5. new \in Seq(FileItem)
  BY <1>1, <1>2, <1>3
<1>. QED
  BY <1>1, <1>4, <1>5 DEF Is, new

LEMMA KeptAre ==
  ASSUME NEW T, NEW s \in Seq(T), NEW at
  PROVE  /\ Kept(s, at) \in Seq(T)
         /\ \A k \in DOMAIN Kept(s, at) : \E i \in DOMAIN s : i \in at /\ Kept(s, at)[k] = s[i]
         /\ \A i \in DOMAIN s : i \in at => \E k \in DOMAIN Kept(s, at) : Kept(s, at)[k] = s[i]
  BY KeptHolds DEF Holding

LEMMA ItemsKept ==
  ASSUME NEW items \in Seq(FileItem), NEW at, NEW wanted, \A i \in DOMAIN items : Is(wanted, items[i])
  PROVE  /\ Kept(items, at) \in Seq(FileItem)
         /\ \A k \in DOMAIN Kept(items, at) : Is(wanted, Kept(items, at)[k])
  BY KeptAre

LEMMA FirstOfKey ==
  ASSUME NEW entered \in Seq(IndexEntry), NEW A, A \subseteq DOMAIN entered, NEW i \in A
  PROVE  \E n \in A : /\ FileKey(entered[n]) = FileKey(entered[i])
                      /\ \A m \in A : m < n => FileKey(entered[m]) # FileKey(entered[n])
<1>. DEFINE U == {n \in A : FileKey(entered[n]) = FileKey(entered[i])}
<1>1. U \subseteq Nat /\ U # {} /\ DOMAIN entered \subseteq Nat
  OBVIOUS
<1>2. PICK n \in U : \A m \in U : n <= m
  <2>. HIDE DEF U
  <2>. QED
    BY <1>1, LeastExists
<1>. QED
  BY <1>1, <1>2

(* Saving an index of finished translations keeps one of each file and     *)
(* language, and removes no result.                                        *)
LEMMA SavedIndex ==
  ASSUME NEW entered \in Seq(IndexEntry), NEW outcomes \in [Sources \X Languages -> Result],
         NEW directories \in [FileJobs -> Directory],
         \A i \in DOMAIN entered : Completed(entered[i]) /\ entered[i].place = FileKey(entered[i]),
         SavesIndex(entered, outcomes, directories)
  PROVE  /\ finished' = outcomes /\ index' \in Seq(IndexEntry)
         /\ \A k \in DOMAIN index' : \E i \in DOMAIN entered : index'[k] = entered[i]
         /\ \A i \in DOMAIN entered : \E k \in DOMAIN index' : FileKey(index'[k]) = FileKey(entered[i])
         /\ dirs' \in [FileJobs -> Directory]
         /\ \A j \in FileJobs : \/ dirs'[j] = directories[j]
                                \/ dirs'[j] = NoDir /\ \E i \in DOMAIN entered : entered[i].job = j
<1>. DEFINE kept == Retained(entered)
            gone == {entered[i].job : i \in DOMAIN entered \ kept}
<1>1. /\ index' = Kept(entered, kept)
      /\ finished' = [p \in DOMAIN outcomes |->
                       IF p \in Superseded(entered, kept) THEN NoResult ELSE outcomes[p]]
      /\ dirs' = [j \in FileJobs |-> IF j \in gone THEN NoDir ELSE directories[j]]
  BY DEF SavesIndex
<1>2. \A i \in DOMAIN entered : i \in kept <=>
        \A n \in 1..i - 1 : n \in DOMAIN entered => FileKey(entered[n]) # FileKey(entered[i])
  <2>1. DOMAIN entered = 1..Len(entered) /\ Len(entered) \in Nat
    OBVIOUS
  <2>2. \A i \in DOMAIN entered : \A n \in 1..i - 1 : n \in DOMAIN entered
    BY <2>1
  <2>. QED
    BY <2>2 DEF Retained
<1>. HIDE DEF kept
<1>3. ASSUME NEW i \in DOMAIN entered
      PROVE  \E n \in kept : n \in DOMAIN entered /\ FileKey(entered[n]) = FileKey(entered[i])
  <2>1. PICK n \in DOMAIN entered :
          /\ FileKey(entered[n]) = FileKey(entered[i])
          /\ \A m \in DOMAIN entered : m < n => FileKey(entered[m]) # FileKey(entered[n])
    BY FirstOfKey
  <2>2. \A m \in 1..n - 1 : m < n
    OBVIOUS
  <2>3. n \in kept
    BY <1>2, <2>1, <2>2
  <2>. QED
    BY <2>1, <2>3
<1>4. Superseded(entered, kept) = {}
  <2>1. kept \subseteq DOMAIN entered
    BY DEF kept, Retained
  <2>2. ASSUME NEW i \in DOMAIN entered \ kept
        PROVE  entered[i].place \in {entered[n].place : n \in kept}
    BY <1>3, <2>1
  <2>. QED
    BY <2>2 DEF Superseded
<1>5. finished' = outcomes
  BY <1>1, <1>4
<1>6. /\ index' \in Seq(IndexEntry)
      /\ \A k \in DOMAIN index' : \E i \in DOMAIN entered : index'[k] = entered[i]
      /\ \A i \in kept : i \in DOMAIN entered => \E k \in DOMAIN index' : index'[k] = entered[i]
  BY <1>1, KeptAre
<1>7. \A i \in DOMAIN entered : \E k \in DOMAIN index' : FileKey(index'[k]) = FileKey(entered[i])
  BY <1>3, <1>6
<1>8. NoDir \in Directory
  BY DEF NoDir, Directory
<1>9. dirs' \in [FileJobs -> Directory]
  BY <1>1, <1>8
<1>10. ASSUME NEW j \in FileJobs
       PROVE  \/ dirs'[j] = directories[j]
              \/ dirs'[j] = NoDir /\ \E i \in DOMAIN entered : entered[i].job = j
  <2>1. dirs'[j] = IF j \in gone THEN NoDir ELSE directories[j]
    BY <1>1, Zenon
  <2>2. CASE j \in gone
    <3>1. \E i \in DOMAIN entered : entered[i].job = j
      BY <2>2
    <3>2. dirs'[j] = NoDir
      BY <2>1, <2>2, Zenon
    <3>. QED
      BY <3>1, <3>2
  <2>3. CASE j \notin gone
    BY <2>1, <2>3, Zenon
  <2>. QED
    BY <2>2, <2>3
<1>. QED
  BY <1>5, <1>6, <1>7, <1>9, <1>10

LEMMA SurvivingIndex ==
  ASSUME FilesTyped, IndexIsSound
  PROVE  /\ Surviving(index) \in Seq(IndexEntry)
         /\ \A k \in DOMAIN Surviving(index) : \E i \in DOMAIN index :
              /\ Surviving(index)[k] = index[i] /\ Completed(index[i])
              /\ index[i].place = FileKey(index[i]) /\ finished[index[i].place] # NoResult
         /\ booted => \A i \in DOMAIN index : \E k \in DOMAIN Surviving(index) :
              FileKey(Surviving(index)[k]) = FileKey(index[i])
<1>. DEFINE Survives(i) == /\ Completed(index[i]) /\ IsCompletedPath(index[i].place)
                      /\ finished[index[i].place] # NoResult
            A == {i \in DOMAIN index : Survives(i)}
            at == {i \in DOMAIN index :
                     Survives(i) /\ \A n \in 1..i - 1 : Survives(n) => FileKey(index[n]) # FileKey(index[i])}
<1>1. Surviving(index) = Kept(index, at)
  BY DEF Surviving
<1>2. index \in Seq(IndexEntry)
  BY DEF FilesTyped
<1>3. /\ Kept(index, at) \in Seq(IndexEntry)
      /\ \A k \in DOMAIN Kept(index, at) : \E i \in DOMAIN index : i \in at /\ Kept(index, at)[k] = index[i]
      /\ \A i \in DOMAIN index : i \in at => \E k \in DOMAIN Kept(index, at) : Kept(index, at)[k] = index[i]
  <2>. HIDE DEF at
  <2>1. Kept(index, at) \in Seq(IndexEntry)
    BY <1>2, KeptAre
  <2>2. \A k \in DOMAIN Kept(index, at) : \E i \in DOMAIN index : i \in at /\ Kept(index, at)[k] = index[i]
    BY <1>2, KeptAre
  <2>3. \A i \in DOMAIN index : i \in at => \E k \in DOMAIN Kept(index, at) : Kept(index, at)[k] = index[i]
    BY <1>2, KeptAre
  <2>. QED
    BY <2>1, <2>2, <2>3
<1>4. \A i \in at : /\ i \in DOMAIN index /\ Completed(index[i]) /\ index[i].place = FileKey(index[i])
                    /\ finished[index[i].place] # NoResult
  BY DEF IndexIsSound, IsCompletedPath
<1>5. ASSUME booted, NEW i \in DOMAIN index
      PROVE  \E k \in DOMAIN Kept(index, at) : FileKey(Kept(index, at)[k]) = FileKey(index[i])
  <2>1. ASSUME NEW n \in DOMAIN index PROVE Survives(n)
    <3>1. /\ Completed(index[n]) /\ index[n].place = <<index[n].source, index[n].language>>
          /\ finished[index[n].place] # NoResult
      BY <1>5 DEF IndexIsSound, FileKey
    <3>. QED
      BY <3>1 DEF IsCompletedPath
  <2>2. PICK n \in DOMAIN index :
          /\ FileKey(index[n]) = FileKey(index[i])
          /\ \A m \in DOMAIN index : m < n => FileKey(index[m]) # FileKey(index[n])
    BY <1>2, FirstOfKey
  <2>3. \A m \in 1..n - 1 : m \in DOMAIN index /\ m < n
    BY <1>2
  <2>4. n \in at
    BY <2>1, <2>2, <2>3
  <2>. HIDE DEF at
  <2>. QED
    BY <1>3, <2>2, <2>4
<1>. HIDE DEF at
<1>. QED
  BY <1>1, <1>3, <1>4, <1>5

(* What a call found stays true while directories only lose what was       *)
(* copied, and results only come.                                          *)
LEMMA CheckStays ==
  ASSUME NEW c \in Check, CheckIsSound(c),
         \A p \in Sources \X Languages : finished[p] # NoResult => finished'[p] # NoResult,
         c.item.kind = "file" =>
           /\ FileKey(c.item) \in Sources \X Languages
           /\ \/ /\ dirs'[c.item.job].done = dirs[c.item.job].done
                 /\ dirs'[c.item.job].output = dirs[c.item.job].output
              \/ /\ dirs'[c.item.job].output = FALSE
                 /\ finished'[FileKey(c.item)] # NoResult
  PROVE  CheckIsSound(c)'
  BY DEF CheckIsSound, Check, FileKey

(* A start empties what runs and keeps the jobs told and the results.      *)
LEMMA StartKeeps ==
  ASSUME FilesInv, NEW crashed \in BOOLEAN, StartsUp(crashed)
  PROVE  FilesInv'
<1>1. PICK wanted : Told(wanted)
  BY DEF FilesInv
<1>2. /\ Surviving(index) \in Seq(IndexEntry)
      /\ \A k \in DOMAIN Surviving(index) : \E i \in DOMAIN index :
           /\ Surviving(index)[k] = index[i] /\ Completed(index[i])
           /\ index[i].place = FileKey(index[i]) /\ finished[index[i].place] # NoResult
  BY SurvivingIndex DEF FilesInv
<1>3. /\ fitems' = <<>> /\ creates' = {} /\ checks' = {} /\ booted' = TRUE
      /\ finished' = finished /\ copies' = copies /\ requests' = requests /\ njobs' = njobs
      /\ dirs' = [j \in FileJobs |-> NoDir] /\ index' = Surviving(index)
      /\ DOMAIN runs' \subseteq DOMAIN runs
  BY DEF StartsUp
<1>4. NoDir \in Directory /\ NoDir.done = 0
  BY DEF NoDir, Directory
<1>5. FilesTyped'
  BY <1>2, <1>3, <1>4 DEF FilesInv, FilesTyped
<1>6. Told(wanted)'
  <2>1. \A j \in DOMAIN wanted : dirs'[j].done = 0 /\ (wanted[j][1] = "file" => 0 <= ChunksOf(wanted[j]))
    <3>1. TAKE j \in DOMAIN wanted
    <3>2. wanted[j] \in Wanted /\ j \in FileJobs
      BY <1>1, FileTranslationAssumption DEF Told, FilesInv, FilesTyped, FileJobs
    <3>3. wanted[j][1] = "file" => wanted[j][2] \in Sources
      BY <3>2 DEF Wanted
    <3>. QED
      BY <1>3, <1>4, <3>2, <3>3, WholeText DEF ChunksOf
  <2>2. \A i \in DOMAIN index' :
          /\ index'[i].job \in 1..njobs
          /\ index'[i].job >= 3 => wanted[index'[i].job] = <<"file", index'[i].source, index'[i].language>>
    BY <1>1, <1>2, <1>3 DEF Told
  <2>3. \A j \in FileJobs : dirs'[j].done = 0
    BY <1>3, <1>4
  <2>. QED
    BY <1>1, <1>3, <2>1, <2>2, <2>3 DEF Told
<1>7. ResultsAreWhole'
  BY <1>3 DEF FilesInv, ResultsAreWhole
<1>8. IndexIsSound'
  BY <1>2, <1>3 DEF IndexIsSound
<1>9. ChecksAreSound'
  BY <1>3 DEF ChecksAreSound
<1>. QED
  BY <1>5, <1>6, <1>7, <1>8, <1>9 DEF FilesInv

LEMMA CreateKeeps ==
  ASSUME FilesInv, requests # <<>>, Head(requests) # <<"promote">>,
         CreatesJob(NewJob(Head(requests)))
  PROVE  FilesInv'
<1>1. PICK wanted : Told(wanted)
  BY DEF FilesInv
<1>. DEFINE want == Head(requests)
            new == NewJob(want)
            j == njobs + 1
            item == [job |-> new.job, kind |-> new.kind, source |-> new.source,
                     language |-> new.language, status |-> "queued"]
<1>2. /\ njobs < 2 + MaxFileJobs /\ njobs' = j /\ requests' = Tail(requests)
      /\ fitems' = Append(fitems, item) /\ creates' = creates \cup {new}
      /\ UNCHANGED <<dirs, finished, index, runs, copies, checks, booted>>
  BY DEF CreatesJob
<1>3. njobs \in 2..(2 + MaxFileJobs) /\ MaxFileJobs \in Nat /\ j \in 3..(2 + MaxFileJobs)
  BY <1>2, FileTranslationAssumption DEF FilesInv, FilesTyped
<1>4. want \in Wanted /\ Tail(requests) \in Seq(Wanted \cup {<<"promote">>})
  <2>1. requests \in Seq(Wanted \cup {<<"promote">>})
    BY DEF FilesInv, FilesTyped
  <2>. QED
    BY <2>1
<1>5. /\ new.job = j /\ new.kind = want[1] /\ new.source = want[2] /\ new.language = want[3]
      /\ want[1] \in Works /\ want[2] \in Sources \cup {"none"} /\ want[3] \in Languages \cup {"none"}
      /\ <<want[1], want[2], want[3]>> = want
  BY <1>4 DEF NewJob, Wanted, Works
<1>6. new \in AskedItem
  BY <1>3, <1>5 DEF AskedItem, NewJob
<1>7. item \in FileItem /\ item.job = j /\ item.kind = want[1] /\ item.source = want[2] /\ item.language = want[3]
  BY <1>3, <1>5 DEF FileItem, JobStatuses
<1>. HIDE DEF want, new, item
<1>8. FilesTyped'
  BY <1>2, <1>3, <1>4, <1>6, <1>7 DEF FilesInv, FilesTyped
<1>9. PICK now \in [3..j -> Wanted] :
        /\ wanted \in [3..njobs -> Wanted] /\ now[j] = want
        /\ \A i \in 3..njobs : i \in 3..j /\ now[i] = wanted[i]
  <2>. DEFINE more == [i \in 3..j |-> IF i = j THEN want ELSE wanted[i]]
  <2>1. wanted \in [3..njobs -> Wanted]
    BY <1>1 DEF Told
  <2>2. more \in [3..j -> Wanted] /\ more[j] = want /\ \A i \in 3..njobs : i \in 3..j /\ more[i] = wanted[i]
    BY <1>3, <1>4, <2>1
  <2>. HIDE DEF more
  <2>. QED
    BY <2>1, <2>2
<1>10. \A x : Is(wanted, x) => Is(now, x)
  BY <1>3, <1>9 DEF Is
<1>11. Is(now, new) /\ Is(now, item)
  BY <1>3, <1>5, <1>7, <1>9 DEF Is
<1>12. Told(now)'
  <2>1. \A i \in DOMAIN fitems' : Is(now, fitems'[i])
    <3>1. fitems \in Seq(FileItem)
      BY DEF FilesInv, FilesTyped
    <3>2. \A i \in DOMAIN fitems : Is(now, fitems[i])
      BY <1>1, <1>10 DEF Told
    <3>. QED
      BY <1>2, <1>7, <1>11, <3>1, <3>2, AppendIs
  <2>2. \A n \in creates' : Is(now, n)
    BY <1>1, <1>2, <1>10, <1>11 DEF Told
  <2>3. \A c \in checks' : Is(now, c.item) /\ \A i \in DOMAIN c.items : Is(now, c.items[i])
    BY <1>1, <1>2, <1>10 DEF Told
  <2>4. \A i \in DOMAIN index' :
          /\ index'[i].job \in 1..njobs'
          /\ index'[i].job >= 3 => now[index'[i].job] = <<"file", index'[i].source, index'[i].language>>
    BY <1>1, <1>2, <1>3, <1>9 DEF Told
  <2>5. \A i \in DOMAIN runs' : i \in DOMAIN now /\ now[i][1] = "bootstrap"
    BY <1>1, <1>2, <1>9 DEF Told
  <2>6. \A i \in DOMAIN now : now[i][1] = "file" => dirs'[i].done <= ChunksOf(now[i])
    <3>1. TAKE i \in DOMAIN now
    <3>2. CASE i = j
      <4>1. j \in FileJobs /\ j > njobs
        BY <1>3 DEF FileJobs
      <4>2. dirs[j].done = 0
        BY <1>1, <4>1 DEF Told
      <4>3. want[1] = "file" => want[2] \in Sources
        BY <1>4 DEF Wanted
      <4>4. want[1] = "file" => ChunksOf(want) \in Nat
        BY <4>3, WholeText DEF ChunksOf
      <4>. QED
        BY <1>2, <1>9, <3>2, <4>2, <4>4
    <3>3. CASE i # j
      BY <1>1, <1>2, <1>3, <1>9, <3>3 DEF Told
    <3>. QED
      BY <3>2, <3>3
  <2>7. \A i \in FileJobs : i > njobs' => dirs'[i].done = 0
    <3>1. \A i \in FileJobs : i > njobs' => i > njobs
      BY <1>2, <1>3 DEF FileJobs
    <3>. QED
      BY <1>1, <1>2, <3>1 DEF Told
  <2>8. now \in [3..njobs' -> Wanted]
    BY <1>2, <1>9
  <2>. HIDE DEF j
  <2>. QED
    BY <2>1, <2>2, <2>3, <2>4, <2>5, <2>6, <2>7, <2>8 DEF Told
<1>13. ResultsAreWhole' /\ IndexIsSound' /\ ChecksAreSound'
  BY <1>2 DEF FilesInv, ResultsAreWhole, IndexIsSound, ChecksAreSound, CheckIsSound, FileKey, Completed
<1>. QED
  BY <1>8, <1>12, <1>13 DEF FilesInv

LEMMA RequestKeeps ==
  ASSUME FilesInv, NEW new \in creates, WritesRequest(new)
  PROVE  FilesInv'
<1>1. PICK wanted : Told(wanted)
  BY DEF FilesInv
<1>2. /\ creates' = creates \ {new}
      /\ UNCHANGED <<fitems, finished, index, copies, checks, requests, booted, njobs>>
  BY DEF WritesRequest
<1>3. Is(wanted, new) /\ wanted \in [3..njobs -> Wanted] /\ njobs \in 2..(2 + MaxFileJobs)
      /\ dirs \in [FileJobs -> Directory]
  BY <1>1 DEF Told, FilesInv, FilesTyped
<1>4. new.job \in 3..njobs /\ new.job \in FileJobs /\ wanted[new.job][1] = new.kind
  BY <1>3, FileIsAsked
<1>5. /\ dirs' \in [FileJobs -> Directory]
      /\ \A j \in FileJobs : dirs'[j].done = dirs[j].done /\ dirs'[j].output = dirs[j].output
  <2>. DEFINE j == new.job
              d == dirs[j]
  <2>1. d \in Directory /\ j \in FileJobs
    BY <1>3, <1>4
  <2>2. PICK e \in Directory : e.done = d.done /\ e.output = d.output /\ dirs' = [dirs EXCEPT ![j] = e]
    <3>1. CASE FileRequest(new) \/ BootstrapRequest(new)
      <4>. DEFINE e == [d EXCEPT !.request = TRUE, !.report = "queued"]
      <4>1. e \in Directory /\ e.done = d.done /\ e.output = d.output
        BY <2>1 DEF Directory
      <4>3. dirs' = [dirs EXCEPT ![j] = [d EXCEPT !.request = TRUE, !.report = "queued"]]
        <5>1. CASE FileRequest(new)
          BY <5>1, Zenon DEF FileRequest
        <5>2. CASE BootstrapRequest(new)
          BY <5>2, Zenon DEF BootstrapRequest
        <5>. QED
          BY <3>1, <5>1, <5>2, Zenon
      <4>. QED
        BY <4>1, <4>3
    <3>2. CASE MemoryRequest(new)
      <4>. DEFINE e == [d EXCEPT !.request = TRUE]
      <4>1. e \in Directory /\ e.done = d.done /\ e.output = d.output
        BY <2>1 DEF Directory
      <4>2. dirs' = [dirs EXCEPT ![j] = e]
        BY <1>3, <2>1, <3>2 DEF MemoryRequest
      <4>. QED
        BY <4>1, <4>2
    <3>. QED
      BY <3>1, <3>2 DEF WritesRequest
  <2>. HIDE DEF j, d
  <2>3. \A i \in FileJobs : dirs'[i] = IF i = j THEN e ELSE dirs[i]
    BY <1>3, <2>2
  <2>4. dirs' \in [FileJobs -> Directory]
    BY <1>3, <2>2
  <2>. QED
    BY <2>2, <2>3, <2>4 DEF d
<1>6. \A j \in DOMAIN runs' : j \in DOMAIN wanted /\ wanted[j][1] = "bootstrap"
  <2>1. \A j \in DOMAIN runs : j \in DOMAIN wanted /\ wanted[j][1] = "bootstrap"
    BY <1>1 DEF Told
  <2>2. CASE BootstrapRequest(new)
    <3>1. DOMAIN runs' = DOMAIN runs \cup {new.job} /\ new.kind = "bootstrap"
      BY <2>2 DEF BootstrapRequest
    <3>. QED
      BY <1>3, <1>4, <2>1, <3>1
  <2>3. CASE FileRequest(new) \/ MemoryRequest(new)
    <3>1. runs' = runs
      BY <2>3 DEF FileRequest, MemoryRequest
    <3>. QED
      BY <2>1, <3>1
  <2>. QED
    BY <2>2, <2>3 DEF WritesRequest
<1>7. FilesTyped'
  BY <1>2, <1>5 DEF FilesInv, FilesTyped
<1>8. Told(wanted)'
  <2>1. \A j \in DOMAIN wanted : j \in FileJobs
    BY <1>3, FileTranslationAssumption DEF FileJobs
  <2>. QED
    BY <1>1, <1>2, <1>5, <1>6, <2>1 DEF Told
<1>9. ResultsAreWhole' /\ IndexIsSound'
  BY <1>2 DEF FilesInv, ResultsAreWhole, IndexIsSound
<1>10. ChecksAreSound'
  <2>1. ASSUME NEW c \in checks PROVE CheckIsSound(c)'
    <3>1. c.item.job \in FileJobs
      BY <1>1, <1>3, FileIsAsked DEF Told
    <3>. QED
      BY <1>2, <1>5, <3>1 DEF FilesInv, ChecksAreSound, CheckIsSound
  <2>. QED
    BY <1>2, <2>1 DEF FilesInv, ChecksAreSound
<1>. QED
  BY <1>7, <1>8, <1>9, <1>10 DEF FilesInv

(* What touches neither results, directories, the index nor the jobs asked *)
(* for, and sets items and calls to what was told.                         *)
LEMMA QueueKeeps ==
  ASSUME FilesInv, NEW wanted, Told(wanted),
         UNCHANGED <<dirs, finished, index, copies, creates, requests, booted, njobs>>,
         fitems' \in Seq(FileItem), \A i \in DOMAIN fitems' : Is(wanted, fitems'[i]),
         DOMAIN runs' = DOMAIN runs, checks' \subseteq Check,
         \A c \in checks' : \/ c \in checks
                            \/ /\ Is(wanted, c.item) /\ \A i \in DOMAIN c.items : Is(wanted, c.items[i])
                               /\ CheckIsSound(c),
         checks' # {} => booted
  PROVE  FilesInv'
<1>1. FilesTyped'
  BY DEF FilesInv, FilesTyped
<1>2. Told(wanted)'
  BY DEF Told
<1>3. ResultsAreWhole' /\ IndexIsSound'
  BY DEF FilesInv, ResultsAreWhole, IndexIsSound
<1>4. ChecksAreSound'
  <2>1. \A c \in checks' : CheckIsSound(c)
    BY DEF FilesInv, ChecksAreSound
  <2>2. \A c \in checks' : CheckIsSound(c)'
    BY <2>1 DEF CheckIsSound
  <2>. QED
    BY <2>2 DEF ChecksAreSound
<1>. QED
  BY <1>1, <1>2, <1>3, <1>4 DEF FilesInv

LEMMA TakeKeeps ==
  ASSUME FilesInv, NEW launched \in BOOLEAN, TakesNext(launched)
  PROVE  FilesInv'
<1>1. PICK wanted : Told(wanted)
  BY DEF FilesInv
<1>2. PICK i \in FirstQueued(fitems) :
        /\ fitems' = WithStatus(fitems, fitems[i].job, IF launched THEN "running" ELSE "failed")
        /\ runs' = IF fitems[i].job \in DOMAIN runs
                   THEN [runs EXCEPT ![fitems[i].job] = IF launched THEN "running" ELSE "failed"]
                   ELSE runs
  BY DEF TakesNext
<1>3. (IF launched THEN "running" ELSE "failed") \in JobStatuses
  BY DEF JobStatuses
<1>4. fitems \in Seq(FileItem) /\ \A k \in DOMAIN fitems : Is(wanted, fitems[k])
  BY <1>1 DEF FilesInv, FilesTyped, Told
<1>5. fitems' \in Seq(FileItem) /\ \A k \in DOMAIN fitems' : Is(wanted, fitems'[k])
  BY <1>2, <1>3, <1>4, StatusIsSet
<1>6. DOMAIN runs' = DOMAIN runs
  BY <1>2
<1>7. UNCHANGED <<dirs, finished, index, copies, creates, checks, requests, booted, njobs>>
  BY DEF TakesNext
<1>8. checks \subseteq Check /\ (checks # {} => booted)
  BY DEF FilesInv, FilesTyped, ChecksAreSound
<1>. QED
  BY <1>1, <1>5, <1>6, <1>7, <1>8, QueueKeeps

LEMMA JudgeIsSound ==
  ASSUME NEW wanted, NEW items \in Seq(FileItem), \A i \in DOMAIN items : Is(wanted, items[i]),
         wanted \in [3..njobs -> Wanted], njobs \in 2..(2 + MaxFileJobs),
         checks \subseteq Check, Judges(items)
  PROVE  /\ fitems' \in Seq(FileItem) /\ \A i \in DOMAIN fitems' : Is(wanted, fitems'[i])
         /\ checks' \subseteq Check
         /\ \A c \in checks' : \/ c \in checks
                               \/ /\ Is(wanted, c.item) /\ \A i \in DOMAIN c.items : Is(wanted, c.items[i])
                                  /\ c.at = "judge"
<1>1. PICK i \in DOMAIN items :
        /\ items[i].job = factive /\ fitems' = WithStatus(items, factive, "validating")
        /\ checks' = checks \cup {[item |-> items[i], at |-> "judge", items |-> fitems',
                                   place |-> RuntimePath(factive), ok |-> FALSE]}
  BY DEF Judges
<1>2. fitems' \in Seq(FileItem) /\ \A k \in DOMAIN fitems' : Is(wanted, fitems'[k])
  <2>1. "validating" \in JobStatuses
    BY DEF JobStatuses
  <2>. QED
    BY <1>1, <2>1, StatusIsSet
<1>. DEFINE c == [item |-> items[i], at |-> "judge", items |-> fitems', place |-> RuntimePath(factive),
                  ok |-> FALSE]
<1>3. RuntimePath(factive) \in ResultPlaces
  <2>1. factive \in FileJobs
    BY <1>1, FileIsAsked
  <2>. QED
    BY <2>1 DEF RuntimePath, ResultPlaces
<1>4. c \in Check /\ c.item = items[i] /\ c.items = fitems' /\ c.at = "judge"
  BY <1>1, <1>2, <1>3 DEF Check, Stages
<1>. HIDE DEF c
<1>5. checks' = checks \cup {c}
  BY <1>1 DEF c
<1>. QED
  BY <1>1, <1>2, <1>4, <1>5

LEMMA StopKeeps == ASSUME FilesInv, TranslatorStops PROVE FilesInv'
<1>1. PICK wanted : Told(wanted)
  BY DEF FilesInv
<1>2. /\ booted /\ Judges(fitems)
      /\ UNCHANGED <<dirs, finished, index, runs, copies, creates, requests, booted, njobs>>
  BY DEF TranslatorStops
<1>3. /\ fitems \in Seq(FileItem) /\ \A i \in DOMAIN fitems : Is(wanted, fitems[i])
      /\ wanted \in [3..njobs -> Wanted] /\ njobs \in 2..(2 + MaxFileJobs) /\ checks \subseteq Check
  BY <1>1 DEF FilesInv, FilesTyped, Told
<1>4. /\ fitems' \in Seq(FileItem) /\ \A i \in DOMAIN fitems' : Is(wanted, fitems'[i])
      /\ checks' \subseteq Check
      /\ \A c \in checks' : \/ c \in checks
                            \/ /\ Is(wanted, c.item) /\ \A i \in DOMAIN c.items : Is(wanted, c.items[i])
                               /\ c.at = "judge"
  BY <1>2, <1>3, JudgeIsSound
<1>5. \A c : c.at = "judge" => CheckIsSound(c)
  BY DEF CheckIsSound
<1>. QED
  BY <1>1, <1>2, <1>4, <1>5, QueueKeeps

LEMMA OutputKeeps ==
  ASSUME FilesInv, NEW i \in DOMAIN fitems, WritesOutput(fitems[i])
  PROVE  FilesInv'
<1>1. PICK wanted : Told(wanted)
  BY DEF FilesInv
<1>. DEFINE item == fitems[i]
            j == item.job
            d == dirs[j]
<1>2. /\ checks = {}
      /\ UNCHANGED <<fitems, finished, index, runs, copies, creates, checks, requests, booted, njobs>>
  BY DEF WritesOutput
<1>3. /\ item \in FileItem /\ Is(wanted, item) /\ wanted \in [3..njobs -> Wanted]
      /\ njobs \in 2..(2 + MaxFileJobs) /\ dirs \in [FileJobs -> Directory]
  BY <1>1 DEF FilesInv, FilesTyped, Told
<1>4. /\ j \in 3..njobs /\ j \in FileJobs /\ wanted[j][1] = item.kind /\ wanted[j][2] = item.source
      /\ (item.kind = "file" => item.source \in Sources) /\ d \in Directory
  BY <1>3, FileIsAsked
<1>5. PICK e \in Directory : /\ dirs' = [dirs EXCEPT ![j] = e]
                             /\ item.kind = "file" /\ d.done <= ChunksOf(wanted[j]) => e.done <= ChunksOf(wanted[j])
  <2>1. CASE item.kind = "file" /\ d.done < Len(Chunks(SourceText[item.source]))
             /\ dirs' = [dirs EXCEPT ![j].done = @ + 1]
    <3>. DEFINE e == [d EXCEPT !.done = @ + 1]
    <3>1. e \in Directory /\ e.done = d.done + 1 /\ d.done \in Nat
      BY <1>4 DEF Directory
    <3>2. dirs' = [dirs EXCEPT ![j] = e]
      BY <1>3, <1>4, <2>1
    <3>3. ChunksOf(wanted[j]) = Len(Chunks(SourceText[item.source])) /\ ChunksOf(wanted[j]) \in Nat
      BY <1>4, <2>1, WholeText DEF ChunksOf
    <3>4. e.done <= ChunksOf(wanted[j])
      BY <2>1, <3>1, <3>3
    <3>. HIDE DEF e
    <3>. QED
      BY <3>1, <3>2, <3>4
  <2>2. CASE dirs' = [dirs EXCEPT ![j].output = TRUE]
    <3>. DEFINE e == [d EXCEPT !.output = TRUE]
    <3>1. e \in Directory /\ e.done = d.done
      BY <1>4 DEF Directory
    <3>2. dirs' = [dirs EXCEPT ![j] = e]
      BY <1>3, <1>4, <2>2
    <3>. HIDE DEF e
    <3>. QED
      BY <3>1, <3>2
  <2>3. ASSUME NEW says \in {"completed", "failed"}, dirs' = [dirs EXCEPT ![j].report = says]
        PROVE  \E e \in Directory :
                 /\ dirs' = [dirs EXCEPT ![j] = e]
                 /\ item.kind = "file" /\ d.done <= ChunksOf(wanted[j]) => e.done <= ChunksOf(wanted[j])
    <3>. DEFINE e == [d EXCEPT !.report = says]
    <3>1. e \in Directory /\ e.done = d.done
      BY <1>4 DEF Directory
    <3>2. dirs' = [dirs EXCEPT ![j] = e]
      BY <1>3, <1>4, <2>3
    <3>. HIDE DEF e
    <3>. QED
      BY <3>1, <3>2
  <2>. QED
    BY <2>1, <2>2, <2>3 DEF WritesOutput
<1>. HIDE DEF item, d
<1>6. dirs' \in [FileJobs -> Directory] /\ \A k \in FileJobs : dirs'[k] = IF k = j THEN e ELSE dirs[k]
  BY <1>3, <1>5
<1>7. FilesTyped'
  BY <1>2, <1>6 DEF FilesInv, FilesTyped
<1>8. Told(wanted)'
  <2>1. \A k \in DOMAIN wanted : wanted[k][1] = "file" => dirs'[k].done <= ChunksOf(wanted[k])
    <3>1. ASSUME NEW k \in DOMAIN wanted, wanted[k][1] = "file" PROVE dirs'[k].done <= ChunksOf(wanted[k])
      <4>1. k \in FileJobs /\ dirs[k].done <= ChunksOf(wanted[k])
        BY <1>1, <1>3, <3>1, FileTranslationAssumption DEF Told, FileJobs
      <4>2. CASE k = j
        BY <1>4, <1>5, <1>6, <3>1, <4>1, <4>2 DEF d
      <4>3. CASE k # j
        BY <1>6, <4>1, <4>3
      <4>. QED
        BY <4>2, <4>3
    <3>. QED
      BY <3>1
  <2>2. \A k \in FileJobs : k > njobs => dirs'[k].done = 0
    <3>1. \A k \in FileJobs : k > njobs => k # j
      BY <1>3, <1>4 DEF FileJobs
    <3>. QED
      BY <1>1, <1>6, <3>1 DEF Told
  <2>. QED
    BY <1>1, <1>2, <2>1, <2>2 DEF Told
<1>9. ResultsAreWhole' /\ IndexIsSound' /\ ChecksAreSound'
  BY <1>2 DEF FilesInv, ResultsAreWhole, IndexIsSound, ChecksAreSound
<1>. QED
  BY <1>7, <1>8, <1>9 DEF FilesInv

LEMMA MemoryKeeps ==
  ASSUME FilesInv, NEW i \in DOMAIN fitems, UpdatesMemory(fitems[i])
  PROVE  FilesInv'
<1>1. PICK wanted : Told(wanted)
  BY DEF FilesInv
<1>2. UNCHANGED <<fitems, dirs, finished, index, runs, copies, creates, checks, requests, booted, njobs>>
  BY DEF UpdatesMemory
<1>3. /\ fitems \in Seq(FileItem) /\ checks \subseteq Check /\ (checks # {} => booted)
      /\ \A k \in DOMAIN fitems : Is(wanted, fitems[k])
  BY <1>1 DEF FilesInv, FilesTyped, ChecksAreSound, Told
<1>. QED
  BY <1>1, <1>2, <1>3, QueueKeeps

(* A verdict that copies found the whole output (validateOutputs).         *)
LEMMA VerdictKeeps ==
  ASSUME FilesInv, NEW c \in checks, Verdict(c)
  PROVE  FilesInv'
<1>1. PICK wanted : Told(wanted)
  BY DEF FilesInv
<1>. DEFINE ok == ValidOutputs(c.item)
            copied == ok /\ c.item.kind = "file" /\ dirs[c.item.job].request
            at == IF copied THEN "copy" ELSE "settle"
            to == [c EXCEPT !.at = at, !.ok = ok]
            status == IF ok THEN "completed" ELSE "failed"
<1>2. /\ c.at = "judge" /\ fitems' = WithStatus(c.items, c.item.job, status)
      /\ checks' = (checks \ {c}) \cup {to}
      /\ UNCHANGED <<dirs, finished, index, runs, copies, creates, requests, booted, njobs>>
  BY DEF Verdict, Moved
<1>3. /\ c \in Check /\ checks \subseteq Check /\ booted /\ wanted \in [3..njobs -> Wanted]
      /\ njobs \in 2..(2 + MaxFileJobs) /\ dirs \in [FileJobs -> Directory]
      /\ Is(wanted, c.item) /\ \A i \in DOMAIN c.items : Is(wanted, c.items[i])
  BY <1>1 DEF FilesInv, FilesTyped, Told, ChecksAreSound
<1>4. ok \in BOOLEAN
  BY DEF ValidOutputs, MemoryFits, NoStrays, WithinLimit, IsFailureReport
<1>5. status \in JobStatuses /\ at \in {"copy", "settle"}
  BY DEF JobStatuses
<1>. HIDE DEF ok
<1>6. to \in Check /\ to.item = c.item /\ to.items = c.items /\ to.at = at
  BY <1>3, <1>4 DEF Check, Stages
<1>7. fitems' \in Seq(FileItem) /\ \A i \in DOMAIN fitems' : Is(wanted, fitems'[i])
  <2>1. c.items \in Seq(FileItem)
    BY <1>3 DEF Check
  <2>. HIDE DEF status
  <2>. QED
    BY <1>2, <1>3, <1>5, <2>1, StatusIsSet
<1>8. CheckIsSound(to)
  <2>1. CASE copied
    <3>1. /\ c.item.kind = "file" /\ c.item.job \in FileJobs /\ c.item.job \in 3..njobs
          /\ c.item.source \in Sources /\ wanted[c.item.job][1] = "file"
          /\ wanted[c.item.job][2] = c.item.source
      <4>1. c.item.kind = "file"
        BY <2>1
      <4>. QED
        BY <1>3, <4>1, FileIsAsked
    <3>2. /\ dirs[c.item.job].output
          /\ dirs[c.item.job].done >= Len(Chunks(SourceText[c.item.source]))
      BY <2>1, <3>1, Zenon DEF ok, ValidOutputs
    <3>3. dirs[c.item.job].done <= Len(Chunks(SourceText[c.item.source]))
      BY <1>1, <3>1 DEF Told, ChunksOf
    <3>4. dirs[c.item.job].done \in Nat /\ Len(Chunks(SourceText[c.item.source])) \in Nat
      BY <1>3, <3>1, WholeText DEF Directory
    <3>5. to.at = "copy"
      BY <1>6, <2>1
    <3>6. dirs[c.item.job].done = Len(Chunks(SourceText[c.item.source]))
      BY <3>2, <3>3, <3>4
    <3>. QED
      BY <1>6, <3>1, <3>2, <3>5, <3>6 DEF CheckIsSound
  <2>2. CASE ~copied
    BY <1>6, <2>2 DEF CheckIsSound
  <2>. QED
    BY <2>1, <2>2
<1>9. checks' \subseteq Check
  BY <1>2, <1>3, <1>6
<1>10. ASSUME NEW x \in checks'
       PROVE  \/ x \in checks
              \/ /\ Is(wanted, x.item) /\ \A i \in DOMAIN x.items : Is(wanted, x.items[i])
                 /\ CheckIsSound(x)
  BY <1>2, <1>3, <1>6, <1>8
<1>11. UNCHANGED <<dirs, finished, index, copies, creates, requests, booted, njobs>>
       /\ DOMAIN runs' = DOMAIN runs
  BY <1>2
<1>. QED
  BY <1>1, <1>3, <1>7, <1>9, <1>10, <1>11, QueueKeeps

(* What takes results and directories on, for the calls and the index of   *)
(* the moment before.                                                      *)
LEMMA FilesKeep ==
  ASSUME FilesInv, NEW wanted, Told(wanted), UNCHANGED <<creates, copies, requests, booted, njobs>>,
         fitems' \in Seq(FileItem), \A i \in DOMAIN fitems' : Is(wanted, fitems'[i]),
         DOMAIN runs' = DOMAIN runs,
         dirs' \in [FileJobs -> Directory],
         \A j \in FileJobs : dirs'[j].done = dirs[j].done \/ dirs'[j].done = 0,
         finished' \in [Sources \X Languages -> Result],
         \A p \in Sources \X Languages :
           /\ finished[p] # NoResult => finished'[p] # NoResult
           /\ finished'[p] # NoResult => finished'[p] = finished[p] \/ IsWhole(finished'[p], p[1]),
         index' \in Seq(IndexEntry),
         \A k \in DOMAIN index' :
           \/ \E i \in DOMAIN index : index'[k] = index[i]
           \/ /\ index'[k].job \in 3..njobs
              /\ wanted[index'[k].job] = <<"file", index'[k].source, index'[k].language>>
              /\ Completed(index'[k]) /\ index'[k].place = FileKey(index'[k])
              /\ finished'[index'[k].place] # NoResult,
         checks' \subseteq Check, booted,
         \A c \in checks' :
           /\ CheckIsSound(c)'
           /\ Is(wanted, c.item) /\ \A i \in DOMAIN c.items : Is(wanted, c.items[i])
  PROVE  FilesInv'
<1>1. FilesTyped'
  BY DEF FilesInv, FilesTyped
<1>2. /\ wanted \in [3..njobs -> Wanted] /\ njobs \in 2..(2 + MaxFileJobs)
      /\ dirs \in [FileJobs -> Directory] /\ finished \in [Sources \X Languages -> Result]
  BY DEF FilesInv, FilesTyped, Told
<1>3. Told(wanted)'
  <2>1. \A i \in DOMAIN index' :
          /\ index'[i].job \in 1..njobs
          /\ index'[i].job >= 3 => wanted[index'[i].job] = <<"file", index'[i].source, index'[i].language>>
    BY <1>2 DEF Told
  <2>2. \A j \in DOMAIN wanted : wanted[j][1] = "file" => dirs'[j].done <= ChunksOf(wanted[j])
    <3>1. ASSUME NEW j \in DOMAIN wanted, wanted[j][1] = "file" PROVE dirs'[j].done <= ChunksOf(wanted[j])
      <4>1. /\ j \in FileJobs /\ wanted[j] \in Wanted /\ dirs[j].done <= ChunksOf(wanted[j])
            /\ dirs[j].done \in Nat
        BY <1>2, <3>1, FileTranslationAssumption DEF Told, FileJobs, Directory
      <4>2. wanted[j][2] \in Sources
        BY <3>1, <4>1 DEF Wanted
      <4>3. ChunksOf(wanted[j]) \in Nat
        BY <4>2, WholeText DEF ChunksOf
      <4>. QED
        BY <4>1, <4>3
    <3>. QED
      BY <3>1
  <2>3. \A j \in FileJobs : j > njobs => dirs'[j].done = 0
    BY DEF Told
  <2>4. \A j \in DOMAIN runs' : j \in DOMAIN wanted /\ wanted[j][1] = "bootstrap"
    BY DEF Told
  <2>5. \A new \in creates' : Is(wanted, new)
    BY DEF Told
  <2>. QED
    BY <1>2, <2>1, <2>2, <2>3, <2>4, <2>5 DEF Told
<1>4. ResultsAreWhole'
  BY DEF FilesInv, ResultsAreWhole
<1>5. IndexIsSound'
  <2>1. ASSUME NEW k \in DOMAIN index'
        PROVE  Completed(index'[k]) /\ index'[k].place = FileKey(index'[k]) /\ finished'[index'[k].place] # NoResult
    <3>1. CASE \E i \in DOMAIN index : index'[k] = index[i]
      <4>1. PICK i \in DOMAIN index : index'[k] = index[i]
        BY <3>1
      <4>2. /\ Completed(index[i]) /\ index[i].place = FileKey(index[i]) /\ finished[index[i].place] # NoResult
            /\ index[i] \in IndexEntry
        BY DEF FilesInv, FilesTyped, IndexIsSound
      <4>3. index[i].place \in Sources \X Languages
        BY <4>2 DEF FileKey, IndexEntry
      <4>. QED
        BY <4>1, <4>2, <4>3
    <3>2. CASE ~ \E i \in DOMAIN index : index'[k] = index[i]
      BY <3>2
    <3>. QED
      BY <3>1, <3>2
  <2>. QED
    BY <2>1 DEF IndexIsSound
<1>6. ChecksAreSound'
  BY DEF ChecksAreSound
<1>. QED
  BY <1>1, <1>3, <1>4, <1>5, <1>6 DEF FilesInv

\* The directory of a file job stays, or its result is in its place.
DirsStay(wanted) ==
  \A j \in DOMAIN wanted : wanted[j][1] = "file" =>
    \/ dirs'[j].done = dirs[j].done /\ dirs'[j].output = dirs[j].output
    \/ dirs'[j].output = FALSE /\ finished'[<<wanted[j][2], wanted[j][3]>>] # NoResult

LEMMA SoundChecksStay ==
  ASSUME FilesInv, NEW wanted, Told(wanted), DirsStay(wanted),
         \A p \in Sources \X Languages : finished[p] # NoResult => finished'[p] # NoResult,
         NEW c \in checks
  PROVE  CheckIsSound(c)' /\ Is(wanted, c.item) /\ \A i \in DOMAIN c.items : Is(wanted, c.items[i])
<1>1. /\ c \in Check /\ CheckIsSound(c) /\ Is(wanted, c.item)
      /\ \A i \in DOMAIN c.items : Is(wanted, c.items[i])
      /\ wanted \in [3..njobs -> Wanted] /\ njobs \in 2..(2 + MaxFileJobs)
  BY DEF FilesInv, FilesTyped, ChecksAreSound, Told
<1>2. ASSUME c.item.kind = "file"
      PROVE  /\ FileKey(c.item) \in Sources \X Languages
             /\ \/ /\ dirs'[c.item.job].done = dirs[c.item.job].done
                   /\ dirs'[c.item.job].output = dirs[c.item.job].output
                \/ /\ dirs'[c.item.job].output = FALSE
                   /\ finished'[FileKey(c.item)] # NoResult
  <2>1. /\ c.item.job \in DOMAIN wanted /\ wanted[c.item.job][1] = "file"
        /\ wanted[c.item.job][2] = c.item.source /\ wanted[c.item.job][3] = c.item.language
        /\ c.item.source \in Sources /\ c.item.language \in Languages
    BY <1>1, <1>2, FileIsAsked
  <2>2. FileKey(c.item) = <<wanted[c.item.job][2], wanted[c.item.job][3]>>
        /\ FileKey(c.item) \in Sources \X Languages
    BY <2>1 DEF FileKey
  <2>. QED
    BY <2>1, <2>2 DEF DirsStay
<1>3. c.item.kind = "file" =>
        /\ FileKey(c.item) \in Sources \X Languages
        /\ \/ /\ dirs'[c.item.job].done = dirs[c.item.job].done
              /\ dirs'[c.item.job].output = dirs[c.item.job].output
           \/ /\ dirs'[c.item.job].output = FALSE
              /\ finished'[FileKey(c.item)] # NoResult
  BY <1>2
<1>4. CheckIsSound(c)'
  BY <1>1, <1>3, CheckStays
<1>. QED
  BY <1>1, <1>4

(* A directory that goes is empty.                                         *)
LEMMA DirectoryGone ==
  ASSUME dirs \in [FileJobs -> Directory], NEW j \in FileJobs, dirs' = [dirs EXCEPT ![j] = NoDir]
  PROVE  /\ dirs' \in [FileJobs -> Directory]
         /\ \A k \in FileJobs : dirs'[k] = IF k = j THEN NoDir ELSE dirs[k]
         /\ \A k \in FileJobs : dirs'[k].done = dirs[k].done \/ dirs'[k].done = 0
  <1>1. NoDir \in Directory /\ NoDir.done = 0
    BY DEF NoDir, Directory
  <1>. QED
    BY <1>1

LEMMA SettleKeeps ==
  ASSUME FilesInv, NEW c \in checks, Settles(c)
  PROVE  FilesInv'
<1>1. PICK wanted : Told(wanted)
  BY DEF FilesInv
<1>. DEFINE j == c.item.job
            goes == c.ok /\ (c.item.kind = "memory-update" \/ j \in DOMAIN runs)
<1>2. /\ dirs' = IF goes THEN [dirs EXCEPT ![j] = NoDir] ELSE dirs
      /\ fitems' = IF c.ok THEN Others(fitems, j) ELSE fitems
      /\ checks' = checks \ {c} /\ DOMAIN runs' = DOMAIN runs
      /\ UNCHANGED <<finished, index, copies, creates, requests, booted, njobs>>
  BY DEF Settles
<1>3. /\ wanted \in [3..njobs -> Wanted] /\ njobs \in 2..(2 + MaxFileJobs)
      /\ dirs \in [FileJobs -> Directory] /\ Is(wanted, c.item)
      /\ fitems \in Seq(FileItem) /\ \A i \in DOMAIN fitems : Is(wanted, fitems[i])
      /\ checks \subseteq Check /\ booted /\ index \in Seq(IndexEntry)
      /\ finished \in [Sources \X Languages -> Result]
      /\ \A r \in DOMAIN runs : wanted[r][1] = "bootstrap"
  BY <1>1 DEF FilesInv, FilesTyped, ChecksAreSound, Told
<1>4. j \in FileJobs /\ j \in 3..njobs /\ wanted[j][1] = c.item.kind
  BY <1>3, FileIsAsked
<1>5. fitems' \in Seq(FileItem) /\ \A i \in DOMAIN fitems' : Is(wanted, fitems'[i])
  BY <1>2, <1>3, ItemsKept DEF Others
<1>6. CASE goes
  <2>1. dirs' = [dirs EXCEPT ![j] = NoDir]
    BY <1>2, <1>6
  <2>2. wanted[j][1] # "file"
    BY <1>3, <1>4, <1>6
  <2>. HIDE DEF j
  <2>3. /\ dirs' \in [FileJobs -> Directory]
        /\ \A k \in FileJobs : dirs'[k] = IF k = j THEN NoDir ELSE dirs[k]
        /\ \A k \in FileJobs : dirs'[k].done = dirs[k].done \/ dirs'[k].done = 0
    BY <1>3, <1>4, <2>1, DirectoryGone
  <2>4. DirsStay(wanted)
    <3>1. \A k \in DOMAIN wanted : k \in FileJobs
      BY <1>3, FileTranslationAssumption DEF FileJobs
    <3>. QED
      BY <2>2, <2>3, <3>1 DEF DirsStay
  <2>5. \A x \in checks' : /\ CheckIsSound(x)' /\ Is(wanted, x.item)
                           /\ \A i \in DOMAIN x.items : Is(wanted, x.items[i])
    BY <1>1, <1>2, <2>4, SoundChecksStay
  <2>6. UNCHANGED <<creates, copies, requests, booted, njobs>> /\ finished' = finished /\ index' = index
        /\ checks' \subseteq Check
    BY <1>2, <1>3
  <2>7. \A k \in DOMAIN index' : \E i \in DOMAIN index : index'[k] = index[i]
    BY <1>2
  <2>. QED
    BY <1>1, <1>2, <1>3, <1>5, <2>3, <2>5, <2>6, <2>7, FilesKeep
<1>7. CASE ~goes
  <2>1. dirs' = dirs
    BY <1>2, <1>7
  <2>2. UNCHANGED <<dirs, finished, index, copies, creates, requests, booted, njobs>>
    BY <1>2, <2>1
  <2>3. checks' \subseteq Check /\ \A x \in checks' : x \in checks
    BY <1>2, <1>3
  <2>. QED
    BY <1>1, <1>2, <1>3, <1>5, <2>2, <2>3, QueueKeeps
<1>. QED
  BY <1>6, <1>7

(* A copied result holds the chunks there were, all of them.               *)
LEMMA CopyKeeps ==
  ASSUME FilesInv, NEW c \in checks, CopiesResult(c)
  PROVE  FilesInv'
<1>1. PICK wanted : Told(wanted)
  BY DEF FilesInv
<1>. DEFINE entry == FinishedEntry(c.item)
            j == c.item.job
            p == FileKey(c.item)
            total == Cardinality(LinesIn(c.item.source, dirs[j].done))
            result == [job |-> j, lines |-> total]
            final == FinalPlace(entry)
            moved == [c EXCEPT !.place = final, !.at = IF IsCompletedPath(final) THEN "drop" ELSE "list"]
<1>2. /\ c.at = "copy"
      /\ finished' = IF dirs[j].output THEN [finished EXCEPT ![CompletedPath(entry)] = result] ELSE finished
      /\ checks' = (checks \ {c}) \cup {moved} /\ DOMAIN runs' = DOMAIN runs
      /\ UNCHANGED <<fitems, dirs, index, copies, creates, requests, booted, njobs>>
  BY DEF CopiesResult, Moved
<1>3. /\ wanted \in [3..njobs -> Wanted] /\ njobs \in 2..(2 + MaxFileJobs)
      /\ dirs \in [FileJobs -> Directory] /\ Is(wanted, c.item)
      /\ fitems \in Seq(FileItem) /\ \A i \in DOMAIN fitems : Is(wanted, fitems[i])
      /\ checks \subseteq Check /\ c \in Check /\ booted /\ index \in Seq(IndexEntry)
      /\ finished \in [Sources \X Languages -> Result] /\ CheckIsSound(c)
      /\ \A i \in DOMAIN c.items : Is(wanted, c.items[i])
  BY <1>1 DEF FilesInv, FilesTyped, ChecksAreSound, Told
<1>4. /\ c.item.kind = "file"
      /\ dirs[j].output => dirs[j].done = Len(Chunks(SourceText[c.item.source]))
      /\ dirs[j].output \/ finished[p] # NoResult
  BY <1>2, <1>3 DEF CheckIsSound
<1>5. /\ j \in FileJobs /\ j \in 3..njobs /\ c.item.source \in Sources /\ c.item.language \in Languages
  BY <1>3, <1>4, FileIsAsked
<1>6. /\ p \in Sources \X Languages /\ p[1] = c.item.source /\ CompletedPath(entry) = p
      /\ entry.place = <<j>> /\ Len(p) = 2 /\ Len(<<j>>) = 1 /\ p \in ResultPlaces
  BY <1>5 DEF FileKey, CompletedPath, FinishedEntry, RuntimePath, ResultPlaces
<1>7. ASSUME dirs[j].output PROVE result \in Result /\ IsWhole(result, p[1]) /\ result # NoResult
  <2>1. total = Len(SourceText[c.item.source]) /\ total \in Nat
    BY <1>4, <1>5, <1>7, WholeText
  <2>2. j \in Nat /\ j # 0
    BY <1>3, <1>5
  <2>. HIDE DEF total, j
  <2>3. result \in Result /\ result.job = j /\ result.lines = total /\ NoResult.job = 0
    BY <2>1, <2>2 DEF Result, NoResult
  <2>. HIDE DEF result
  <2>. QED
    BY <1>6, <2>1, <2>2, <2>3 DEF IsWhole
<1>8. final = p
  <2>1. CASE dirs[j].output
    <3>1. OutputAt(<<j>>) = [job |-> j, lines |-> 0]
      <4>1. ~IsCompletedPath(<<j>>) /\ <<j>>[1] = j
        BY DEF IsCompletedPath
      <4>. QED
        BY <2>1, <4>1, Zenon DEF OutputAt
    <3>2. OutputAt(<<j>>) # NoResult
      BY <1>3, <1>5, <3>1 DEF NoResult
    <3>3. <<j>> # p
      BY <1>6
    <3>. QED
      BY <1>6, <3>2, <3>3, Zenon DEF FinalPlace
  <2>2. CASE finished[p] # NoResult
    BY <1>6, <2>2, Zenon DEF FinalPlace
  <2>. QED
    BY <1>4, <2>1, <2>2
<1>9. /\ finished' \in [Sources \X Languages -> Result] /\ finished'[p] # NoResult
      /\ \A q \in Sources \X Languages :
           /\ finished[q] # NoResult => finished'[q] # NoResult
           /\ finished'[q] # NoResult => finished'[q] = finished[q] \/ IsWhole(finished'[q], q[1])
  <2>1. CASE dirs[j].output
    <3>1. finished' = [finished EXCEPT ![p] = result]
      BY <1>2, <1>6, <2>1
    <3>2. result \in Result /\ IsWhole(result, p[1]) /\ result # NoResult
      BY <1>7, <2>1
    <3>. HIDE DEF p, result
    <3>3. \A q \in Sources \X Languages : finished'[q] = IF q = p THEN result ELSE finished[q]
      BY <1>3, <3>1
    <3>4. finished' \in [Sources \X Languages -> Result]
      BY <1>3, <3>1, <3>2
    <3>. QED
      BY <1>6, <3>2, <3>3, <3>4
  <2>2. CASE ~dirs[j].output
    BY <1>2, <1>3, <1>4, <2>2
  <2>. QED
    BY <2>1, <2>2
<1>10. IsCompletedPath(p)
  BY <1>6 DEF IsCompletedPath
<1>. HIDE DEF final, result, total, entry
<1>11. moved = [c EXCEPT !.place = p, !.at = "drop"]
  BY <1>8, <1>10
<1>12. PICK to \in Check :
         moved = to /\ to.item = c.item /\ to.items = c.items /\ to.at = "drop" /\ to.place = p
  <2>. HIDE DEF p, moved
  <2>1. /\ moved \in Check /\ moved.item = c.item /\ moved.items = c.items
        /\ moved.at = "drop" /\ moved.place = p
    BY <1>3, <1>6, <1>11 DEF Check, Stages
  <2>. QED
    BY <2>1
<1>. HIDE DEF moved, j
<1>13. CheckIsSound(to)'
  BY <1>4, <1>9, <1>12 DEF CheckIsSound
<1>14. DirsStay(wanted)
  BY <1>2 DEF DirsStay
<1>15. ASSUME NEW x \in checks'
       PROVE  CheckIsSound(x)' /\ Is(wanted, x.item) /\ \A i \in DOMAIN x.items : Is(wanted, x.items[i])
  <2>1. CASE x = to
    BY <1>3, <1>12, <1>13, <2>1
  <2>2. CASE x \in checks
    BY <1>1, <1>9, <1>14, <2>2, SoundChecksStay
  <2>. QED
    BY <1>2, <1>12, <2>1, <2>2
<1>16. checks' \subseteq Check
  BY <1>2, <1>3, <1>12
<1>17. /\ dirs' \in [FileJobs -> Directory]
       /\ \A k \in FileJobs : dirs'[k].done = dirs[k].done \/ dirs'[k].done = 0
       /\ fitems' \in Seq(FileItem) /\ \A i \in DOMAIN fitems' : Is(wanted, fitems'[i])
       /\ index' \in Seq(IndexEntry) /\ \A k \in DOMAIN index' : \E i \in DOMAIN index : index'[k] = index[i]
       /\ UNCHANGED <<creates, copies, requests, booted, njobs>> /\ DOMAIN runs' = DOMAIN runs
  BY <1>2, <1>3
<1>. HIDE DEF p
<1>. QED
  BY <1>1, <1>3, <1>9, <1>15, <1>16, <1>17, FilesKeep

LEMMA DropKeeps ==
  ASSUME FilesInv, NEW c \in checks, DropsDirectory(c)
  PROVE  FilesInv'
<1>1. PICK wanted : Told(wanted)
  BY DEF FilesInv
<1>. DEFINE j == c.item.job
            p == FileKey(c.item)
            to == [c EXCEPT !.at = "list"]
<1>2. /\ c.at = "drop" /\ dirs' = [dirs EXCEPT ![j] = NoDir]
      /\ checks' = (checks \ {c}) \cup {to} /\ DOMAIN runs' = DOMAIN runs
      /\ UNCHANGED <<fitems, finished, index, copies, creates, requests, booted, njobs>>
  BY DEF DropsDirectory, Moved
<1>3. /\ wanted \in [3..njobs -> Wanted] /\ njobs \in 2..(2 + MaxFileJobs)
      /\ dirs \in [FileJobs -> Directory] /\ Is(wanted, c.item)
      /\ fitems \in Seq(FileItem) /\ \A i \in DOMAIN fitems : Is(wanted, fitems[i])
      /\ checks \subseteq Check /\ c \in Check /\ booted /\ index \in Seq(IndexEntry)
      /\ finished \in [Sources \X Languages -> Result] /\ CheckIsSound(c)
      /\ \A i \in DOMAIN c.items : Is(wanted, c.items[i])
  BY <1>1 DEF FilesInv, FilesTyped, ChecksAreSound, Told
<1>4. c.item.kind = "file" /\ c.place = p /\ finished[p] # NoResult
  BY <1>2, <1>3 DEF CheckIsSound
<1>5. /\ j \in FileJobs /\ j \in 3..njobs /\ wanted[j][2] = c.item.source /\ wanted[j][3] = c.item.language
  BY <1>3, FileIsAsked
<1>6. p = <<wanted[j][2], wanted[j][3]>>
  BY <1>5 DEF FileKey
<1>7. /\ dirs' \in [FileJobs -> Directory]
      /\ \A k \in FileJobs : dirs'[k] = IF k = j THEN NoDir ELSE dirs[k]
      /\ \A k \in FileJobs : dirs'[k].done = dirs[k].done \/ dirs'[k].done = 0
  <2>. HIDE DEF j
  <2>. QED
    BY <1>2, <1>3, <1>5, DirectoryGone
<1>8. to \in Check /\ to.item = c.item /\ to.items = c.items /\ to.at = "list" /\ to.place = c.place
  BY <1>3 DEF Check, Stages
<1>. HIDE DEF to, j, p
<1>9. DirsStay(wanted)
  <2>1. \A k \in DOMAIN wanted : k \in FileJobs
    BY <1>3, FileTranslationAssumption DEF FileJobs
  <2>2. NoDir.output = FALSE
    BY DEF NoDir
  <2>3. ASSUME NEW k \in DOMAIN wanted
        PROVE  \/ dirs'[k].done = dirs[k].done /\ dirs'[k].output = dirs[k].output
               \/ dirs'[k].output = FALSE /\ finished'[<<wanted[k][2], wanted[k][3]>>] # NoResult
    <3>1. CASE k = j
      BY <1>2, <1>4, <1>6, <1>7, <2>1, <2>2, <3>1
    <3>2. CASE k # j
      BY <1>7, <2>1, <3>2
    <3>. QED
      BY <3>1, <3>2
  <2>. QED
    BY <2>3 DEF DirsStay
<1>10. finished' = finished
  BY <1>2
<1>11. CheckIsSound(to)'
  BY <1>4, <1>8, <1>10 DEF CheckIsSound, p
<1>12. ASSUME NEW x \in checks'
       PROVE  CheckIsSound(x)' /\ Is(wanted, x.item) /\ \A i \in DOMAIN x.items : Is(wanted, x.items[i])
  <2>1. CASE x = to
    BY <1>3, <1>8, <1>11, <2>1
  <2>2. CASE x \in checks
    BY <1>1, <1>9, <1>10, <2>2, SoundChecksStay
  <2>. QED
    BY <1>2, <2>1, <2>2
<1>13. checks' \subseteq Check
  BY <1>2, <1>3, <1>8
<1>14. /\ fitems' \in Seq(FileItem) /\ \A i \in DOMAIN fitems' : Is(wanted, fitems'[i])
       /\ index' \in Seq(IndexEntry) /\ \A k \in DOMAIN index' : \E i \in DOMAIN index : index'[k] = index[i]
       /\ UNCHANGED <<creates, copies, requests, booted, njobs>> /\ DOMAIN runs' = DOMAIN runs
  BY <1>2, <1>3
<1>. QED
  BY <1>1, <1>3, <1>7, <1>10, <1>12, <1>13, <1>14, FilesKeep

(* The index and the directories after it is saved with sound entries.     *)
LEMMA SaveKeeps ==
  ASSUME FilesInv, booted, NEW wanted, Told(wanted), NEW entered \in Seq(IndexEntry),
         NEW directories \in [FileJobs -> Directory],
         SavesIndex(entered, finished, directories),
         \A i \in DOMAIN entered :
           /\ Completed(entered[i]) /\ entered[i].place = FileKey(entered[i])
           /\ finished[entered[i].place] # NoResult /\ entered[i].job \in 1..njobs
           /\ entered[i].job >= 3 =>
                wanted[entered[i].job] = <<"file", entered[i].source, entered[i].language>>,
         \A j \in FileJobs :
           \/ directories[j] = dirs[j]
           \/ /\ directories[j] = NoDir
              /\ \/ j \notin DOMAIN wanted
                 \/ wanted[j][1] # "file"
                 \/ finished[<<wanted[j][2], wanted[j][3]>>] # NoResult
  PROVE  /\ finished' = finished /\ DirsStay(wanted) /\ dirs' \in [FileJobs -> Directory]
         /\ \A j \in FileJobs : dirs'[j].done = dirs[j].done \/ dirs'[j].done = 0
         /\ index' \in Seq(IndexEntry)
         /\ \A k \in DOMAIN index' : \E i \in DOMAIN entered : index'[k] = entered[i]
<1>1. /\ wanted \in [3..njobs -> Wanted] /\ njobs \in 2..(2 + MaxFileJobs)
      /\ finished \in [Sources \X Languages -> Result]
  BY DEF FilesInv, FilesTyped, Told
<1>2. /\ finished' = finished /\ index' \in Seq(IndexEntry)
      /\ \A k \in DOMAIN index' : \E i \in DOMAIN entered : index'[k] = entered[i]
      /\ dirs' \in [FileJobs -> Directory]
      /\ \A j \in FileJobs : \/ dirs'[j] = directories[j]
                             \/ dirs'[j] = NoDir /\ \E i \in DOMAIN entered : entered[i].job = j
  BY <1>1, SavedIndex
<1>3. NoDir.done = 0 /\ NoDir.output = FALSE
  BY DEF NoDir
<1>4. ASSUME NEW j \in DOMAIN wanted, wanted[j][1] = "file"
      PROVE  \/ dirs'[j] = dirs[j]
             \/ dirs'[j] = NoDir /\ finished[<<wanted[j][2], wanted[j][3]>>] # NoResult
  <2>1. j \in FileJobs /\ j >= 3
    BY <1>1, FileTranslationAssumption DEF FileJobs
  <2>2. ASSUME NEW i \in DOMAIN entered, entered[i].job = j
        PROVE  finished[<<wanted[j][2], wanted[j][3]>>] # NoResult
    <3>1. wanted[j] = <<"file", entered[i].source, entered[i].language>>
      BY <2>1, <2>2
    <3>2. <<wanted[j][2], wanted[j][3]>> = entered[i].place
      BY <3>1 DEF FileKey
    <3>. QED
      BY <3>2
  <2>. QED
    BY <1>2, <1>4, <2>1, <2>2
<1>5. DirsStay(wanted)
  <2>1. ASSUME NEW j \in DOMAIN wanted, wanted[j][1] = "file"
        PROVE  \/ dirs'[j].done = dirs[j].done /\ dirs'[j].output = dirs[j].output
               \/ dirs'[j].output = FALSE /\ finished'[<<wanted[j][2], wanted[j][3]>>] # NoResult
    <3>1. CASE dirs'[j] = dirs[j]
      BY <3>1
    <3>2. CASE dirs'[j] = NoDir /\ finished[<<wanted[j][2], wanted[j][3]>>] # NoResult
      BY <1>2, <1>3, <3>2
    <3>. QED
      BY <1>4, <2>1, <3>1, <3>2
  <2>. QED
    BY <2>1 DEF DirsStay
<1>6. \A j \in FileJobs : dirs'[j].done = dirs[j].done \/ dirs'[j].done = 0
  BY <1>2, <1>3
<1>. QED
  BY <1>2, <1>5, <1>6

LEMMA OthersAre ==
  ASSUME NEW T, NEW s \in Seq(T), NEW j
  PROVE  /\ Others(s, j) \in Seq(T)
         /\ \A k \in DOMAIN Others(s, j) : \E i \in DOMAIN s : Others(s, j)[k] = s[i]
         /\ \A i \in DOMAIN s : s[i].job # j => \E k \in DOMAIN Others(s, j) : Others(s, j)[k] = s[i]
<1>. DEFINE at == {i \in DOMAIN s : s[i].job # j}
<1>1. Others(s, j) = Kept(s, at)
  BY DEF Others
<1>2. \A i \in DOMAIN s : i \in at <=> s[i].job # j
  OBVIOUS
<1>. HIDE DEF at
<1>3. /\ Kept(s, at) \in Seq(T)
      /\ \A k \in DOMAIN Kept(s, at) : \E i \in DOMAIN s : i \in at /\ Kept(s, at)[k] = s[i]
      /\ \A i \in DOMAIN s : i \in at => \E k \in DOMAIN Kept(s, at) : Kept(s, at)[k] = s[i]
  BY KeptAre
<1>. QED
  BY <1>1, <1>2, <1>3

LEMMA ListKeeps ==
  ASSUME FilesInv, NEW c \in checks, Lists(c)
  PROVE  /\ FilesInv'
         /\ \A i \in DOMAIN index : \E k \in DOMAIN index' : FileKey(index'[k]) = FileKey(index[i])
<1>1. PICK wanted : Told(wanted)
  BY DEF FilesInv
<1>. DEFINE j == c.item.job
            p == FileKey(c.item)
            first == [FinishedEntry(c.item) EXCEPT !.place = c.place]
            others == Others(index, j)
            entered == <<first>> \o others
<1>2. /\ c.at = "list" /\ SavesIndex(entered, finished, dirs)
      /\ fitems' = Others(fitems, j) /\ checks' = checks \ {c} /\ DOMAIN runs' = DOMAIN runs
      /\ UNCHANGED <<creates, copies, requests, booted, njobs>>
  BY DEF Lists
<1>3. /\ wanted \in [3..njobs -> Wanted] /\ njobs \in 2..(2 + MaxFileJobs)
      /\ dirs \in [FileJobs -> Directory] /\ Is(wanted, c.item)
      /\ fitems \in Seq(FileItem) /\ \A i \in DOMAIN fitems : Is(wanted, fitems[i])
      /\ checks \subseteq Check /\ c \in Check /\ booted /\ index \in Seq(IndexEntry)
      /\ finished \in [Sources \X Languages -> Result] /\ CheckIsSound(c)
      /\ \A i \in DOMAIN index :
           /\ Completed(index[i]) /\ index[i].place = FileKey(index[i])
           /\ finished[index[i].place] # NoResult /\ index[i].job \in 1..njobs
           /\ index[i].job >= 3 => wanted[index[i].job] = <<"file", index[i].source, index[i].language>>
  BY <1>1 DEF FilesInv, FilesTyped, ChecksAreSound, IndexIsSound, Told
<1>4. c.item.kind = "file" /\ c.place = p /\ finished[p] # NoResult
  BY <1>2, <1>3 DEF CheckIsSound
<1>5. /\ j \in FileJobs /\ j \in 3..njobs /\ wanted[j] = <<"file", c.item.source, c.item.language>>
      /\ c.item.source \in Sources /\ c.item.language \in Languages
  BY <1>3, <1>4, FileIsAsked DEF Is
<1>6. /\ first \in IndexEntry /\ Completed(first) /\ first.place = FileKey(first) /\ first.job = j
      /\ first.source = c.item.source /\ first.language = c.item.language
      /\ FileKey(first) = p
  <2>1. FinishedEntry(c.item) = [job |-> j, source |-> c.item.source, language |-> c.item.language,
                                 place |-> RuntimePath(j), status |-> "completed"]
    BY DEF FinishedEntry
  <2>2. first = [job |-> j, source |-> c.item.source, language |-> c.item.language,
                 place |-> p, status |-> "completed"]
    BY <1>4, <2>1
  <2>3. p \in ResultPlaces /\ j \in Nat /\ "completed" \in JobStatuses
    BY <1>3, <1>5 DEF FileKey, ResultPlaces, JobStatuses
  <2>. HIDE DEF first, j
  <2>4. /\ first.job = j /\ first.source = c.item.source /\ first.language = c.item.language
        /\ first.place = p /\ first.status = "completed"
    BY <2>2
  <2>5. first \in IndexEntry
    <3>. HIDE DEF p
    <3>. QED
      BY <1>5, <2>2, <2>3 DEF IndexEntry
  <2>. QED
    BY <2>4, <2>5 DEF FileKey, Completed
<1>. HIDE DEF first
<1>7. /\ others \in Seq(IndexEntry)
      /\ \A k \in DOMAIN others : \E i \in DOMAIN index : others[k] = index[i]
      /\ \A i \in DOMAIN index : index[i].job # j => \E k \in DOMAIN others : others[k] = index[i]
  <2>1. index \in Seq(IndexEntry)
    BY <1>3
  <2>. HIDE DEF j
  <2>2. others \in Seq(IndexEntry) /\ \A k \in DOMAIN others : \E i \in DOMAIN index : others[k] = index[i]
    BY <2>1, OthersAre
  <2>3. \A i \in DOMAIN index : index[i].job # j => \E k \in DOMAIN others : others[k] = index[i]
    BY <2>1, OthersAre
  <2>. QED
    BY <2>2, <2>3
<1>. HIDE DEF others
<1>8. /\ entered \in Seq(IndexEntry) /\ 1 \in DOMAIN entered /\ entered[1] = first
      /\ \A k \in DOMAIN others : k + 1 \in DOMAIN entered /\ entered[k + 1] = others[k]
      /\ \A i \in DOMAIN entered : i = 1 \/ \E k \in DOMAIN others : entered[i] = others[k]
  <2>1. Len(others) \in Nat /\ DOMAIN others = 1..Len(others)
    BY <1>7
  <2>2. /\ entered \in Seq(IndexEntry) /\ DOMAIN entered = 1..(Len(others) + 1) /\ entered[1] = first
        /\ \A k \in DOMAIN others : entered[k + 1] = others[k]
    BY <1>6, <1>7
  <2>. HIDE DEF entered
  <2>3. \A k \in DOMAIN others : k + 1 \in DOMAIN entered
    BY <2>1, <2>2
  <2>4. ASSUME NEW i \in DOMAIN entered, i # 1 PROVE \E k \in DOMAIN others : entered[i] = others[k]
    <3>1. i - 1 \in DOMAIN others /\ (i - 1) + 1 = i
      BY <2>1, <2>2, <2>4
    <3>. QED
      BY <2>2, <3>1
  <2>. QED
    BY <2>1, <2>2, <2>3, <2>4
<1>. HIDE DEF entered
<1>9. ASSUME NEW i \in DOMAIN entered
      PROVE  /\ Completed(entered[i]) /\ entered[i].place = FileKey(entered[i])
             /\ finished[entered[i].place] # NoResult /\ entered[i].job \in 1..njobs
             /\ entered[i].job >= 3 =>
                  wanted[entered[i].job] = <<"file", entered[i].source, entered[i].language>>
             /\ entered[i] = first \/ \E n \in DOMAIN index : entered[i] = index[n]
  <2>1. CASE i = 1
    <3>1. entered[i] = first /\ j \in 1..njobs
      BY <1>3, <1>5, <1>8, <2>1
    <3>. HIDE DEF j, p
    <3>. QED
      BY <1>4, <1>5, <1>6, <3>1
  <2>2. CASE i # 1
    <3>1. PICK n \in DOMAIN index : entered[i] = index[n]
      BY <1>7, <1>8, <2>2
    <3>. QED
      BY <1>3, <3>1
  <2>. QED
    BY <2>1, <2>2
<1>10. ASSUME NEW i \in DOMAIN index
       PROVE  \E n \in DOMAIN entered : FileKey(entered[n]) = FileKey(index[i])
  <2>1. CASE index[i].job = j
    <3>1. wanted[j] = <<"file", index[i].source, index[i].language>>
      BY <1>3, <1>5, <2>1
    <3>2. FileKey(index[i]) = p
      BY <1>5, <3>1 DEF FileKey
    <3>. QED
      BY <1>6, <1>8, <3>2
  <2>2. CASE index[i].job # j
    BY <1>7, <1>8, <2>2
  <2>. QED
    BY <2>1, <2>2
<1>11. /\ \A i \in DOMAIN entered :
            /\ Completed(entered[i]) /\ entered[i].place = FileKey(entered[i])
            /\ finished[entered[i].place] # NoResult /\ entered[i].job \in 1..njobs
            /\ entered[i].job >= 3 =>
                 wanted[entered[i].job] = <<"file", entered[i].source, entered[i].language>>
  BY <1>9
<1>12. /\ finished' = finished /\ DirsStay(wanted) /\ dirs' \in [FileJobs -> Directory]
       /\ \A k \in FileJobs : dirs'[k].done = dirs[k].done \/ dirs'[k].done = 0
       /\ index' \in Seq(IndexEntry)
       /\ \A k \in DOMAIN index' : \E i \in DOMAIN entered : index'[k] = entered[i]
  <2>1. \A k \in FileJobs : dirs[k] = dirs[k]
    OBVIOUS
  <2>2. booted /\ SavesIndex(entered, finished, dirs) /\ entered \in Seq(IndexEntry)
        /\ dirs \in [FileJobs -> Directory]
    BY <1>2, <1>3, <1>8
  <2>. QED
    BY <1>1, <1>11, <2>1, <2>2, SaveKeeps
<1>13. \A i \in DOMAIN entered : \E k \in DOMAIN index' : FileKey(index'[k]) = FileKey(entered[i])
  <2>1. \A i \in DOMAIN entered : Completed(entered[i]) /\ entered[i].place = FileKey(entered[i])
    BY <1>9
  <2>. QED
    BY <1>2, <1>3, <1>8, <2>1, SavedIndex
<1>14. \A i \in DOMAIN index : \E k \in DOMAIN index' : FileKey(index'[k]) = FileKey(index[i])
  BY <1>10, <1>13
<1>15. ASSUME NEW k \in DOMAIN index'
       PROVE  \/ \E i \in DOMAIN index : index'[k] = index[i]
              \/ /\ index'[k].job \in 3..njobs
                 /\ wanted[index'[k].job] = <<"file", index'[k].source, index'[k].language>>
                 /\ Completed(index'[k]) /\ index'[k].place = FileKey(index'[k])
                 /\ finished'[index'[k].place] # NoResult
  <2>1. PICK i \in DOMAIN entered : index'[k] = entered[i]
    BY <1>12
  <2>2. CASE entered[i] = first
    <3>. HIDE DEF j, p
    <3>. QED
      BY <1>4, <1>5, <1>6, <1>12, <2>1, <2>2
  <2>3. CASE \E n \in DOMAIN index : entered[i] = index[n]
    BY <2>1, <2>3
  <2>. QED
    BY <1>9, <2>2, <2>3
<1>16. ASSUME NEW x \in checks'
       PROVE  CheckIsSound(x)' /\ Is(wanted, x.item) /\ \A i \in DOMAIN x.items : Is(wanted, x.items[i])
  BY <1>1, <1>2, <1>12, SoundChecksStay
<1>17. checks' \subseteq Check
  BY <1>2, <1>3
<1>18. fitems' \in Seq(FileItem) /\ \A i \in DOMAIN fitems' : Is(wanted, fitems'[i])
  BY <1>2, <1>3, ItemsKept DEF Others
<1>19. /\ finished' \in [Sources \X Languages -> Result]
       /\ \A q \in Sources \X Languages :
            /\ finished[q] # NoResult => finished'[q] # NoResult
            /\ finished'[q] # NoResult => finished'[q] = finished[q] \/ IsWhole(finished'[q], q[1])
  BY <1>3, <1>12
<1>20. UNCHANGED <<creates, copies, requests, booted, njobs>> /\ DOMAIN runs' = DOMAIN runs
  BY <1>2
<1>21. FilesInv'
  BY <1>1, <1>3, <1>12, <1>15, <1>16, <1>17, <1>18, <1>19, <1>20, FilesKeep
<1>. QED
  BY <1>14, <1>21

LEMMA GetKeeps ==
  ASSUME FilesInv, NEW away \in BOOLEAN, GetsState(away)
  PROVE  /\ FilesInv'
         /\ \A i \in DOMAIN index : \E k \in DOMAIN index' : FileKey(index'[k]) = FileKey(index[i])
<1>1. PICK wanted : Told(wanted)
  BY DEF FilesInv
<1>. DEFINE kept == Retained(index)
            Finalized(i) == IF i \in kept /\ Completed(index[i])
                        THEN [index[i] EXCEPT !.place = FinalPlace(index[i])] ELSE index[i]
            finals == [i \in DOMAIN index |-> Finalized(i)]
            listed == {index[i].job : i \in {i \in kept : Completed(index[i]) /\ IsCompletedPath(finals[i].place)}}
            updates == {fitems[i].job : i \in {i \in DOMAIN fitems : /\ fitems[i].kind = "memory-update"
                                                                    /\ fitems[i].status = "completed"}}
            cleaned == listed \cup {j \in DOMAIN runs : runs[j] = "completed"} \cup updates
            directories == [j \in FileJobs |-> IF j \in cleaned THEN NoDir ELSE dirs[j]]
            items == Kept(fitems, {i \in DOMAIN fitems : fitems[i].status # "completed"})
<1>2. /\ booted /\ SavesIndex(finals, finished, directories)
      /\ Judges(items) \/ (fitems' = items /\ checks' = checks)
      /\ runs' = runs /\ UNCHANGED <<creates, copies, requests, booted, njobs>>
  BY DEF GetsState
<1>3. /\ wanted \in [3..njobs -> Wanted] /\ njobs \in 2..(2 + MaxFileJobs)
      /\ dirs \in [FileJobs -> Directory] /\ index \in Seq(IndexEntry)
      /\ fitems \in Seq(FileItem) /\ \A i \in DOMAIN fitems : Is(wanted, fitems[i])
      /\ checks \subseteq Check /\ finished \in [Sources \X Languages -> Result]
  BY <1>1 DEF FilesInv, FilesTyped, Told
<1>4. \A i \in DOMAIN index :
        /\ Completed(index[i]) /\ index[i].place = FileKey(index[i])
        /\ finished[index[i].place] # NoResult /\ index[i].job \in 1..njobs
        /\ index[i].job >= 3 => wanted[index[i].job] = <<"file", index[i].source, index[i].language>>
  BY <1>1, <1>2 DEF FilesInv, IndexIsSound, Told
<1>5. finals = index
  <2>1. ASSUME NEW i \in DOMAIN index PROVE Finalized(i) = index[i]
    <3>1. finished[CompletedPath(index[i])] # NoResult /\ index[i].place = CompletedPath(index[i])
      BY <1>4 DEF FileKey, CompletedPath
    <3>2. FinalPlace(index[i]) = index[i].place
      BY <3>1, Zenon DEF FinalPlace
    <3>3. index[i] \in IndexEntry
      BY <1>3
    <3>4. [index[i] EXCEPT !.place = index[i].place] = index[i]
      BY <3>3 DEF IndexEntry
    <3>. QED
      BY <3>2, <3>4
  <2>2. index = [i \in DOMAIN index |-> index[i]]
    BY <1>3
  <2>. HIDE DEF Finalized
  <2>. QED
    BY <2>1, <2>2
<1>6. \A i \in kept : i \in DOMAIN index
  BY DEF Retained
<1>. HIDE DEF kept, finals
<1>7. \A j \in listed : \E i \in DOMAIN index : index[i].job = j
  BY <1>6
<1>8. \A j \in updates : \E i \in DOMAIN fitems : fitems[i].job = j /\ fitems[i].kind = "memory-update"
  OBVIOUS
<1>. HIDE DEF listed, updates
<1>9. ASSUME NEW j \in cleaned, j \in DOMAIN wanted, wanted[j][1] = "file"
      PROVE  finished[<<wanted[j][2], wanted[j][3]>>] # NoResult
  <2>1. CASE j \in listed
    <3>1. PICK i \in DOMAIN index : index[i].job = j
      BY <1>7, <2>1
    <3>2. wanted[j] = <<"file", index[i].source, index[i].language>>
      <4>1. j \in 3..njobs /\ njobs \in Nat
        BY <1>3, <1>9
      <4>2. j >= 3
        BY <4>1
      <4>. QED
        BY <1>4, <3>1, <4>2
    <3>3. <<wanted[j][2], wanted[j][3]>> = index[i].place
      BY <1>4, <3>2 DEF FileKey
    <3>. QED
      BY <1>4, <3>3
  <2>2. CASE j \in updates
    <3>1. PICK i \in DOMAIN fitems : fitems[i].job = j /\ fitems[i].kind = "memory-update"
      BY <1>8, <2>2
    <3>2. Is(wanted, fitems[i])
      BY <1>3
    <3>3. wanted[j][1] = "memory-update"
      BY <1>3, <3>1, <3>2, FileIsAsked
    <3>. QED
      BY <1>9, <3>3
  <2>3. CASE j \in DOMAIN runs
    BY <1>1, <1>9, <2>3 DEF Told
  <2>. QED
    BY <2>1, <2>2, <2>3
<1>. HIDE DEF cleaned
<1>10. NoDir \in Directory
  BY DEF NoDir, Directory
<1>11. /\ directories \in [FileJobs -> Directory]
       /\ \A j \in FileJobs : directories[j] = IF j \in cleaned THEN NoDir ELSE dirs[j]
  BY <1>3, <1>10
<1>. HIDE DEF directories
<1>12. ASSUME NEW j \in FileJobs
       PROVE  \/ directories[j] = dirs[j]
              \/ /\ directories[j] = NoDir
                 /\ \/ j \notin DOMAIN wanted
                    \/ wanted[j][1] # "file"
                    \/ finished[<<wanted[j][2], wanted[j][3]>>] # NoResult
  BY <1>9, <1>11
<1>13. SavesIndex(index, finished, directories)
  BY <1>2, <1>5
<1>14. /\ finished' = finished /\ DirsStay(wanted) /\ dirs' \in [FileJobs -> Directory]
       /\ \A j \in FileJobs : dirs'[j].done = dirs[j].done \/ dirs'[j].done = 0
       /\ index' \in Seq(IndexEntry)
       /\ \A k \in DOMAIN index' : \E i \in DOMAIN index : index'[k] = index[i]
  <2>1. index \in Seq(IndexEntry) /\ booted
    BY <1>2, <1>3
  <2>. QED
    BY <1>1, <1>4, <1>11, <1>12, <1>13, <2>1, SaveKeeps
<1>15. \A i \in DOMAIN index : \E k \in DOMAIN index' : FileKey(index'[k]) = FileKey(index[i])
  BY <1>3, <1>4, <1>11, <1>13, SavedIndex
<1>16. items \in Seq(FileItem) /\ \A i \in DOMAIN items : Is(wanted, items[i])
  BY <1>3, ItemsKept
<1>. HIDE DEF items
<1>17. /\ fitems' \in Seq(FileItem) /\ \A i \in DOMAIN fitems' : Is(wanted, fitems'[i])
       /\ checks' \subseteq Check
       /\ \A c \in checks' : \/ c \in checks
                             \/ /\ Is(wanted, c.item) /\ \A i \in DOMAIN c.items : Is(wanted, c.items[i])
                                /\ c.at = "judge"
  <2>1. CASE Judges(items)
    BY <1>3, <1>16, <2>1, JudgeIsSound
  <2>2. CASE fitems' = items /\ checks' = checks
    BY <1>3, <1>16, <2>2
  <2>. QED
    BY <1>2, <2>1, <2>2
<1>18. ASSUME NEW c \in checks'
       PROVE  CheckIsSound(c)' /\ Is(wanted, c.item) /\ \A i \in DOMAIN c.items : Is(wanted, c.items[i])
  <2>1. CASE c \in checks
    BY <1>1, <1>14, <2>1, SoundChecksStay
  <2>2. CASE c \notin checks
    BY <1>17, <2>2 DEF CheckIsSound
  <2>. QED
    BY <2>1, <2>2
<1>19. /\ finished' \in [Sources \X Languages -> Result]
       /\ \A q \in Sources \X Languages :
            /\ finished[q] # NoResult => finished'[q] # NoResult
            /\ finished'[q] # NoResult => finished'[q] = finished[q] \/ IsWhole(finished'[q], q[1])
  BY <1>3, <1>14
<1>20. UNCHANGED <<creates, copies, requests, booted, njobs>> /\ DOMAIN runs' = DOMAIN runs
  BY <1>2
<1>21. \A k \in DOMAIN index' :
         \/ \E i \in DOMAIN index : index'[k] = index[i]
         \/ /\ index'[k].job \in 3..njobs
            /\ wanted[index'[k].job] = <<"file", index'[k].source, index'[k].language>>
            /\ Completed(index'[k]) /\ index'[k].place = FileKey(index'[k])
            /\ finished'[index'[k].place] # NoResult
  BY <1>14
<1>22. FilesInv'
  BY <1>1, <1>2, <1>14, <1>17, <1>18, <1>19, <1>20, <1>21, FilesKeep
<1>. QED
  BY <1>15, <1>22

LEMMA PromoteKeeps ==
  ASSUME FilesInv, NEW i \in DOMAIN index, NEW target \in Targets, Promotes(i, target)
  PROVE  FilesInv'
<1>1. PICK wanted : Told(wanted)
  BY DEF FilesInv
<1>. DEFINE result == OutputAt(index[i].place)
<1>2. /\ booted /\ requests # <<>> /\ requests' = Tail(requests)
      /\ copies' = [copies EXCEPT ![target] = result]
      /\ UNCHANGED <<fitems, dirs, finished, index, runs, creates, checks, booted, njobs>>
  BY DEF Promotes
<1>3. /\ index[i] \in IndexEntry /\ index[i].place = FileKey(index[i])
      /\ finished[index[i].place] # NoResult /\ finished \in [Sources \X Languages -> Result]
      /\ requests \in Seq(Wanted \cup {<<"promote">>}) /\ copies \in [Targets -> Result]
  BY <1>2 DEF FilesInv, FilesTyped, IndexIsSound
<1>4. /\ index[i].place \in Sources \X Languages /\ index[i].place[1] = index[i].source
      /\ index[i].source \in Sources /\ IsCompletedPath(index[i].place)
  BY <1>3 DEF IndexEntry, FileKey, IsCompletedPath
<1>5. result = finished[index[i].place]
  BY <1>4, Zenon DEF OutputAt
<1>6. result \in Result /\ IsWhole(result, index[i].source)
  BY <1>3, <1>4, <1>5 DEF FilesInv, ResultsAreWhole
<1>. HIDE DEF result
<1>7. copies' \in [Targets -> Result] /\ \A t \in Targets : copies'[t] = IF t = target THEN result ELSE copies[t]
  BY <1>2, <1>3, <1>6
<1>8. requests' \in Seq(Wanted \cup {<<"promote">>})
  <2>1. \A T : \A s \in Seq(T) : s # <<>> => Tail(s) \in Seq(T)
    OBVIOUS
  <2>. QED
    BY <1>2, <1>3, <2>1
<1>9. FilesTyped'
  BY <1>2, <1>7, <1>8 DEF FilesInv, FilesTyped
<1>10. Told(wanted)'
  BY <1>1, <1>2 DEF Told
<1>11. ResultsAreWhole'
  <2>1. \A t \in Targets : copies'[t] # NoResult => \E s \in Sources : IsWhole(copies'[t], s)
    BY <1>4, <1>6, <1>7 DEF FilesInv, ResultsAreWhole
  <2>. QED
    BY <1>2, <2>1 DEF FilesInv, ResultsAreWhole
<1>12. IndexIsSound' /\ ChecksAreSound'
  BY <1>2 DEF FilesInv, IndexIsSound, ChecksAreSound, CheckIsSound
<1>. QED
  BY <1>9, <1>10, <1>11, <1>12 DEF FilesInv

\* An entry of an earlier version without the mark that only says what to find.
LEMMA EarlierEntry ==
  ASSUME NEW x \in Listed
  PROVE  LET e == [f \in DOMAIN x \ {"found"} |-> x[f]] IN
         /\ e \in IndexEntry /\ e.job = x.job /\ e.source = x.source /\ e.language = x.language
         /\ e.place = x.place /\ e.status = x.status /\ x.job \in Old
<1>. DEFINE e == [f \in DOMAIN x \ {"found"} |-> x[f]]
            five == {"job", "source", "language", "place", "status"}
<1>1. DOMAIN x = five \cup {"found"}
  BY DEF Listed
<1>2. e = [f \in five |-> x[f]]
  <2>1. (five \cup {"found"}) \ {"found"} = five
    OBVIOUS
  <2>. HIDE DEF five
  <2>. QED
    BY <1>1, <2>1
<1>3. x.job \in Old /\ x.source \in Sources /\ x.language \in Languages /\ x.place \in ResultPlaces /\ x.status \in JobStatuses
  BY DEF Listed
<1>. DEFINE r == [job |-> x.job, source |-> x.source, language |-> x.language, place |-> x.place,
                  status |-> x.status]
<1>4. e = r
  BY <1>2
<1>5. x.job \in Nat
  BY <1>3 DEF Old
<1>6. r \in IndexEntry /\ r.job = x.job /\ r.source = x.source /\ r.language = x.language
      /\ r.place = x.place /\ r.status = x.status
  BY <1>3, <1>5 DEF IndexEntry
<1>. QED
  BY <1>3, <1>4, <1>6

LEMMA FilesInitHolds == TranslatedInit => FilesInv
<1>. SUFFICES ASSUME TranslatedInit PROVE FilesInv
  OBVIOUS
<1>1. PICK entered \in Legacy :
        /\ index = [i \in DOMAIN entered |-> [f \in DOMAIN entered[i] \ {"found"} |-> entered[i][f]]]
        /\ finished = FilesFound(entered)
  BY DEF TranslatedInit
<1>2. /\ fitems = <<>> /\ dirs = [j \in FileJobs |-> NoDir] /\ runs = <<>>
      /\ copies = [t \in Targets |-> NoResult] /\ creates = {} /\ checks = {}
      /\ requests \in Requests /\ booted = FALSE /\ njobs = 2
  BY DEF TranslatedInit
<1>3. /\ entered \in Seq(Listed) /\ requests \in Seq(Wanted \cup {<<"promote">>}) /\ MaxFileJobs \in Nat
      /\ \A i \in DOMAIN entered :
           Len(entered[i].place) = 2 => entered[i].place = <<entered[i].source, entered[i].language>>
  BY <1>1, <1>2, FileTranslationAssumption
<1>4. /\ DOMAIN index = DOMAIN entered
      /\ \A i \in DOMAIN entered :
           /\ index[i] \in IndexEntry /\ index[i].job = entered[i].job
           /\ index[i].source = entered[i].source /\ index[i].language = entered[i].language
           /\ index[i].place = entered[i].place /\ entered[i].job \in Old
  <2>. DEFINE E(x) == [f \in DOMAIN x \ {"found"} |-> x[f]]
  <2>1. \A x \in Listed : /\ E(x) \in IndexEntry /\ E(x).job = x.job /\ E(x).source = x.source
                          /\ E(x).language = x.language /\ E(x).place = x.place /\ x.job \in Old
    BY EarlierEntry
  <2>2. index = [i \in DOMAIN entered |-> E(entered[i])]
    BY <1>1
  <2>3. \A i \in DOMAIN entered : entered[i] \in Listed
    BY <1>3
  <2>. HIDE DEF E
  <2>. QED
    BY <2>1, <2>2, <2>3
<1>5. index \in Seq(IndexEntry)
  <2>1. DOMAIN entered = 1..Len(entered) /\ Len(entered) \in Nat
    BY <1>3
  <2>2. index = [i \in 1..Len(entered) |-> index[i]]
    BY <1>1, <2>1
  <2>3. \A i \in 1..Len(entered) : index[i] \in IndexEntry
    BY <1>4, <2>1
  <2>. QED
    BY <2>1, <2>2, <2>3
<1>6. finished \in [Sources \X Languages -> Result]
      /\ \A p \in Sources \X Languages : finished[p] # NoResult => IsWhole(finished[p], p[1])
  <2>. DEFINE found(p) == [job |-> 2, lines |-> Len(SourceText[p[1]])]
              here(p) == IF \E i \in DOMAIN entered : entered[i].place = p /\ entered[i].found
                         THEN found(p) ELSE NoResult
  <2>1. finished = [p \in Sources \X Languages |-> here(p)]
    BY <1>1, Zenon DEF FilesFound
  <2>2. NoResult \in Result
    BY DEF NoResult, Result
  <2>3. ASSUME NEW p \in Sources \X Languages PROVE found(p) \in Result /\ IsWhole(found(p), p[1])
    <3>1. p[1] \in Sources
      OBVIOUS
    <3>2. Len(SourceText[p[1]]) \in Nat
      BY <3>1, WholeText
    <3>. QED
      BY <3>2 DEF Result, IsWhole
  <2>4. \A p : here(p) = found(p) \/ here(p) = NoResult
    BY Zenon
  <2>. HIDE DEF here, found
  <2>. QED
    BY <2>1, <2>2, <2>3, <2>4
<1>7. copies \in [Targets -> Result] /\ \A t \in Targets : copies[t] = NoResult
  BY <1>2 DEF NoResult, Result
<1>8. dirs \in [FileJobs -> Directory] /\ \A j \in FileJobs : dirs[j].done = 0
  BY <1>2 DEF NoDir, Directory
<1>9. FilesTyped
  <2>1. njobs \in 2..(2 + MaxFileJobs)
    BY <1>2, <1>3
  <2>2. fitems \in Seq(FileItem)
    BY <1>2
  <2>. QED
    BY <1>2, <1>3, <1>5, <1>6, <1>7, <1>8, <2>1, <2>2 DEF FilesTyped
<1>10. \E wanted : Told(wanted)
  <2>. DEFINE none == [j \in 3..2 |-> <<"file", "none", "none">>]
  <2>1. none \in [3..njobs -> Wanted] /\ DOMAIN none = {}
    BY <1>2
  <2>2. DOMAIN fitems = {} /\ DOMAIN runs = {}
    BY <1>2
  <2>3. \A i \in DOMAIN index : index[i].job \in 1..njobs /\ ~(index[i].job >= 3)
    BY <1>2, <1>4 DEF Old
  <2>. HIDE DEF none
  <2>4. Told(none)
    BY <1>2, <1>8, <2>1, <2>2, <2>3 DEF Told
  <2>. QED
    BY <2>4
<1>11. ResultsAreWhole
  BY <1>6, <1>7 DEF ResultsAreWhole
<1>12. IndexIsSound
  BY <1>2, <1>3, <1>4 DEF IndexIsSound, FileKey
<1>13. ChecksAreSound
  BY <1>2 DEF ChecksAreSound
<1>. QED
  BY <1>9, <1>10, <1>11, <1>12, <1>13 DEF FilesInv

LEMMA FilesStutter == ASSUME FilesInv, UNCHANGED fileVars PROVE FilesInv'
<1>1. PICK wanted : Told(wanted)
  BY DEF FilesInv
<1>2. UNCHANGED <<fitems, dirs, finished, index, runs, copies, creates, checks, requests, booted, njobs>>
  BY DEF fileVars
<1>3. /\ fitems \in Seq(FileItem) /\ checks \subseteq Check /\ (checks # {} => booted)
      /\ \A k \in DOMAIN fitems : Is(wanted, fitems[k])
  BY <1>1 DEF FilesInv, FilesTyped, ChecksAreSound, Told
<1>. QED
  BY <1>1, <1>2, <1>3, QueueKeeps

LEMMA FilesStep == FilesInv /\ [TranslatedNext]_fileVars => FilesInv'
<1>. SUFFICES ASSUME FilesInv, [TranslatedNext]_fileVars PROVE FilesInv'
  OBVIOUS
<1>1. CASE UNCHANGED fileVars
  BY <1>1, FilesStutter
<1>2. ASSUME NEW crashed \in BOOLEAN, StartsUp(crashed) PROVE FilesInv'
  BY <1>2, StartKeeps
<1>3. CASE requests # <<>> /\ Head(requests) # <<"promote">> /\ CreatesJob(NewJob(Head(requests)))
  BY <1>3, CreateKeeps
<1>4. ASSUME NEW new \in creates, WritesRequest(new) PROVE FilesInv'
  BY <1>4, RequestKeeps
<1>5. ASSUME NEW launched \in BOOLEAN, TakesNext(launched) PROVE FilesInv'
  BY <1>5, TakeKeeps
<1>6. ASSUME NEW i \in DOMAIN fitems, WritesOutput(fitems[i]) \/ UpdatesMemory(fitems[i]) PROVE FilesInv'
  BY <1>6, OutputKeeps, MemoryKeeps
<1>7. CASE TranslatorStops
  BY <1>7, StopKeeps
<1>8. ASSUME NEW c \in checks,
             Verdict(c) \/ Settles(c) \/ CopiesResult(c) \/ DropsDirectory(c) \/ Lists(c)
      PROVE  FilesInv'
  BY <1>8, VerdictKeeps, SettleKeeps, CopyKeeps, DropKeeps, ListKeeps
<1>9. ASSUME NEW away \in BOOLEAN, GetsState(away) PROVE FilesInv'
  BY <1>9, GetKeeps
<1>10. ASSUME NEW i \in DOMAIN index, NEW target \in Targets, Promotes(i, target) PROVE FilesInv'
  BY <1>10, PromoteKeeps
<1>. QED
  BY <1>1, <1>2, <1>3, <1>4, <1>5, <1>6, <1>7, <1>8, <1>9, <1>10 DEF TranslatedNext

LEMMA FilesInvHolds == TranslatedSpec => []FilesInv
<1>. QED
  BY FilesInitHolds, FilesStep, PTL DEF TranslatedSpec

LEMMA WholeWhenSound == FilesInv => ListedIsWhole
<1>. SUFFICES ASSUME FilesInv, booted PROVE ListedIsWhole
  BY DEF ListedIsWhole
<1>1. ASSUME NEW i \in DOMAIN index PROVE IsWhole(OutputAt(index[i].place), index[i].source)
  <2>1. /\ index[i] \in IndexEntry /\ index[i].place = FileKey(index[i])
        /\ finished[index[i].place] # NoResult
    BY DEF FilesInv, FilesTyped, IndexIsSound
  <2>2. /\ index[i].place \in Sources \X Languages /\ index[i].place[1] = index[i].source
        /\ IsCompletedPath(index[i].place)
    BY <2>1 DEF IndexEntry, FileKey, IsCompletedPath
  <2>3. OutputAt(index[i].place) = finished[index[i].place]
    BY <2>2, Zenon DEF OutputAt
  <2>. QED
    BY <2>1, <2>2, <2>3 DEF FilesInv, ResultsAreWhole
<1>. QED
  BY <1>1 DEF ListedIsWhole, FilesInv, ResultsAreWhole

(* Whatever polls, Stops, duplicate jobs, restarts and crashes come between *)
(* the writes of a call (finalizeCompletedFileJob, cleanupStartupFileIndex, *)
(* getState), what files/index.json lists can be read and holds every line  *)
(* of its source, and so does what was promoted.                           *)
THEOREM FilesStayWhole == TranslatedSpec => []ListedIsWhole
<1>. QED
  BY FilesInvHolds, WholeWhenSound, PTL

LEMMA SameKey ==
  ASSUME NEW x, NEW y, FileKey(x) = FileKey(y)
  PROVE  x.source = y.source /\ x.language = y.language
<1>1. <<x.source, x.language>> = <<y.source, y.language>>
  BY DEF FileKey
<1>. QED
  BY <1>1

LEMMA KeysStay ==
  ASSUME FilesInv, [TranslatedNext]_fileVars, booted, NEW i \in DOMAIN index
  PROVE  \E n \in DOMAIN index' : FileKey(index'[n]) = FileKey(index[i])
<1>1. ASSUME index' = index PROVE \E n \in DOMAIN index' : FileKey(index'[n]) = FileKey(index[i])
  BY <1>1
<1>2. CASE UNCHANGED fileVars
  BY <1>1, <1>2 DEF fileVars
<1>3. ASSUME NEW crashed \in BOOLEAN, StartsUp(crashed)
      PROVE  \E n \in DOMAIN index' : FileKey(index'[n]) = FileKey(index[i])
  <2>1. index' = Surviving(index)
    BY <1>3 DEF StartsUp
  <2>2. \E k \in DOMAIN Surviving(index) : FileKey(Surviving(index)[k]) = FileKey(index[i])
    BY SurvivingIndex DEF FilesInv
  <2>. QED
    BY <2>1, <2>2
<1>4. CASE requests # <<>> /\ Head(requests) # <<"promote">> /\ CreatesJob(NewJob(Head(requests)))
  BY <1>1, <1>4 DEF CreatesJob
<1>5. ASSUME NEW new \in creates, WritesRequest(new) PROVE index' = index
  BY <1>5 DEF WritesRequest
<1>6. ASSUME NEW launched \in BOOLEAN, TakesNext(launched) PROVE index' = index
  BY <1>6 DEF TakesNext
<1>7. ASSUME NEW k \in DOMAIN fitems, WritesOutput(fitems[k]) \/ UpdatesMemory(fitems[k]) PROVE index' = index
  BY <1>7 DEF WritesOutput, UpdatesMemory
<1>8. CASE TranslatorStops
  BY <1>1, <1>8 DEF TranslatorStops
<1>9. ASSUME NEW c \in checks, Verdict(c) \/ Settles(c) \/ CopiesResult(c) \/ DropsDirectory(c)
      PROVE  index' = index
  BY <1>9 DEF Verdict, Settles, CopiesResult, DropsDirectory
<1>10. ASSUME NEW c \in checks, Lists(c)
       PROVE  \E n \in DOMAIN index' : FileKey(index'[n]) = FileKey(index[i])
  BY <1>10, ListKeeps
<1>11. ASSUME NEW away \in BOOLEAN, GetsState(away)
       PROVE  \E n \in DOMAIN index' : FileKey(index'[n]) = FileKey(index[i])
  BY <1>11, GetKeeps
<1>12. ASSUME NEW k \in DOMAIN index, NEW target \in Targets, Promotes(k, target) PROVE index' = index
  BY <1>12 DEF Promotes
<1>. QED
  BY <1>1, <1>2, <1>3, <1>4, <1>5, <1>6, <1>7, <1>8, <1>9, <1>10, <1>11, <1>12 DEF TranslatedNext

(* A finished translation of a file into a language stays listed until      *)
(* another of the same file and language is: neither saveFileIndex nor a    *)
(* cleanup, at start or while the page is open, drops the last one.         *)
THEOREM FilesStayListed == TranslatedSpec => ResultsStayListed
<1>. DEFINE Stay == booted => \A i \in DOMAIN index : \E n \in DOMAIN index' :
                      index'[n].source = index[i].source /\ index'[n].language = index[i].language
<1>1. FilesInv /\ [TranslatedNext]_fileVars => Stay
  <2>. SUFFICES ASSUME FilesInv, [TranslatedNext]_fileVars, booted, NEW i \in DOMAIN index
                PROVE  \E n \in DOMAIN index' :
                         index'[n].source = index[i].source /\ index'[n].language = index[i].language
    OBVIOUS
  <2>1. PICK n \in DOMAIN index' : FileKey(index'[n]) = FileKey(index[i])
    BY KeysStay
  <2>. QED
    BY <2>1, SameKey
<1>2. FilesInv /\ [TranslatedNext]_fileVars => [Stay]_fileVars
  BY <1>1
<1>. QED
  BY <1>2, FilesInvHolds, PTL DEF TranslatedSpec, ResultsStayListed
=============================================================================
