------------------------------ MODULE BoaProofs --------------------------------
(***************************************************************************)
(* Proofs about the Boa web server, for any number of connections, sizes   *)
(* and failures: no descriptor, no connection and no mapping is lost or    *)
(* released twice, and the server sleeps only when every request has to    *)
(* wait.  First induction, for the two loops inside a step; then what the  *)
(* handlers leave alone and what they open; then the event loop; then the  *)
(* sets that select is asked about, and why a handler wants to wait.  Last *)
(* are lemmas on sequences for BoaAnswers.                                 *)
(***************************************************************************)
EXTENDS Boa, FiniteSetTheorems, SequenceTheorems, WellFoundedInduction, TLAPS

-----------------------------------------------------------------------------
(* Induction on sets of naturals: inclusion of finite sets is well-founded. *)

\* A nonempty set of naturals has a least element.
LEMMA LeastElement ==
    ASSUME NEW S \in SUBSET Nat, S # {}
    PROVE  \E m \in S : \A k \in S : m <= k
  <1> DEFINE T == {1..m : m \in S}
  <1>1. IsWellFoundedOn(StrictSubsetOrdering(Nat), FiniteSubsetsOf(Nat))
    BY FS_StrictSubsetOrderingWellFounded, Zenon
  <1>2. ASSUME NEW t \in T PROVE t \in FiniteSubsetsOf(Nat)
    <2>1. PICK m \in S : t = 1..m
      OBVIOUS
    <2>2. IsFiniteSet(1..m)
      BY FS_Interval
    <2> QED BY <2>1, <2>2 DEF FiniteSubsetsOf
  <1>3. PICK x \in T : \A y \in T : <<y, x>> \notin StrictSubsetOrdering(Nat)
    <2>1. T \subseteq FiniteSubsetsOf(Nat) /\ T # {}
      BY <1>2
    <2> HIDE DEF T
    <2> QED BY <1>1, <2>1, WFMin, Zenon
  <1>4. PICK n \in S : x = 1..n
    OBVIOUS
  <1>5. ASSUME NEW k \in S, k < n PROVE FALSE
    <2>1. 1..k \in T
      OBVIOUS
    <2>2. 1..k \subseteq 1..n /\ 1..k # 1..n
      BY <1>5
    <2>3. <<1..k, x>> \in StrictSubsetOrdering(Nat)
      BY <2>2, <1>4 DEF StrictSubsetOrdering
    <2> QED BY <2>1, <2>3, <1>3
  <1> QED BY <1>5

\* Ordinary induction, as a fact about a set.
LEMMA Induct ==
    ASSUME NEW S, 0 \in S, \A n \in S \cap Nat : n + 1 \in S
    PROVE  Nat \subseteq S
  <1> SUFFICES ASSUME Nat \ S # {} PROVE FALSE
    OBVIOUS
  <1>1. PICK m \in Nat \ S : \A k \in Nat \ S : m <= k
    BY LeastElement
  <1>2. m - 1 \in Nat /\ m - 1 \in S
    BY <1>1
  <1> QED BY <1>1, <1>2

\* read_header's loop: one token after the other.
ScannedBy(w, toks, fault) ==
    \E at : /\ Scanned(w, toks, fault) = at[Len(toks)]
           /\ at[0] = w
           /\ \A k \in 1..Len(toks) : at[k] = Scan(at[k - 1], toks[k], fault)

\* Every list of tokens is read that way.
LEMMA ScannedSteps ==
    ASSUME NEW w, NEW toks, Len(toks) \in Nat, NEW fault
    PROVE  ScannedBy(w, toks, fault)
  <1> SUFFICES \E at : /\ Scanned(w, toks, fault) = at[Len(toks)]
                       /\ at[0] = w
                       /\ \A k \in 1..Len(toks) : at[k] = Scan(at[k - 1], toks[k], fault)
    BY DEF ScannedBy
  <1> DEFINE G(n, g) == g = [k \in 0..n |-> IF k = 0 THEN w ELSE Scan(g[k - 1], toks[k], fault)]
             Good == {n \in Nat : \E g : G(n, g)}
  <1>1. 0 \in Good
    <2>1. G(0, [k \in 0..0 |-> w])
      OBVIOUS
    <2> QED BY <2>1, Zenon
  <1>2. ASSUME NEW n \in Good PROVE n + 1 \in Good
    <2>1. PICK g : G(n, g)
      OBVIOUS
    <2> DEFINE h == [k \in 0..(n + 1) |-> IF k = n + 1 THEN Scan(g[n], toks[k], fault) ELSE g[k]]
    <2>2. ASSUME NEW k \in 0..(n + 1)
          PROVE  h[k] = IF k = 0 THEN w ELSE Scan(h[k - 1], toks[k], fault)
      <3>1. n \in Nat
        OBVIOUS
      <3> QED BY <2>1, <3>1
    <2>3. G(n + 1, h)
      BY <2>2
    <2>4. n + 1 \in Nat
      OBVIOUS
    <2> HIDE DEF h, G
    <2> QED BY <2>3, <2>4
  <1>3. Len(toks) \in Good
    <2> HIDE DEF Good
    <2> QED BY <1>1, <1>2, Induct
  <1> DEFINE at == CHOOSE g : G(Len(toks), g)
  <1>4. G(Len(toks), at)
    <2>1. \E g : G(Len(toks), g)
      BY <1>3
    <2> HIDE DEF G
    <2> QED BY <2>1, Zenon
  <1>5. Scanned(w, toks, fault) = at[Len(toks)]
    BY DEF Scanned
  <1> HIDE DEF at
  <1> WITNESS at
  <1> QED BY <1>4, <1>5

\* The loop of fdset_update: one blocked request after the other.
LEMMA WokenSteps ==
    ASSUME NEW q0, NEW list, Len(list) \in Nat
    PROVE  \E q : /\ Woken(q0, list) = q[Len(list)]
                  /\ q[0] = q0
                  /\ \A k \in 1..Len(list) : q[k] = Wake(q[k - 1], list[k])
  <1> DEFINE G(n, g) == g = [k \in 0..n |-> IF k = 0 THEN q0 ELSE Wake(g[k - 1], list[k])]
             Good == {n \in Nat : \E g : G(n, g)}
  <1>1. 0 \in Good
    <2>1. G(0, [k \in 0..0 |-> q0])
      OBVIOUS
    <2> QED BY <2>1, Zenon
  <1>2. ASSUME NEW n \in Good PROVE n + 1 \in Good
    <2>1. PICK g : G(n, g)
      OBVIOUS
    <2> DEFINE h == [k \in 0..(n + 1) |-> IF k = n + 1 THEN Wake(g[n], list[k]) ELSE g[k]]
    <2>2. ASSUME NEW k \in 0..(n + 1)
          PROVE  h[k] = IF k = 0 THEN q0 ELSE Wake(h[k - 1], list[k])
      <3>1. n \in Nat
        OBVIOUS
      <3> QED BY <2>1, <3>1
    <2>3. G(n + 1, h)
      BY <2>2
    <2>4. n + 1 \in Nat
      OBVIOUS
    <2> HIDE DEF h, G
    <2> QED BY <2>3, <2>4
  <1>3. Len(list) \in Good
    <2> HIDE DEF Good
    <2> QED BY <1>1, <1>2, Induct
  <1> DEFINE q == CHOOSE g : G(Len(list), g)
  <1>4. G(Len(list), q)
    <2>1. \E g : G(Len(list), g)
      BY <1>3
    <2> HIDE DEF G
    <2> QED BY <2>1, Zenon
  <1>5. Woken(q0, list) = q[Len(list)]
    BY DEF Woken
  <1> HIDE DEF q
  <1> WITNESS q
  <1> QED BY <1>4, <1>5

-----------------------------------------------------------------------------
(* The lists of requests *)

\* A list without repetition has as many requests as places.
LEMMA ListCount ==
    ASSUME NEW s \in Seq(Fds), IsInjective(s)
    PROVE  IsFiniteSet(ToSet(s)) /\ Cardinality(ToSet(s)) = Len(s)
  <1>1. s \in Bijection(1..Len(s), ToSet(s))
    BY DEF Bijection, Injection, Surjection, IsInjective, ToSet
  <1>2. ExistsBijection(1..Len(s), ToSet(s)) /\ Len(s) \in Nat
    BY <1>1 DEF ExistsBijection
  <1>3. IsFiniteSet(ToSet(s))
    <2>1. \E n \in Nat : ExistsBijection(1..n, ToSet(s))
      BY <1>2
    <2> QED BY <2>1, FS_NatBijection
  <1> QED BY <1>2, <1>3, FS_CountingElements

\* So do the two lists together, when no request is in both.
LEMMA ListsCount ==
    ASSUME NEW r \in Seq(Fds), NEW b \in Seq(Fds), IsInjective(r), IsInjective(b),
           ToSet(r) \cap ToSet(b) = {}
    PROVE  /\ IsFiniteSet(ToSet(r) \cup ToSet(b))
           /\ Len(r) + Len(b) = Cardinality(ToSet(r) \cup ToSet(b))
  <1>1. /\ IsFiniteSet(ToSet(r)) /\ Cardinality(ToSet(r)) = Len(r)
        /\ IsFiniteSet(ToSet(b)) /\ Cardinality(ToSet(b)) = Len(b)
    BY ListCount
  <1> DEFINE R == ToSet(r)
             B == ToSet(b)
  <1>2. Cardinality({}) = 0
    BY FS_EmptySet
  <1>3. /\ IsFiniteSet(R \cup B)
        /\ Cardinality(R \cup B) = Cardinality(R) + Cardinality(B) - Cardinality(R \cap B)
    <2>1. IsFiniteSet(R) /\ IsFiniteSet(B)
      BY <1>1
    <2> HIDE DEF R, B
    <2> QED BY <2>1, FS_Union, Zenon
  <1>4. Len(r) \in Nat /\ Len(b) \in Nat
    OBVIOUS
  <1>5. R \cap B = {} /\ Cardinality(R) = Len(r) /\ Cardinality(B) = Len(b)
    BY <1>1
  <1> HIDE DEF R, B
  <1>6. Cardinality(R \cup B) = Len(r) + Len(b) - 0
    BY <1>2, <1>3, <1>5, Zenon
  <1>7. Len(r) + Len(b) - 0 = Len(r) + Len(b)
    BY <1>4
  <1> QED BY <1>3, <1>6, <1>7, Zenon DEF R, B

\* enqueue (queue.c:67-85) adds one request.
LEMMA Enqueued ==
    ASSUME NEW s \in Seq(Fds), IsInjective(s), NEW f \in Fds, f \notin ToSet(s)
    PROVE  /\ <<f>> \o s \in Seq(Fds) /\ IsInjective(<<f>> \o s)
           /\ ToSet(<<f>> \o s) = {f} \cup ToSet(s)
  <1>1. /\ <<f>> \o s \in Seq(Fds) /\ Len(<<f>> \o s) = Len(s) + 1
        /\ \A i \in 1..(Len(s) + 1) : (<<f>> \o s)[i] = IF i = 1 THEN f ELSE s[i - 1]
    <2>1. <<f>> \in Seq(Fds) /\ Len(<<f>>) = 1 /\ <<f>>[1] = f /\ Len(s) \in Nat
      OBVIOUS
    <2>2. /\ <<f>> \o s \in Seq(Fds) /\ Len(<<f>> \o s) = Len(<<f>>) + Len(s)
          /\ \A i \in 1..(Len(<<f>>) + Len(s)) :
                (<<f>> \o s)[i] = IF i <= Len(<<f>>) THEN <<f>>[i] ELSE s[i - Len(<<f>>)]
      BY <2>1, ConcatProperties
    <2> QED BY <2>1, <2>2
  <1> DEFINE t == <<f>> \o s
  <1>2. DOMAIN t = 1..(Len(s) + 1) /\ DOMAIN s = 1..Len(s) /\ Len(s) \in Nat
    BY <1>1
  <1> HIDE DEF t
  <1>3. /\ t \in Seq(Fds)
        /\ \A i \in 1..(Len(s) + 1) : t[i] = IF i = 1 THEN f ELSE s[i - 1]
    BY <1>1 DEF t
  <1>4. IsInjective(t)
    <2>1. ASSUME NEW i \in 2..(Len(s) + 1)
          PROVE  t[i] = s[i - 1] /\ i - 1 \in DOMAIN s /\ t[i] # f
      <3>1. t[i] = s[i - 1] /\ i - 1 \in DOMAIN s
        BY <1>2, <1>3
      <3> QED BY <3>1 DEF ToSet
    <2>2. t[1] = f
      BY <1>2, <1>3
    <2> SUFFICES ASSUME NEW a \in 1..(Len(s) + 1), NEW b \in 1..(Len(s) + 1), t[a] = t[b]
                 PROVE  a = b
      BY <1>2, <1>3 DEF IsInjective
    <2>3. CASE a = 1 \/ b = 1
      BY <2>1, <2>2, <2>3, <1>2
    <2>4. CASE a # 1 /\ b # 1
      <3>1. a \in 2..(Len(s) + 1) /\ b \in 2..(Len(s) + 1)
        BY <2>4, <1>2
      <3>2. a - 1 = b - 1
        BY <2>1, <3>1 DEF IsInjective
      <3> QED BY <3>1, <3>2
    <2> QED BY <2>3, <2>4
  <1>5. ToSet(t) = {f} \cup ToSet(s)
    <2>1. ASSUME NEW x \in ToSet(s) PROVE x \in ToSet(t)
      <3>1. PICK i \in 1..Len(s) : s[i] = x
        BY <1>2 DEF ToSet
      <3>2. t[i + 1] = x /\ i + 1 \in DOMAIN t
        BY <1>2, <1>3, <3>1
      <3> QED BY <3>2 DEF ToSet
    <2>2. f \in ToSet(t)
      BY <1>2, <1>3 DEF ToSet
    <2>3. ToSet(t) \subseteq {f} \cup ToSet(s)
      BY <1>2, <1>3 DEF ToSet
    <2> QED BY <2>1, <2>2, <2>3
  <1> QED BY <1>3, <1>4, <1>5 DEF t

\* dequeue (queue.c:102-114) takes out the one it is given, and no other.
LEMMA Dequeued ==
    ASSUME NEW s \in Seq(Fds), IsInjective(s), NEW f \in ToSet(s)
    PROVE  /\ dequeue(s, f) \in Seq(Fds) /\ IsInjective(dequeue(s, f))
           /\ ToSet(dequeue(s, f)) = ToSet(s) \ {f}
  <1> DEFINE i == CHOOSE i \in DOMAIN s : s[i] = f
             t == dequeue(s, f)
  <1>1. i \in 1..Len(s) /\ s[i] = f /\ Len(s) \in Nat /\ DOMAIN s = 1..Len(s)
    BY DEF ToSet
  <1>2. t = SubSeq(s, 1, i - 1) \o SubSeq(s, i + 1, Len(s))
    BY DEF dequeue, RemoveAt
  <1> HIDE DEF i, t
  <1> DEFINE u == SubSeq(s, 1, i - 1)
             v == SubSeq(s, i + 1, Len(s))
  <1>3. u \in Seq(Fds) /\ Len(u) = i - 1 /\ \A k \in 1..(i - 1) : u[k] = s[k]
    <2>1. i - 1 \in Int /\ \A k \in 1..(i - 1) : s[k] \in Fds
      BY <1>1
    <2>2. /\ u \in Seq(Fds) /\ Len(u) = IF 1 <= i - 1 THEN (i - 1) - 1 + 1 ELSE 0
          /\ \A k \in 1..((i - 1) - 1 + 1) : u[k] = s[1 + k - 1]
      BY <2>1, SubSeqProperties
    <2> HIDE DEF u
    <2> QED BY <1>1, <2>2
  <1>4. v \in Seq(Fds) /\ Len(v) = Len(s) - i /\ \A k \in 1..(Len(s) - i) : v[k] = s[i + k]
    <2>1. i + 1 \in Int /\ Len(s) \in Int /\ \A k \in (i + 1)..Len(s) : s[k] \in Fds
      BY <1>1
    <2>2. /\ v \in Seq(Fds) /\ Len(v) = IF i + 1 <= Len(s) THEN Len(s) - (i + 1) + 1 ELSE 0
          /\ \A k \in 1..(Len(s) - (i + 1) + 1) : v[k] = s[(i + 1) + k - 1]
      BY <2>1, SubSeqProperties
    <2> HIDE DEF v
    <2>3. i \in 1..Len(s) /\ Len(s) \in Nat
      BY <1>1
    <2>4. Len(s) - (i + 1) + 1 = Len(s) - i /\ \A k \in 1..(Len(s) - i) : (i + 1) + k - 1 = i + k
      BY <2>3
    <2>5. Len(v) = IF i + 1 <= Len(s) THEN Len(s) - (i + 1) + 1 ELSE 0
      BY <2>2
    <2>6. Len(v) = Len(s) - i
      BY <2>3, <2>5
    <2>7. \A k \in 1..(Len(s) - (i + 1) + 1) : v[k] = s[(i + 1) + k - 1]
      BY <2>2
    <2>8. \A k \in 1..(Len(s) - i) : v[k] = s[i + k]
      BY <2>4, <2>7, Zenon
    <2> QED BY <2>2, <2>6, <2>8
  <1> HIDE DEF u, v
  <1>5. /\ t \in Seq(Fds) /\ DOMAIN t = 1..(Len(s) - 1)
        /\ \A k \in 1..(Len(s) - 1) : t[k] = IF k < i THEN s[k] ELSE s[k + 1]
    <2>1. /\ t \in Seq(Fds) /\ Len(t) = Len(u) + Len(v)
          /\ \A k \in 1..(Len(u) + Len(v)) : t[k] = IF k <= Len(u) THEN u[k] ELSE v[k - Len(u)]
      BY <1>2, <1>3, <1>4, ConcatProperties DEF u, v
    <2>2. DOMAIN t = 1..Len(t)
      BY <2>1
    <2>3. ASSUME NEW k \in 1..(Len(s) - 1) PROVE t[k] = IF k < i THEN s[k] ELSE s[k + 1]
      <3>1. k \in 1..(Len(u) + Len(v))
        <4>1. Len(u) + Len(v) = Len(s) - 1
          BY <1>1, <1>3, <1>4
        <4> QED BY <4>1
      <3>2. t[k] = IF k <= Len(u) THEN u[k] ELSE v[k - Len(u)]
        BY <2>1, <3>1
      <3>3. CASE k < i
        <4>1. k <= Len(u) /\ k \in 1..(i - 1)
          <5>1. Len(u) = i - 1
            BY <1>3
          <5> QED BY <1>1, <3>3, <5>1
        <4> QED BY <1>3, <3>2, <3>3, <4>1
      <3>4. CASE k >= i
        <4>1. k - (i - 1) \in 1..(Len(s) - i) /\ i + (k - (i - 1)) = k + 1
          BY <1>1, <3>4
        <4>2. ~(k <= Len(u)) /\ Len(u) = i - 1 /\ ~(k < i)
          <5>1. Len(u) = i - 1
            BY <1>3
          <5> QED BY <1>1, <3>4, <5>1
        <4> QED BY <1>4, <3>2, <4>1, <4>2
      <3> QED BY <1>1, <3>3, <3>4
    <2> QED BY <1>1, <1>3, <1>4, <2>1, <2>2, <2>3
  <1>6. IsInjective(t)
    <2> SUFFICES ASSUME NEW a \in 1..(Len(s) - 1), NEW b \in 1..(Len(s) - 1), t[a] = t[b]
                 PROVE  a = b
      BY <1>5 DEF IsInjective
    <2> DEFINE a1 == IF a < i THEN a ELSE a + 1
               b1 == IF b < i THEN b ELSE b + 1
    <2>1. a1 \in DOMAIN s /\ b1 \in DOMAIN s /\ t[a] = s[a1] /\ t[b] = s[b1]
      BY <1>1, <1>5
    <2>2. a1 = b1
      <3> HIDE DEF a1, b1
      <3> QED BY <2>1 DEF IsInjective
    <2> QED BY <1>1, <2>2
  <1>7. ASSUME NEW x \in ToSet(t) PROVE x \in ToSet(s) \ {f}
    <2>1. PICK k \in 1..(Len(s) - 1) : t[k] = x
      BY <1>5, <1>7 DEF ToSet
    <2> DEFINE j == IF k < i THEN k ELSE k + 1
    <2>2. j \in 1..Len(s) /\ x = s[j] /\ j # i
      BY <1>1, <1>5, <2>1
    <2> HIDE DEF j
    <2> QED BY <1>1, <2>2 DEF ToSet, IsInjective
  <1>8. ASSUME NEW x \in ToSet(s) \ {f} PROVE x \in ToSet(t)
    <2>1. PICK j \in 1..Len(s) : x = s[j]
      BY <1>1 DEF ToSet
    <2>2. j # i
      BY <1>1, <2>1
    <2>3. PICK k \in 1..(Len(s) - 1) : t[k] = x
      <3>1. CASE j < i
        BY <1>1, <1>5, <2>1, <3>1
      <3>2. CASE j > i
        <4>1. j - 1 \in 1..(Len(s) - 1) /\ t[j - 1] = x
          BY <1>1, <1>5, <2>1, <3>2
        <4> QED BY <4>1
      <3> QED BY <1>1, <2>2, <3>1, <3>2
    <2> QED BY <1>5, <2>3 DEF ToSet
  <1>9. ToSet(t) = ToSet(s) \ {f}
    BY <1>7, <1>8
  <1> QED BY <1>5, <1>6, <1>9 DEF t

\* The rest of the ready requests, without the one at hand.
LEMMA TailOnce ==
    ASSUME NEW s \in Seq(Fds), IsInjective(s), s # <<>>
    PROVE  /\ Head(s) \in Fds /\ Head(s) \in ToSet(s)
           /\ Tail(s) \in Seq(Fds) /\ IsInjective(Tail(s))
           /\ ToSet(Tail(s)) \subseteq ToSet(s) \ {Head(s)}
  <1>1. /\ Head(s) = s[1] /\ 1 \in DOMAIN s /\ DOMAIN s = 1..Len(s) /\ Len(s) \in Nat
        /\ Tail(s) \in Seq(Fds) /\ DOMAIN Tail(s) = 1..(Len(s) - 1)
        /\ \A k \in 1..(Len(s) - 1) : Tail(s)[k] = s[k + 1]
    OBVIOUS
  <1>2. ASSUME NEW k \in 1..(Len(s) - 1) PROVE k + 1 \in DOMAIN s /\ s[k + 1] # s[1]
    BY <1>1 DEF IsInjective
  <1> QED BY <1>1, <1>2 DEF IsInjective, ToSet

-----------------------------------------------------------------------------
(* What a handler does to a request and to what it can reach.  Near: no     *)
(* descriptor and no mapping changes hands.  Like: nor the method, and the  *)
(* status is what it was, or a later one than those of a request being read. *)

Bare(r) == r.data_fd = -1 /\ r.mmap = -1 /\ r.status \notin Pipes

SameHold(q, r) ==
    /\ DOMAIN r = DOMAIN q
    /\ r.data_fd = q.data_fd /\ r.post_data_fd = q.post_data_fd /\ r.mmap = q.mmap

\* What a request has read, and what it has announced.
Told(q, r) ==
    /\ r.stream = q.stream /\ r.parse_pos = q.parse_pos /\ r.line = q.line
    /\ r.clen = q.clen /\ (q.temp = <<>> => r.temp = <<>>)
    /\ r.keepalive = "active" => q.keepalive = "active"

Kin(q, r) ==
    /\ SameHold(q, r) /\ Told(q, r)
    /\ r.method = q.method
    /\ r.status = q.status \/ r.status \notin Early
    /\ r.status \in Pipes => q.status \in Pipes
    /\ RequestTyped(q) => RequestTyped(r)

HasParts(w) ==
    /\ {"mm", "n", "open", "r", "ret", "src", "used"} \subseteq DOMAIN w
    /\ HasFields(w.r) /\ {"inq", "more"} \subseteq DOMAIN w.n

SameTables(v, w) ==
    /\ DOMAIN w = DOMAIN v /\ w.open = v.open /\ w.mm = v.mm /\ w.used = v.used
    /\ Fed(v.src) => Fed(w.src)

Near(v, w) ==
    /\ SameTables(v, w) /\ SameHold(v.r, w.r)
    /\ w.r.status \in Pipes => v.r.status \in Pipes
    /\ RequestTyped(v.r) => RequestTyped(w.r)
    /\ DOMAIN w.n = DOMAIN v.n /\ (NetTyped(v.n) => NetTyped(w.n))
Like(v, w) ==
    /\ SameTables(v, w) /\ Kin(v.r, w.r)
    /\ DOMAIN w.n = DOMAIN v.n /\ w.n.inq = v.n.inq /\ w.n.more = v.n.more
    /\ NetTyped(v.n) => NetTyped(w.n)

\* One change of a request after another.
LEMMA KinTrans ==
    ASSUME NEW q, NEW r, NEW s, Kin(q, r), Kin(r, s)
    PROVE  Kin(q, s)
  BY DEF Kin, SameHold, Told

\* One step of a handler after another.
LEMMA LikeTrans ==
    ASSUME NEW u, NEW v, NEW w, Like(u, v), Like(v, w)
    PROVE  Like(u, w)
  <1>1. Kin(u.r, w.r)
    BY KinTrans DEF Like
  <1> QED BY <1>1 DEF Like, SameTables

\* A handler keeps the fields of a request.
LEMMA KinHas ==
    ASSUME NEW q, NEW r, HasFields(q), Kin(q, r)
    PROVE  HasFields(r)
  BY DEF Kin, SameHold, Told, HasFields, RequestTyped

\* A handler keeps what it works on.
LEMMA LikeHas ==
    ASSUME NEW v, NEW w, HasParts(v), Like(v, w)
    PROVE  HasParts(w)
  BY KinHas DEF Like, HasParts, SameTables, NetTyped

\* A request with other words about its answer, or another status.
LEMMA Worded ==
    ASSUME NEW r, HasFields(r)
    PROVE  /\ Kin(r, r)
           /\ Kin(r, SQUASH_KA(r))
           /\ \A x : Kin(r, [r EXCEPT !.response_status = x])
           /\ \A x : Kin(r, [r EXCEPT !.buf = x])
           /\ \A x : x \notin Early \cup Pipes => Kin(r, [r EXCEPT !.status = x])
  <1>1. Kin(r, r)
    BY DEF Kin, SameHold, Told
  <1>2. Kin(r, SQUASH_KA(r))
    BY DEF Kin, SameHold, Told, HasFields, SQUASH_KA, RequestTyped
  <1>3. \A x : Kin(r, [r EXCEPT !.response_status = x])
    BY DEF Kin, SameHold, Told, HasFields, RequestTyped
  <1>4. \A x : Kin(r, [r EXCEPT !.buf = x])
    BY DEF Kin, SameHold, Told, HasFields, RequestTyped
  <1>5. \A x : x \notin Early \cup Pipes => Kin(r, [r EXCEPT !.status = x])
    BY DEF Kin, SameHold, Told, HasFields, RequestTyped
  <1> QED BY <1>1, <1>2, <1>3, <1>4, <1>5

\* The statuses a request has once it is read.
LEMMA LateStatus ==
    /\ "DEAD" \notin Early /\ "DONE" \notin Early /\ "WRITE" \notin Early
    /\ Early \cap Pipes = {} /\ "PIPE_READ" \in Pipes /\ "PIPE_WRITE" \in Pipes
    /\ "PIPE_READ" \notin Early /\ "PIPE_WRITE" \notin Early
    /\ "DEAD" \notin Pipes /\ "DONE" \notin Pipes /\ "WRITE" \notin Pipes
  BY DEF Early, Headers, Pipes

\* The statuses it has while it is read.
LEMMA EarlyHeaders ==
    /\ Headers \subseteq Early /\ "BODY_READ" \in Early /\ "BODY_WRITE" \in Early
    /\ "BODY_READ" \notin Pipes /\ "BODY_WRITE" \notin Pipes /\ \A x \in Early : x \notin Pipes
  BY DEF Early, Headers, Pipes

\* req_write only fills the buffer.
LEMMA Written ==
    ASSUME NEW r, HasFields(r), NEW toks
    PROVE  Kin(r, req_write(r, toks))
  BY Worded, LateStatus, Zenon DEF req_write

\* The headers and pages of response.c only fill the buffer.
LEMMA HeaderPrinted ==
    ASSUME NEW r, HasFields(r)
    PROVE  Kin(r, print_http_headers(r)) /\ Kin(r, WithPage(r)) /\ Kin(r, send_r_request_ok(r))
  <1>1. \A q : HasFields(q) => Kin(q, print_http_headers(q))
    BY Written, Worded, Zenon DEF print_http_headers
  <1>2. Kin(r, WithPage(r))
    BY Written, Worded, Zenon DEF WithPage
  <1>3. Kin(r, send_r_request_ok(r))
    <2> DEFINE q == [r EXCEPT !.response_status = 200]
    <2>1. Kin(r, q) /\ HasFields(q)
      BY Worded, KinHas
    <2> HIDE DEF q
    <2> QED BY <1>1, <2>1, KinTrans DEF send_r_request_ok, q
  <1> QED BY <1>1, <1>2, <1>3

\* What the request is after a write to its socket; w need not have the tables.
LEMMA FlushedRequest ==
    ASSUME NEW w, "r" \in DOMAIN w, HasFields(w.r)
    PROVE  Kin(w.r, req_flush(w).r) /\ DOMAIN req_flush(w) = DOMAIN w
  <1> DEFINE r == w.r
             k == Least(Len(r.buf) - r.start, w.n.room)
             got == r.got \o Take(Drop(r.buf, r.start), k)
             r1 == IF r.start + k = Len(r.buf)
                   THEN [r EXCEPT !.buf = <<>>, !.start = 0, !.got = got]
                   ELSE [r EXCEPT !.start = r.start + k, !.got = got]
             r2 == [r EXCEPT !.buf = <<>>, !.start = 0, !.status = "DEAD"]
  <1>1. Kin(r, r1) /\ Kin(r, r2) /\ Kin(r, r)
    <2> HIDE DEF k, got
    <2> QED BY LateStatus DEF Kin, SameHold, Told, HasFields, RequestTyped
  <1>2. \/ req_flush(w) = [w EXCEPT !.ret = -2]
        \/ req_flush(w) = [w EXCEPT !.r = r2, !.ret = -2]
        \/ req_flush(w) = [w EXCEPT !.ret = -1]
        \/ req_flush(w) = [w EXCEPT !.r = r1, !.n.room = @ - k, !.ret = Len(r1.buf)]
    BY Zenon DEF req_flush
  <1> HIDE DEF r1, r2, k
  <1> QED BY <1>1, <1>2

\* req_flush opens and closes nothing.
LEMMA Flushed ==
    ASSUME NEW w, HasParts(w)
    PROVE  Like(w, req_flush(w))
  <1>1. Kin(w.r, req_flush(w).r) /\ DOMAIN req_flush(w) = DOMAIN w
    BY FlushedRequest DEF HasParts
  <1>2. SameTables(w, req_flush(w))
    BY <1>1 DEF req_flush, HasParts, SameTables
  <1>3. /\ DOMAIN req_flush(w).n = DOMAIN w.n /\ (NetTyped(w.n) => NetTyped(req_flush(w).n))
        /\ req_flush(w).n.inq = w.n.inq /\ req_flush(w).n.more = w.n.more
    BY DEF req_flush, HasParts, NetTyped
  <1> QED BY <1>1, <1>2, <1>3 DEF Like

\* A write that would block leaves the buffer as it was.
LEMMA FlushWaits ==
    ASSUME NEW w, HasParts(w), req_flush(w).ret = -1
    PROVE  req_flush(w).r.buf = w.r.buf
  <1> DEFINE r == w.r
             k == Least(Len(r.buf) - r.start, w.n.room)
             got == r.got \o Take(Drop(r.buf, r.start), k)
             all == [r EXCEPT !.buf = <<>>, !.start = 0, !.got = got]
             part == [r EXCEPT !.start = r.start + k, !.got = got]
             dead == [w EXCEPT !.r = [r EXCEPT !.buf = <<>>, !.start = 0, !.status = "DEAD"],
                               !.ret = -2]
             room == w.n.room - k
             a == [w EXCEPT !.r = all, !.n.room = room, !.ret = Len(all.buf)]
             b == [w EXCEPT !.r = part, !.n.room = room, !.ret = Len(part.buf)]
             gone == [w EXCEPT !.ret = -2]
             waits == [w EXCEPT !.ret = -1]
  <1>1. req_flush(w) \in {gone, dead, waits, a, b}
    <2>1. CASE r.start + k = Len(r.buf)
      BY <2>1, Zenon DEF req_flush
    <2>2. CASE r.start + k # Len(r.buf)
      BY <2>2, Zenon DEF req_flush
    <2> QED BY <2>1, <2>2
  <1>2. "r" \in DOMAIN w /\ "ret" \in DOMAIN w /\ "buf" \in DOMAIN r
    BY DEF HasParts, HasFields
  <1> HIDE DEF k, room, got
  <1>3. all.buf = <<>> /\ part.buf = r.buf
    BY <1>2
  <1> HIDE DEF all, part
  <1>4. /\ gone.ret = -2 /\ dead.ret = -2 /\ waits.r = r
        /\ a.ret = Len(<<>>) /\ b.r = part
    BY <1>2, <1>3
  <1>5. a.ret # -1 /\ b.r.buf = r.buf
    BY <1>3, <1>4
  <1> HIDE DEF gone, dead, waits, a, b
  <1> QED BY <1>1, <1>4, <1>5

\* A request whose request structure is replaced by one of its kin.
LEMMA Replaced ==
    ASSUME NEW w, HasParts(w), NEW r, Kin(w.r, r)
    PROVE  Like(w, [w EXCEPT !.r = r]) /\ \A x : Like(w, [w EXCEPT !.r = r, !.ret = x])
  BY DEF Like, SameTables, HasParts, NetTyped

\* A return value is no part of what is kept.
LEMMA Returned ==
    ASSUME NEW w, HasParts(w), NEW x
    PROVE  Like(w, [w EXCEPT !.ret = x]) /\ [w EXCEPT !.ret = x].ret = x
  BY DEF Like, SameTables, HasParts, Kin, SameHold, Told, RequestTyped, NetTyped

\* An answer that ends the connection.
LEMMA Squashed ==
    ASSUME NEW r, HasFields(r), NEW code
    PROVE  LET q == [SQUASH_KA(r) EXCEPT !.response_status = code] IN
           Kin(r, q) /\ HasFields(q)
  <1> DEFINE q1 == SQUASH_KA(r)
             q == [q1 EXCEPT !.response_status = code]
  <1>1. Kin(r, q1)
    BY Worded
  <1>2. HasFields(q1)
    BY <1>1, KinHas
  <1> HIDE DEF q1
  <1>3. Kin(q1, q)
    BY <1>2, Worded
  <1> HIDE DEF q
  <1>4. Kin(r, q) /\ HasFields(q)
    BY <1>1, <1>2, <1>3, KinTrans, KinHas
  <1> QED BY <1>4 DEF q, q1

\* A page that send_r_... answers with.
LEMMA Sent ==
    ASSUME NEW w, HasParts(w), NEW code
    PROVE  Like(w, send_r(w, code))
  <1> DEFINE q1 == SQUASH_KA(w.r)
             q2 == [q1 EXCEPT !.response_status = code]
             q3 == print_http_headers(q2)
             q4 == WithPage(q3)
             v == [w EXCEPT !.r = q4]
  <1>1. HasFields(w.r)
    BY DEF HasParts
  <1>2. Kin(w.r, q2) /\ HasFields(q2)
    BY <1>1, Squashed, Zenon
  <1>3. Kin(w.r, q4)
    <2> HIDE DEF q2
    <2>1. Kin(w.r, q3) /\ HasFields(q3)
      BY <1>2, HeaderPrinted, KinTrans, KinHas
    <2> HIDE DEF q3
    <2> QED BY <2>1, HeaderPrinted, KinTrans
  <1>4. send_r(w, code) = req_flush(v)
    BY Zenon DEF send_r
  <1> HIDE DEF q4
  <1>5. Like(w, v)
    BY <1>3, Replaced
  <1> HIDE DEF v
  <1> QED BY <1>4, <1>5, LikeHas, LikeTrans, Flushed

\* A handler that answers with a page and ends.
LEMMA Refused ==
    ASSUME NEW w, HasParts(w), NEW code
    PROVE  Like(w, Refuse(w, code)) /\ Refuse(w, code).ret = 0
  BY Sent, LikeHas, LikeTrans, Returned, Zenon DEF Refuse

\* A handler that stops because the client has gone.
LEMMA GivenUp ==
    ASSUME NEW w, HasParts(w)
    PROVE  Like(w, GiveUp(w)) /\ GiveUp(w).ret = 0
  BY Returned DEF GiveUp

\* The answer 304.
LEMMA NotModified ==
    ASSUME NEW w, HasParts(w)
    PROVE  Like(w, send_r_not_modified(w))
  <1> DEFINE q1 == SQUASH_KA(w.r)
             q2 == [q1 EXCEPT !.response_status = 304]
             q3 == req_write(q2, <<Tok(KaPhrase(q2), 304)>>)
             v == [w EXCEPT !.r = q3]
  <1>1. HasFields(w.r)
    BY DEF HasParts
  <1>2. Kin(w.r, q2) /\ HasFields(q2)
    BY <1>1, Squashed, Zenon
  <1>3. Kin(w.r, q3)
    <2> HIDE DEF q2
    <2> QED BY <1>2, Written, KinTrans
  <1>4. send_r_not_modified(w) = req_flush(v)
    BY Zenon DEF send_r_not_modified
  <1> HIDE DEF q3
  <1>5. Like(w, v)
    BY <1>3, Replaced
  <1> HIDE DEF v
  <1> QED BY <1>4, <1>5, LikeHas, LikeTrans, Flushed

\* The handlers that write a document or the output of a CGI program.
LEMMA GetLike ==
    ASSUME NEW w, HasParts(w), w.r.status \notin Early, NEW fault
    PROVE  Like(w, process_get(w, fault))
  <1> DEFINE r == w.r
             k == Least(Least(r.filesize - r.filepos, SOCKETBUF_SIZE), w.n.room)
             dead == [w EXCEPT !.r.status = "DEAD"]
             got == r.got \o Data(r.filepos + 1, r.filepos + k)
             back == IF r.filepos + k = r.filesize THEN 0 ELSE 1
             on == [w EXCEPT !.r.filepos = @ + k, !.r.got = got, !.n.room = @ - k, !.ret = back]
  <1>1. process_get(w, fault) \in {GiveUp(dead), [w EXCEPT !.ret = -1], on}
    BY DEF process_get
  <1>2. Like(w, dead) /\ HasParts(dead)
    <2>1. Like(w, dead)
      BY LateStatus DEF Like, SameTables, HasParts, HasFields, Kin, SameHold, Told, RequestTyped, NetTyped
    <2> QED BY <2>1, LikeHas
  <1>3. Like(w, on)
    <2> HIDE DEF got, k, back
    <2> QED BY DEF Like, SameTables, HasParts, HasFields, Kin, SameHold, Told, RequestTyped, NetTyped
  <1> HIDE DEF dead, on
  <1>4. Like(w, GiveUp(dead))
    BY <1>2, GivenUp, LikeTrans
  <1> QED BY <1>1, <1>3, <1>4, Returned

\* process_cgi_header opens and closes nothing, whatever the program printed.
LEMMA HeaderLike ==
    ASSUME NEW w0, HasParts(w0), w0.r.status \notin Early
    PROVE  Like(w0, process_cgi_header(w0))
  <1> DEFINE w == [w0 EXCEPT !.r.cgi_status = IF @ = "DONE" THEN @ ELSE "BUFFER"]
             r == w.r
             h == IF r.data = <<>> THEN "none" ELSE Head(r.data).t
             ok == send_r_request_ok(r)
             merged == IF r.method = "HEAD" THEN <<Head(r.data)>> ELSE r.data
             done == IF r.method = "HEAD" THEN "DONE" ELSE r.cgi_status
             simple == [w EXCEPT !.r.data = Tail(@), !.r.off = @ + 1, !.ret = 1]
             sent == send_r(w, IF h = "path" THEN 400 ELSE 302)
             gone == [sent EXCEPT !.r.status = "DONE", !.ret = 1]
             full == [w EXCEPT !.r = [ok EXCEPT !.buf = <<>>, !.start = 0, !.cgi_status = done]]
             both == [w EXCEPT !.r = [ok EXCEPT !.buf = @ \o merged, !.off = Len(ok.buf \o merged),
                                                !.data = <<>>, !.cgi_status = done]]
             out == req_flush(both)
             last == [out EXCEPT !.ret = IF r.method = "HEAD" THEN 0 ELSE 1]
  <1>1. process_cgi_header(w0)
          \in {Refuse(w, 502), simple, [w EXCEPT !.ret = 1], gone, Refuse(full, 500), last}
    BY DEF process_cgi_header
  <1>2. Like(w0, w) /\ HasParts(w) /\ w.r.status \notin Early
    <2>1. Like(w0, w) /\ w.r.status = w0.r.status
      BY DEF Like, SameTables, HasParts, HasFields, Kin, SameHold, Told, RequestTyped, NetTyped
    <2> QED BY <2>1, LikeHas
  <1>3. Like(w, simple)
    <2> HIDE DEF w
    <2> QED BY <1>2 DEF Like, SameTables, HasParts, HasFields, Kin, SameHold, Told, RequestTyped, NetTyped
  <1> HIDE DEF w
  <1>4. Like(w, gone)
    <2>1. Like(w, sent) /\ HasParts(sent)
      BY <1>2, Sent, LikeHas
    <2> HIDE DEF sent
    <2>2. Like(sent, gone)
      BY <2>1, LateStatus DEF Like, SameTables, HasParts, HasFields, Kin, SameHold, Told, RequestTyped, NetTyped
    <2> QED BY <2>1, <2>2, LikeTrans
  <1>5. Kin(w.r, ok) /\ HasFields(ok)
    BY <1>2, HeaderPrinted, KinHas DEF HasParts
  <1>6. Like(w, full) /\ Like(w, both)
    <2> HIDE DEF ok, done, merged
    <2> QED BY <1>2, <1>5 DEF Like, SameTables, HasParts, HasFields, Kin, SameHold, Told, RequestTyped, NetTyped
  <1> HIDE DEF full, both
  <1>7. Like(w, Refuse(full, 500))
    BY <1>2, <1>6, LikeHas, LikeTrans, Refused
  <1>8. Like(w, out) /\ HasParts(out)
    BY <1>2, <1>6, LikeHas, LikeTrans, Flushed
  <1> HIDE DEF out
  <1>9. Like(w, last)
    BY <1>8, Returned, LikeTrans
  <1>10. Like(w, Refuse(w, 502)) /\ Like(w, [w EXCEPT !.ret = 1])
    BY <1>2, Refused, Returned
  <1> HIDE DEF simple, gone, last
  <1>11. Like(w, process_cgi_header(w0))
    BY <1>1, <1>3, <1>4, <1>7, <1>9, <1>10
  <1> QED BY <1>2, <1>11, LikeTrans

\* read_from_pipe opens and closes nothing.
LEMMA PipeReadLike ==
    ASSUME NEW w, HasParts(w), w.r.status \in Pipes
    PROVE  Like(w, read_from_pipe(w))
  <1> DEFINE r == w.r
             s == w.src[r.data_fd]
             k == Least(BUFFER_SIZE - (r.off + Len(r.data)), Len(s.pipe))
             last == [w EXCEPT !.r.status = "PIPE_WRITE", !.r.cgi_status = "DONE"]
             buffer == [w EXCEPT !.r.cgi_status = "BUFFER"]
             write == [w EXCEPT !.r.status = "PIPE_WRITE", !.ret = 1]
             on == [w EXCEPT !.r.data = @ \o Take(s.pipe, k),
                             !.src[r.data_fd].pipe = Drop(@, k), !.ret = 1]
  <1>6. Fed(w.src) => Fed(on.src)
    <2>1. on.src = [w.src EXCEPT ![r.data_fd].pipe = Drop(@, k)]
      <3> HIDE DEF k
      <3> QED BY DEF HasParts
    <2> HIDE DEF on, k, r
    <2> QED BY <2>1 DEF Fed
  <1>1. read_from_pipe(w)
          \in {process_cgi_header(buffer), write, on, [w EXCEPT !.ret = -1],
               process_cgi_header(last), [last EXCEPT !.ret = 1]}
    BY Zenon DEF read_from_pipe
  <1>2. /\ Like(w, last) /\ Like(w, buffer) /\ Like(w, write)
        /\ last.r.status \notin Early /\ buffer.r.status \notin Early
    <2>1. w.r.status \notin Early /\ "PIPE_WRITE" \notin Early
      BY LateStatus
    <2>2. Like(w, last)
      BY <2>1 DEF Like, SameTables, HasParts, HasFields, Kin, SameHold, Told, RequestTyped, NetTyped
    <2>3. Like(w, buffer)
      BY <2>1 DEF Like, SameTables, HasParts, HasFields, Kin, SameHold, Told, RequestTyped, NetTyped
    <2>4. Like(w, write)
      BY <2>1 DEF Like, SameTables, HasParts, HasFields, Kin, SameHold, Told, RequestTyped, NetTyped
    <2> QED BY <2>1, <2>2, <2>3, <2>4 DEF HasParts, HasFields
  <1>3. Like(w, on)
    <2>1. w.r.status \notin Early
      BY LateStatus
    <2> HIDE DEF k, s
    <2> QED BY <1>6, <2>1 DEF Like, SameTables, HasParts, HasFields, Kin, SameHold, Told, RequestTyped, NetTyped
  <1> HIDE DEF last, buffer, write, on
  <1>4. Like(w, process_cgi_header(buffer)) /\ Like(w, process_cgi_header(last))
    BY <1>2, LikeHas, LikeTrans, HeaderLike
  <1>5. Like(w, [last EXCEPT !.ret = 1]) /\ Like(w, [w EXCEPT !.ret = -1])
    BY <1>2, LikeHas, LikeTrans, Returned
  <1> QED BY <1>1, <1>2, <1>3, <1>4, <1>5

\* write_from_pipe opens and closes nothing.
LEMMA PipeWriteLike ==
    ASSUME NEW w, HasParts(w), w.r.status \in Pipes
    PROVE  Like(w, write_from_pipe(w))
  <1> DEFINE r == w.r
             k == Least(Len(r.data), w.n.room)
             dead == [w EXCEPT !.r.status = "DEAD"]
             read == [w EXCEPT !.r.status = "PIPE_READ", !.r.off = 0, !.ret = 1]
             on == [w EXCEPT !.r.data = Drop(@, k), !.r.off = @ + k, !.r.filepos = @ + k,
                             !.r.got = @ \o Take(r.data, k), !.n.room = @ - k, !.ret = 1]
  <1>1. write_from_pipe(w)
          \in {GiveUp(w), read, Refuse(dead, 500), [w EXCEPT !.ret = -1], on}
    BY Zenon DEF write_from_pipe
  <1>2. Like(w, dead) /\ Like(w, read)
    <2>1. w.r.status \notin Early /\ "PIPE_READ" \notin Early /\ "DEAD" \notin Early \cup Pipes
      BY LateStatus
    <2>2. Like(w, dead)
      BY <2>1 DEF Like, SameTables, HasParts, HasFields, Kin, SameHold, Told, RequestTyped, NetTyped
    <2>3. Like(w, read)
      BY <2>1 DEF Like, SameTables, HasParts, HasFields, Kin, SameHold, Told, RequestTyped, NetTyped
    <2> QED BY <2>2, <2>3
  <1>3. Like(w, on)
    <2>1. w.r.status \notin Early
      BY LateStatus
    <2> HIDE DEF k
    <2> QED BY <2>1 DEF Like, SameTables, HasParts, HasFields, Kin, SameHold, Told, RequestTyped, NetTyped
  <1> HIDE DEF dead, read, on
  <1>4. Like(w, Refuse(dead, 500))
    BY <1>2, LikeHas, LikeTrans, Refused
  <1> QED BY <1>1, <1>2, <1>3, <1>4, GivenUp, Returned

-----------------------------------------------------------------------------
(* Tells: a step of a handler that leaves alone what its request has read   *)
(* and announced, and what waits for it; no program is started with less    *)
(* than a whole body.                                                       *)

Tells(v, w) ==
    /\ Told(v.r, w.r) /\ w.n.inq = v.n.inq /\ w.n.more = v.n.more
    /\ Fed(v.src) => Fed(w.src)
    /\ v.r.status \notin Early => w.r.status \notin Early

\* A handler that opens and closes nothing is one.
LEMMA LikeTells ==
    ASSUME NEW v, NEW w, Like(v, w)
    PROVE  Tells(v, w)
  BY DEF Like, SameTables, Kin, Tells

\* One step after another.
LEMMA TellsTrans ==
    ASSUME NEW u, NEW v, NEW w, Tells(u, v), Tells(v, w)
    PROVE  Tells(u, w)
  BY DEF Tells, Told

\* A new source.
LEMMA FedSet ==
    ASSUME NEW s, Fed(s), NEW fd, NEW e, {"clen", "stdin"} \subseteq DOMAIN e,
           e.clen > 0 => e.stdin = Bodies(e.clen)
    PROVE  Fed([s EXCEPT ![fd] = e])
  BY DEF Fed

\* After an answer with a page the connection is not kept.
LEMMA SentStops ==
    ASSUME NEW w, HasParts(w), NEW code
    PROVE  send_r(w, code).r.keepalive # "active" /\ Refuse(w, code).r.keepalive # "active"
  <1> DEFINE q1 == SQUASH_KA(w.r)
             q2 == [q1 EXCEPT !.response_status = code]
             q3 == print_http_headers(q2)
             q4 == WithPage(q3)
             v == [w EXCEPT !.r = q4]
             f == send_r(w, code)
  <1>1. HasFields(w.r)
    BY DEF HasParts
  <1>2. Kin(w.r, q1) /\ HasFields(q1) /\ q1.keepalive # "active"
    <2>1. Kin(w.r, q1)
      BY <1>1, Worded
    <2> QED BY <1>1, <2>1, KinHas DEF SQUASH_KA, HasFields
  <1>7. Kin(w.r, q2)
    BY <1>1, Squashed, Zenon
  <1>3. Kin(q1, q2) /\ HasFields(q2)
    <2> HIDE DEF q1
    <2> QED BY <1>2, Worded, KinHas
  <1>4. Kin(q1, q4) /\ Kin(w.r, q4)
    <2> HIDE DEF q2, q1
    <2>1. Kin(q2, q3) /\ HasFields(q3)
      BY <1>3, HeaderPrinted, KinHas
    <2> HIDE DEF q3
    <2>2. Kin(q3, q4)
      BY <2>1, HeaderPrinted
    <2> QED BY <1>3, <1>7, <2>1, <2>2, KinTrans
  <1>5. f = req_flush(v)
    BY Zenon DEF send_r
  <1>6. Like(w, v) /\ HasParts(v) /\ v.r = q4
    <2> HIDE DEF q4
    <2>1. Like(w, v)
      BY <1>4, Replaced
    <2> QED BY <2>1, LikeHas DEF HasParts
  <1> HIDE DEF v, q4, q1, f
  <1>8. Like(v, f)
    BY <1>5, <1>6, Flushed
  <1>9. f.r.keepalive # "active" /\ HasParts(f)
    <2>1. f.r.keepalive = "active" => q1.keepalive = "active"
      BY <1>4, <1>6, <1>8 DEF Like, Kin, Told
    <2> QED BY <1>2, <1>6, <1>8, <2>1, LikeHas
  <1>10. Refuse(w, code).r = f.r
    BY <1>9 DEF Refuse, f, HasParts
  <1> QED BY <1>9, <1>10 DEF f

\* A program that is started for a POST is given the body that has been saved.
LEMMA CgiTells ==
    ASSUME NEW w, HasParts(w), NEW fault,
           w.r.method = "POST" /\ w.r.filesize > 0 => w.r.temp = Bodies(w.r.filesize)
    PROVE  LET v == init_cgi(w, fault) IN
           /\ Tells(w, v) /\ v.r.keepalive # "active" /\ v.ret \in {0, 1}
           /\ v.ret # 0 => v.r.status \notin Early
  <1> DEFINE r == SQUASH_KA(w.r)
             u == [w EXCEPT !.r = r]
             fd == LowestFree(w.open)
             now == [f \in AllFds |-> IF f = fd THEN "pipe"
                                      ELSE IF f = r.post_data_fd THEN "free" ELSE w.open[f]]
             first == IF r.is_cgi = "CGI" THEN "PARSE" ELSE "BUFFER"
             half == IF r.is_cgi = "CGI" THEN BUFFER_SIZE \div 2 ELSE 0
             q == [r EXCEPT !.post_data_fd = -1, !.data_fd = fd, !.status = "PIPE_READ",
                            !.cgi_status = first, !.off = half, !.data = <<>>, !.filepos = 0]
             child == Child(r)
             on == [w EXCEPT !.open = now, !.src[fd] = child, !.r = q, !.ret = 1]
             v == init_cgi(w, fault)
  <1>1. v \in {GiveUp(u), Refuse(u, 500), on}
    BY Zenon DEF init_cgi
  <1>2. HasFields(w.r) /\ Kin(w.r, r) /\ HasFields(r) /\ r.keepalive # "active"
        /\ r.method = w.r.method /\ r.filesize = w.r.filesize /\ r.temp = w.r.temp
    <2>1. HasFields(w.r)
      BY DEF HasParts
    <2>2. Kin(w.r, r)
      BY <2>1, Worded
    <2> QED BY <2>1, <2>2, KinHas DEF SQUASH_KA, HasFields
  <1>3. child.clen > 0 => child.stdin = Bodies(child.clen)
    <2> HIDE DEF r
    <2> QED BY <1>2 DEF Child
  <1>4. {"clen", "stdin"} \subseteq DOMAIN child
    <2> HIDE DEF r
    <2> QED BY DEF Child
  <1> HIDE DEF r, child
  <1>5. Like(w, u) /\ HasParts(u) /\ u.r = r
    <2>1. Like(w, u)
      BY <1>2, Replaced
    <2> QED BY <2>1, LikeHas DEF HasParts
  <1>6. Tells(w, on) /\ on.r.keepalive # "active" /\ on.ret = 1 /\ on.r.status \notin Early
    <2>1. /\ q.status = "PIPE_READ" /\ q.keepalive = r.keepalive /\ q.stream = r.stream
          /\ q.parse_pos = r.parse_pos /\ q.line = r.line /\ q.clen = r.clen /\ q.temp = r.temp
      <3> HIDE DEF fd, first, half
      <3> QED BY <1>2 DEF HasFields
    <2> HIDE DEF q, now, fd
    <2>2. on.r = q /\ on.ret = 1 /\ on.src = [w.src EXCEPT ![fd] = child] /\ on.n = w.n
      BY DEF HasParts
    <2> HIDE DEF on
    <2>3. Fed(w.src) => Fed(on.src)
      BY <1>3, <1>4, <2>2, FedSet
    <2>4. Told(w.r, q)
      BY <1>2, <2>1 DEF Kin, Told
    <2> QED BY <1>2, <2>1, <2>2, <2>3, <2>4, LateStatus DEF Tells
  <1>7. ASSUME v \in {GiveUp(u), Refuse(u, 500)}
        PROVE  Tells(w, v) /\ v.r.keepalive # "active" /\ v.ret = 0
    <2> HIDE DEF u, v
    <2>1. Like(u, v) /\ v.ret = 0
      BY <1>5, <1>7, Refused, GivenUp
    <2>2. v.r.keepalive # "active"
      BY <1>2, <1>5, <2>1 DEF Like, Kin, Told
    <2> QED BY <1>5, <2>1, <2>2, LikeTrans, LikeTells
  <1> HIDE DEF u, on, v
  <1>8. /\ Tells(w, v) /\ v.r.keepalive # "active" /\ v.ret \in {0, 1}
        /\ v.ret # 0 => v.r.status \notin Early
    BY <1>1, <1>6, <1>7
  <1> QED BY <1>8 DEF v

-----------------------------------------------------------------------------
(* What holds of a handler's request and of what it can reach.  O is what  *)
(* the other requests hold, of the descriptors o0 at the handler's start;   *)
(* c[i] is how many of them use entry i of the mmap cache.                  *)

Owned == {"pipe", "file", "temp"}

Holds(fds, r, o0, O) ==
    /\ fds \in [AllFds -> {"listen", "free", "socket", "pipe", "file", "temp", "lost"}]
    /\ \A f \in AllFds :
          fds[f] \in {"socket", "listen"} \/ o0[f] \in {"socket", "listen"} \/ f \in O
            => fds[f] = o0[f]
    /\ O \subseteq AllFds /\ HeldBy(r) \cap O = {}
    /\ \A f \in AllFds : fds[f] \in Owned <=> f \in HeldBy(r) \cup O
    /\ RequestOK(r, fds)

Maps(map, n, m, c) ==
    /\ DOMAIN map = Indices /\ (\A i \in Indices : DOMAIN map[i] = {"count", "file"})
    /\ \A i \in Indices : c[i] \in Nat /\ map[i].count = c[i] + (IF m = i THEN 1 ELSE 0)
    /\ n = Cardinality({i \in Indices : map[i].count > 0})

Sound(w, o0, O, c) ==
    /\ HasParts(w) /\ RequestTyped(w.r) /\ NetTyped(w.n)
    /\ Holds(w.open, w.r, o0, O) /\ Maps(w.mm, w.used, w.r.mmap, c)

\* A step that opens and closes nothing keeps the handler's accounts.
LEMMA SoundNear ==
    ASSUME NEW v, NEW w, NEW o0, NEW O, NEW c, Sound(v, o0, O, c), Near(v, w),
           w.r.status \in Early => Bare(w.r)
    PROVE  Sound(w, o0, O, c)
  <1>1. HasParts(w)
    BY DEF Sound, HasParts, HasFields, Near, SameTables, SameHold
  <1>2. HeldBy(w.r) = HeldBy(v.r)
    BY DEF Near, SameHold, HeldBy
  <1>3. RequestOK(w.r, w.open)
    <2>1. RequestOK(v.r, v.open) /\ w.open = v.open
      BY DEF Sound, Holds, Near, SameTables
    <2> QED BY <2>1 DEF Near, SameHold, RequestOK, Bare
  <1>4. Holds(w.open, w.r, o0, O)
    BY <1>2, <1>3 DEF Sound, Holds, Near, SameTables
  <1> QED BY <1>1, <1>4 DEF Sound, Near, SameTables, SameHold

\* So does one that keeps the method too.
LEMMA SoundLike ==
    ASSUME NEW v, NEW w, NEW o0, NEW O, NEW c, Sound(v, o0, O, c), Like(v, w)
    PROVE  Sound(w, o0, O, c)
  <1>1. Near(v, w)
    BY DEF Near, Like, Kin
  <1>2. w.r.status \in Early => Bare(w.r)
    <2>1. RequestOK(v.r, v.open)
      BY DEF Sound, Holds
    <2> QED BY <2>1 DEF Like, Kin, SameHold, Told, RequestOK, Bare
  <1> QED BY <1>1, <1>2, SoundNear

\* A request that is being read has no source yet.
LEMMA SoundBare ==
    ASSUME NEW w, NEW o0, NEW O, NEW c, Sound(w, o0, O, c), w.r.status \in Early
    PROVE  Bare(w.r)
  BY DEF Sound, Holds, RequestOK, Bare

\* open, accept, mkstemp and pipe: the lowest free descriptor is a free one.
LEMMA LowestIsFree ==
    ASSUME NEW fds, Free(fds) # {}
    PROVE  LowestFree(fds) \in Free(fds)
  <1>1. Free(fds) \in SUBSET Nat
    BY BoaAssumption DEF Free, AllFds
  <1>2. \E f \in Free(fds) : \A g \in Free(fds) : f <= g
    BY <1>1, LeastElement
  <1> QED BY <1>2, Zenon DEF LowestFree

\* -1 is the descriptor of nothing.
LEMMA NoFd == -1 \notin AllFds
  BY BoaAssumption DEF AllFds

\* A new pipe or document; the temporary file stays or is closed.
Opening(fds, kind, closed) ==
    [f \in AllFds |-> IF f = LowestFree(fds) THEN kind ELSE IF f = closed THEN "free" ELSE fds[f]]

\* Opening a source for a request that has none: the descriptor is its own, nobody
\* else's, whether its temporary file stays or is closed.
LEMMA Opened ==
    ASSUME NEW r, HasFields(r), NEW q, HasFields(q), NEW fds, NEW o0, NEW O,
           Holds(fds, r, o0, O), r.data_fd = -1, Free(fds) # {},
           NEW kind \in {"pipe", "file"}, NEW closed \in {-1, r.post_data_fd},
           q.data_fd = LowestFree(fds), q.mmap = r.mmap, q.status \notin Early,
           closed = r.post_data_fd => q.post_data_fd = -1,
           closed # r.post_data_fd => q.post_data_fd = r.post_data_fd
    PROVE  Holds(Opening(fds, kind, closed), q, o0, O)
  <1> DEFINE fd == LowestFree(fds)
             now == [f \in AllFds |-> IF f = fd THEN kind ELSE IF f = closed THEN "free" ELSE fds[f]]
  <1>1. fd \in AllFds /\ fds[fd] = "free"
    BY LowestIsFree DEF Free
  <1>2. fd \notin HeldBy(r) \cup O
    BY <1>1 DEF Holds, Owned
  <1> HIDE DEF fd
  <1>3. r.post_data_fd = -1 \/ (r.post_data_fd \in AllFds /\ fds[r.post_data_fd] = "temp")
    BY DEF Holds, RequestOK
  <1>4. HeldBy(r) = {r.post_data_fd} \ {-1} /\ HeldBy(q) = ({fd} \cup (HeldBy(r) \ {closed})) \ {-1}
    BY DEF HeldBy, fd
  <1>5. closed \notin O /\ (closed # -1 => closed \in HeldBy(r))
    <2>1. closed = -1 \/ closed \in HeldBy(r)
      BY <1>4
    <2> QED BY <2>1, NoFd DEF Holds
  <1>6. now \in [AllFds -> {"listen", "free", "socket", "pipe", "file", "temp", "lost"}]
    BY DEF Holds
  <1>7. ASSUME NEW f \in AllFds,
               now[f] \in {"socket", "listen"} \/ o0[f] \in {"socket", "listen"} \/ f \in O
        PROVE  now[f] = o0[f]
    <2>1. f # fd
      BY <1>1, <1>2, <1>7 DEF Holds
    <2>2. f # closed
      BY <1>3, <1>5, <1>7, NoFd DEF Holds
    <2> QED BY <1>7, <2>1, <2>2 DEF Holds
  <1>8. ASSUME NEW f \in AllFds PROVE now[f] \in Owned <=> f \in HeldBy(q) \cup O
    BY <1>2, <1>4, <1>5, NoFd DEF Holds, Owned
  <1>9. O \subseteq AllFds /\ HeldBy(q) \cap O = {}
    BY <1>2, <1>4 DEF Holds
  <1>10. RequestOK(q, now)
    <2>1. q.data_fd \in AllFds /\ now[q.data_fd] \in {"pipe", "file"}
      BY <1>1 DEF fd
    <2>2. q.post_data_fd # -1 => q.post_data_fd \in AllFds /\ now[q.post_data_fd] = "temp"
      BY <1>1, <1>3
    <2>3. r.mmap \in Indices \cup {-1}
      BY DEF Holds, RequestOK
    <2> HIDE DEF now
    <2>4. q.data_fd # -1
      BY <2>1, NoFd
    <2> QED BY <2>1, <2>2, <2>3, <2>4 DEF RequestOK
  <1> HIDE DEF now
  <1> QED BY <1>6, <1>7, <1>8, <1>9, <1>10 DEF Holds, Opening, now, fd

\* init_cgi closes on every path of failure what it has opened.
LEMMA CgiSound ==
    ASSUME NEW w, NEW o0, NEW O, NEW c, Sound(w, o0, O, c), w.r.data_fd = -1, NEW fault
    PROVE  LET v == init_cgi(w, fault) IN
           Sound(v, o0, O, c) /\ v.r.method = w.r.method /\ v.ret \in {0, 1}
  <1> DEFINE r == SQUASH_KA(w.r)
             u == [w EXCEPT !.r = r]
             fd == LowestFree(w.open)
             now == [f \in AllFds |-> IF f = fd THEN "pipe"
                                      ELSE IF f = r.post_data_fd THEN "free" ELSE w.open[f]]
             q == [r EXCEPT !.post_data_fd = -1, !.data_fd = fd, !.status = "PIPE_READ",
                            !.cgi_status = IF r.is_cgi = "CGI" THEN "PARSE" ELSE "BUFFER",
                            !.off = IF r.is_cgi = "CGI" THEN BUFFER_SIZE \div 2 ELSE 0,
                            !.data = <<>>, !.filepos = 0]
             on == [w EXCEPT !.open = now, !.src[fd] = Child(r), !.r = q, !.ret = 1]
  <1>1. \/ init_cgi(w, fault) \in {GiveUp(u), Refuse(u, 500)}
        \/ init_cgi(w, fault) = on /\ Cardinality(Free(w.open)) >= 2
    <2>1. \/ init_cgi(w, fault) \in {GiveUp(u), Refuse(u, 500)}
          \/ init_cgi(w, fault) = on /\ ~(Cardinality(Free(w.open)) < 2)
      BY Zenon DEF init_cgi
    <2>2. CASE Free(w.open) = {}
      <3>1. Cardinality({}) < 2
        BY FS_EmptySet
      <3> HIDE DEF on, u
      <3> QED BY <2>1, <2>2, <3>1
    <2>3. CASE Free(w.open) # {}
      <3>1. IsFiniteSet(AllFds)
        BY BoaAssumption, FS_AddElement DEF AllFds
      <3>2. Cardinality(Free(w.open)) \in Nat
        BY <3>1, FS_Subset, FS_CardinalityType DEF Free
      <3> HIDE DEF on, u
      <3> QED BY <2>1, <3>2
    <2> QED BY <2>2, <2>3
  <1>2. HasParts(w) /\ HasFields(w.r)
    BY DEF Sound, HasParts
  <1>3. Kin(w.r, r) /\ HasFields(r)
    BY <1>2, Worded, KinHas
  <1> HIDE DEF r
  <1>4. Like(w, u)
    BY <1>2, <1>3, Replaced
  <1>5. CASE init_cgi(w, fault) \in {GiveUp(u), Refuse(u, 500)}
    <2>1. HasParts(u)
      BY <1>2, <1>4, LikeHas
    <2> HIDE DEF u
    <2>2. Like(u, init_cgi(w, fault)) /\ init_cgi(w, fault).ret = 0
      BY <1>5, <2>1, Refused, GivenUp
    <2>3. Like(w, init_cgi(w, fault))
      BY <1>4, <2>2, LikeTrans
    <2> QED BY <2>2, <2>3, SoundLike DEF Like, Kin
  <1>6. CASE init_cgi(w, fault) = on /\ Cardinality(Free(w.open)) >= 2
    <2>1. Free(w.open) # {}
      <3>1. Cardinality({}) = 0
        BY FS_EmptySet
      <3> QED BY <1>6, <3>1
    <2>2. HasFields(q) /\ q.method = w.r.method /\ q.mmap = w.r.mmap /\ q.status = "PIPE_READ"
          /\ q.data_fd = fd /\ q.post_data_fd = -1
      BY <1>3 DEF HasFields, Kin, SameHold, Told
    <2>7. RequestTyped(q)
      <3>1. RequestTyped(r)
        BY <1>3 DEF Sound, Kin
      <3> QED BY <1>3, <3>1, LateStatus DEF RequestTyped, HasFields
    <2>3. r.post_data_fd = w.r.post_data_fd
      BY <1>3 DEF Kin, SameHold, Told
    <2>4. Holds(w.open, w.r, o0, O)
      BY DEF Sound
    <2>5. Holds(now, q, o0, O)
      <3> HIDE DEF q
      <3> DEFINE p == w.r.post_data_fd
                 late == Opening(w.open, "pipe", p)
      <3>1. now = late
        BY <2>3 DEF Opening
      <3>2. p \in {-1, w.r.post_data_fd} /\ "pipe" \in {"pipe", "file"} /\ q.status \notin Early
            /\ (p = w.r.post_data_fd => q.post_data_fd = -1)
            /\ (p # w.r.post_data_fd => q.post_data_fd = w.r.post_data_fd)
        BY <2>2, LateStatus
      <3>3. Holds(late, q, o0, O)
        <4> HIDE DEF now, fd
        <4>1. q.data_fd = LowestFree(w.open)
          BY <2>2 DEF fd
        <4> QED BY <1>2, <4>1, <2>1, <2>2, <2>4, <3>2, Opened, Zenon
      <3> QED BY <3>1, <3>3
    <2> HIDE DEF q, now, fd
    <2>6. on.open = now /\ on.r = q /\ on.mm = w.mm /\ on.used = w.used /\ on.ret = 1
          /\ DOMAIN on = DOMAIN w /\ on.n = w.n
      BY <1>2 DEF HasParts
    <2> HIDE DEF on
    <2> QED BY <1>2, <1>6, <2>2, <2>5, <2>6, <2>7 DEF Sound, HasParts
  <1> QED BY <1>1, <1>5, <1>6

\* A document that is read through its descriptor.
LEMMA PipedSound ==
    ASSUME NEW w, NEW o0, NEW O, NEW c, Sound(w, o0, O, c), Bare(w.r), Free(w.open) # {}
    PROVE  LET v == GetPiped(w) IN
           Sound(v, o0, O, c) /\ v.r.method = w.r.method /\ v.ret = 1 /\ Tells(w, v)
  <1> DEFINE t == [w EXCEPT !.r = send_r_request_ok(@)]
             fd == LowestFree(w.open)
             e == [NoSrc EXCEPT !.pipe = Data(1, w.r.filesize)]
             on == [w EXCEPT !.open[fd] = "file", !.src[fd] = e,
                             !.r = [send_r_request_ok(@) EXCEPT !.status = "PIPE_READ",
                                       !.cgi_status = "BUFFER", !.data_fd = fd, !.off = 0,
                                       !.data = <<>>]]
             y == req_flush(on)
             v == GetPiped(w)
  <1>1. HasParts(w) /\ HasFields(w.r)
    BY DEF Sound, HasParts
  <1>2. v = [y EXCEPT !.ret = 1]
    BY DEF GetPiped
  <1>3. Like(w, t)
    BY <1>1, HeaderPrinted, Replaced
  <1>4. Sound(t, o0, O, c) /\ HasParts(t) /\ HasFields(t.r)
    BY <1>3, SoundLike DEF Sound, HasParts
  <1>5. t.open = w.open /\ t.mm = w.mm /\ t.used = w.used /\ t.r.method = w.r.method /\ Bare(t.r)
    BY <1>3 DEF Like, Kin, SameHold, Told, SameTables, Bare
  <1> DEFINE q == [t.r EXCEPT !.status = "PIPE_READ", !.cgi_status = "BUFFER", !.data_fd = fd,
                              !.off = 0, !.data = <<>>]
  <1>6. on = [t EXCEPT !.open[fd] = "file", !.src[fd] = e, !.r = q]
    BY <1>1 DEF HasParts
  <1>16. {"clen", "stdin"} \subseteq DOMAIN e /\ e.clen = 0
    BY DEF NoSrc
  <1> HIDE DEF t, fd, e, on, y, v
  <1>7. /\ on.open = [t.open EXCEPT ![fd] = "file"] /\ on.mm = t.mm /\ on.used = t.used
        /\ DOMAIN on = DOMAIN t /\ on.n = t.n /\ on.r = q /\ on.src = [t.src EXCEPT ![fd] = e]
    BY <1>4, <1>6 DEF HasParts
  <1>8. /\ HasFields(on.r) /\ on.r.method = t.r.method /\ on.r.mmap = t.r.mmap
        /\ on.r.status = "PIPE_READ" /\ on.r.data_fd = fd /\ on.r.post_data_fd = t.r.post_data_fd
    BY <1>4, <1>7 DEF HasFields
  <1>15. Tells(t, on)
    <2>1. Told(t.r, on.r)
      BY <1>4, <1>7 DEF HasFields, Told
    <2>2. Fed(t.src) => Fed(on.src)
      BY <1>7, <1>16, FedSet
    <2> QED BY <1>7, <1>8, <2>1, <2>2, LateStatus DEF Tells
  <1> DEFINE closed == -1
             now == [f \in AllFds |-> IF f = fd THEN "file"
                                      ELSE IF f = closed THEN "free" ELSE t.open[f]]
  <1>9. Holds(t.open, t.r, o0, O)
    BY <1>4 DEF Sound
  <1>10. on.open = now
    <2>1. t.open \in [AllFds -> {"listen", "free", "socket", "pipe", "file", "temp", "lost"}]
      BY <1>9 DEF Holds
    <2> QED BY <1>7, <2>1, NoFd
  <1>11. Holds(now, on.r, o0, O)
    <2>1. t.r.data_fd = -1 /\ fd = LowestFree(t.open) /\ Free(t.open) # {}
      BY <1>5 DEF Bare, fd
    <2>2. /\ closed = t.r.post_data_fd => on.r.post_data_fd = -1
          /\ closed # t.r.post_data_fd => on.r.post_data_fd = t.r.post_data_fd
      BY <1>8
    <2>3. closed \in {-1, t.r.post_data_fd} /\ "file" \in {"pipe", "file"} /\ on.r.status \notin Early
      BY <1>8, LateStatus
    <2> HIDE DEF closed
    <2>4. on.r.data_fd = LowestFree(t.open) /\ on.r.mmap = t.r.mmap
      BY <1>8, <2>1
    <2>5. Holds(Opening(t.open, "file", closed), on.r, o0, O)
      <3>1. HasFields(t.r) /\ HasFields(on.r) /\ t.r.data_fd = -1 /\ Free(t.open) # {}
        BY <1>4, <1>8, <2>1
      <3> QED BY <1>9, <2>2, <2>3, <2>4, <3>1, Opened, Zenon
    <2>6. now = Opening(t.open, "file", closed)
      BY <2>1, Zenon DEF Opening
    <2> HIDE DEF now
    <2> QED BY <2>5, <2>6
  <1> HIDE DEF now
  <1>12. HasParts(on) /\ NetTyped(on.n)
    BY <1>4, <1>7, <1>8 DEF HasParts, Sound
  <1>14. RequestTyped(on.r)
    <2>1. RequestTyped(t.r)
      BY <1>4 DEF Sound
    <2> QED BY <1>4, <1>7, <2>1, LateStatus DEF RequestTyped, HasFields
  <1>13. Maps(on.mm, on.used, on.r.mmap, c)
    BY <1>4, <1>7, <1>8 DEF Sound
  <1> HIDE DEF q
  <1>17. Sound(on, o0, O, c)
    BY <1>10, <1>11, <1>12, <1>13, <1>14 DEF Sound
  <1>18. Like(on, y) /\ Sound(y, o0, O, c) /\ HasParts(y)
    <2>1. Like(on, y)
      BY <1>12, Flushed DEF y
    <2> QED BY <1>17, <2>1, SoundLike DEF Sound
  <1>19. Like(y, v) /\ v.ret = 1
    BY <1>2, <1>18, Returned
  <1>20. Sound(v, o0, O, c) /\ v.r.method = w.r.method
    <2>1. Sound(v, o0, O, c)
      BY <1>18, <1>19, SoundLike
    <2> QED BY <1>5, <1>8, <1>18, <1>19, <2>1 DEF Like, Kin
  <1>21. Tells(w, v)
    BY <1>3, <1>15, <1>18, <1>19, LikeTells, TellsTrans
  <1> QED BY <1>19, <1>20, <1>21 DEF v

-----------------------------------------------------------------------------
(* The mmap cache *)

\* One more use of an entry, which may be the first; and one less.
LEMMA UsedMore ==
    ASSUME NEW map, NEW n, NEW c, NEW m \in Indices, NEW map2, NEW n2,
           Maps(map, n, -1, c), DOMAIN map2 = Indices,
           \A i \in Indices : DOMAIN map2[i] = {"count", "file"},
           \A i \in Indices : map2[i].count = map[i].count + (IF i = m THEN 1 ELSE 0),
           n2 = IF map[m].count = 0 THEN n + 1 ELSE n
    PROVE  Maps(map2, n2, m, c)
  <1> DEFINE U == {i \in Indices : map[i].count > 0}
             V == {i \in Indices : map2[i].count > 0}
  <1>1. \A i \in Indices : map[i].count = c[i] /\ c[i] \in Nat /\ i # -1
    BY BoaAssumption DEF Maps, Indices
  <1>2. V = U \cup {m}
    BY <1>1
  <1>3. n2 = Cardinality(V)
    <2>1. IsFiniteSet(Indices)
      BY BoaAssumption, FS_Interval DEF Indices
    <2>2. IsFiniteSet(U)
      BY <2>1, FS_Subset
    <2>3. n = Cardinality(U) /\ (m \in U <=> map[m].count # 0)
      BY <1>1 DEF Maps
    <2> HIDE DEF U, V
    <2>4. Cardinality(V) = IF m \in U THEN Cardinality(U) ELSE Cardinality(U) + 1
      BY <1>2, <2>2, FS_AddElement
    <2> QED BY <2>3, <2>4
  <1> HIDE DEF U
  <1>4. \A i \in Indices : c[i] \in Nat /\ map2[i].count = c[i] + (IF m = i THEN 1 ELSE 0)
    BY <1>1
  <1> QED BY <1>3, <1>4 DEF Maps

\* release_mmap: the last user of an entry gives it up.
LEMMA UsedLess ==
    ASSUME NEW map, NEW n, NEW c, NEW m \in Indices, NEW map2, NEW n2,
           Maps(map, n, m, c), DOMAIN map2 = Indices,
           \A i \in Indices : DOMAIN map2[i] = {"count", "file"},
           \A i \in Indices : map2[i].count = map[i].count - (IF i = m THEN 1 ELSE 0),
           n2 = IF map[m].count = 1 THEN n - 1 ELSE n
    PROVE  Maps(map2, n2, -1, c)
  <1> DEFINE U == {i \in Indices : map[i].count > 0}
             V == {i \in Indices : map2[i].count > 0}
  <1>1. \A i \in Indices : c[i] \in Nat /\ i # -1 /\ map2[i].count = c[i]
                           /\ map[i].count = c[i] + (IF i = m THEN 1 ELSE 0)
    BY BoaAssumption DEF Maps, Indices
  <1>2. IsFiniteSet(U) /\ n = Cardinality(U)
    <2>1. IsFiniteSet(Indices)
      BY BoaAssumption, FS_Interval DEF Indices
    <2>2. IsFiniteSet(U)
      BY <2>1, FS_Subset
    <2> QED BY <2>2 DEF Maps
  <1>3. n2 = Cardinality(V)
    <2>1. CASE map[m].count = 1
      <3>1. V = U \ {m} /\ m \in U
        BY <1>1, <2>1
      <3> HIDE DEF U, V
      <3>2. Cardinality(V) = Cardinality(U) - 1
        BY <1>2, <3>1, FS_RemoveElement
      <3> QED BY <1>2, <2>1, <3>2
    <2>2. CASE map[m].count # 1
      <3>1. V = U
        BY <1>1, <2>2
      <3> HIDE DEF U, V
      <3> QED BY <1>2, <2>2, <3>1
    <2> QED BY <2>1, <2>2
  <1> HIDE DEF U, V
  <1>4. \A i \in Indices : c[i] \in Nat /\ map2[i].count = c[i] + (IF -1 = i THEN 1 ELSE 0)
    BY <1>1
  <1> QED BY <1>3, <1>4 DEF Maps, V

\* The probes of find_mmap stay inside the table.
LEMMA Index ==
    ASSUME NEW n \in Nat
    PROVE  n % MMAP_LIST_SIZE \in Indices
  BY BoaAssumption DEF Indices

\* Where find_mmap stops is an entry of the list.
LEMMA Probed ==
    ASSUME NEW map, NEW file \in Nat, Probes(map, file) # {}
    PROVE  (file + (CHOOSE i \in Probes(map, file) : \A j \in Probes(map, file) : i <= j))
             % MMAP_LIST_SIZE \in Indices
  <1> DEFINE first == CHOOSE i \in Probes(map, file) : \A j \in Probes(map, file) : i <= j
  <1>1. Probes(map, file) \in SUBSET Nat
    BY BoaAssumption DEF Probes
  <1>2. \E i \in Probes(map, file) : \A j \in Probes(map, file) : i <= j
    BY <1>1, LeastElement
  <1>3. first \in Probes(map, file)
    BY <1>2, Zenon
  <1> HIDE DEF first
  <1>4. file + first \in Nat
    BY <1>1, <1>3
  <1> QED BY <1>4, Index DEF first

\* find_mmap only maps, or maps nothing.
LEMMA FoundTells ==
    ASSUME NEW w, HasParts(w), NEW file, NEW fault
    PROVE  Tells(w, find_mmap(w, file, fault))
  <1> DEFINE first == CHOOSE i \in Probes(w.mm, file) : \A j \in Probes(w.mm, file) : i <= j
             i == (file + first) % MMAP_LIST_SIZE
             more == [w EXCEPT !.mm[i].count = @ + 1, !.r.mmap = i]
             new == [w EXCEPT !.mm[i] = [count |-> 1, file |-> file], !.used = @ + 1, !.r.mmap = i]
  <1>1. find_mmap(w, file, fault) \in {w, more, new}
    BY Zenon DEF find_mmap
  <1>2. Tells(w, w)
    BY DEF Tells, Told
  <1> HIDE DEF i
  <1>3. Tells(w, more)
    BY DEF HasParts, HasFields, Tells, Told
  <1>4. Tells(w, new)
    BY DEF HasParts, HasFields, Tells, Told
  <1> HIDE DEF more, new
  <1> QED BY <1>1, <1>2, <1>3, <1>4

\* It counts the request at one entry, or maps nothing.
LEMMA FindSound ==
    ASSUME NEW w, NEW o0, NEW O, NEW c, Sound(w, o0, O, c), w.r.mmap = -1,
           w.r.status \notin Early, NEW file \in Nat, NEW fault
    PROVE  LET v == find_mmap(w, file, fault) IN
           Sound(v, o0, O, c) /\ v.r.method = w.r.method /\ v.r.status = w.r.status
  <1> DEFINE first == CHOOSE i \in Probes(w.mm, file) : \A j \in Probes(w.mm, file) : i <= j
             i == (file + first) % MMAP_LIST_SIZE
             more == [w EXCEPT !.mm[i].count = @ + 1, !.r.mmap = i]
             new == [w EXCEPT !.mm[i] = [count |-> 1, file |-> file], !.used = @ + 1, !.r.mmap = i]
  <1>1. \/ find_mmap(w, file, fault) = w
        \/ /\ Probes(w.mm, file) # {}
           /\ \/ find_mmap(w, file, fault) = more /\ w.mm[i].count > 0
              \/ find_mmap(w, file, fault) = new /\ ~(w.mm[i].count > 0)
    BY Zenon DEF find_mmap
  <1>2. CASE find_mmap(w, file, fault) = w
    BY <1>2
  <1>3. CASE /\ Probes(w.mm, file) # {}
             /\ \/ find_mmap(w, file, fault) = more /\ w.mm[i].count > 0
                \/ find_mmap(w, file, fault) = new /\ ~(w.mm[i].count > 0)
    <2>1. i \in Indices
      BY <1>3, Probed
    <2> HIDE DEF i
    <2> DEFINE v == find_mmap(w, file, fault)
    <2>2. /\ HasParts(w) /\ HasFields(w.r) /\ Maps(w.mm, w.used, -1, c)
          /\ DOMAIN w.mm = Indices /\ (\A j \in Indices : DOMAIN w.mm[j] = {"count", "file"})
      BY DEF Sound, HasParts, Maps
    <2>3. w.mm[i].count \in Nat
      <3>1. c[i] \in Nat /\ w.mm[i].count = c[i] + (IF -1 = i THEN 1 ELSE 0)
        BY <2>1, <2>2 DEF Maps
      <3> QED BY <3>1
    <2>4. /\ DOMAIN v = DOMAIN w /\ v.open = w.open /\ v.n = w.n
          /\ DOMAIN v.r = DOMAIN w.r /\ v.r.mmap = i /\ v.r.data_fd = w.r.data_fd
          /\ v.r.post_data_fd = w.r.post_data_fd /\ v.r.method = w.r.method
          /\ v.r.status = w.r.status
      <3>1. CASE v = more
        BY <3>1, <2>2 DEF HasParts, HasFields
      <3>2. CASE v = new
        BY <3>2, <2>2 DEF HasParts, HasFields
      <3> QED BY <1>3, <3>1, <3>2
    <2>5. /\ DOMAIN v.mm = Indices /\ (\A j \in Indices : DOMAIN v.mm[j] = {"count", "file"})
          /\ \A j \in Indices : v.mm[j].count = w.mm[j].count + (IF j = i THEN 1 ELSE 0)
          /\ v.used = IF w.mm[i].count = 0 THEN w.used + 1 ELSE w.used
      <3>1. CASE v = more /\ w.mm[i].count > 0
        <4>1. v.mm = [w.mm EXCEPT ![i].count = @ + 1] /\ v.used = w.used
          BY <2>2, <3>1 DEF HasParts
        <4> HIDE DEF v, more
        <4>2. DOMAIN v.mm = Indices
          BY <2>2, <4>1
        <4>3. ASSUME NEW j \in Indices
              PROVE  /\ DOMAIN v.mm[j] = {"count", "file"}
                     /\ v.mm[j].count = w.mm[j].count + (IF j = i THEN 1 ELSE 0)
          <5>1. CASE j = i
            <6>1. v.mm[j] = [w.mm[j] EXCEPT !.count = @ + 1]
              BY <2>2, <4>1, <5>1
            <6> QED BY <2>2, <5>1, <6>1
          <5>2. CASE j # i
            <6>1. v.mm[j] = w.mm[j] /\ w.mm[j].count \in Int
              BY <2>2, <4>1, <5>2 DEF Maps
            <6> QED BY <2>2, <5>2, <6>1
          <5> QED BY <5>1, <5>2
        <4>4. v.used = IF w.mm[i].count = 0 THEN w.used + 1 ELSE w.used
          BY <2>3, <3>1, <4>1
        <4> QED BY <4>2, <4>3, <4>4
      <3>2. CASE v = new /\ ~(w.mm[i].count > 0)
        <4>1. v.mm = [w.mm EXCEPT ![i] = [count |-> 1, file |-> file]] /\ v.used = w.used + 1
          BY <2>2, <3>2 DEF HasParts
        <4>2. w.mm[i].count = 0
          BY <2>3, <3>2
        <4>3. \A j \in Indices : w.mm[j].count + 0 = w.mm[j].count
          BY <2>2 DEF Maps
        <4> HIDE DEF v, new
        <4> QED BY <2>1, <2>2, <4>1, <4>2, <4>3
      <3> QED BY <1>3, <3>1, <3>2
    <2> HIDE DEF v
    <2>6. Maps(v.mm, v.used, i, c)
      BY <2>1, <2>2, <2>5, UsedMore
    <2>7. HeldBy(v.r) = HeldBy(w.r)
      BY <2>4 DEF HeldBy
    <2>8. RequestOK(v.r, v.open)
      <3>1. RequestOK(w.r, w.open)
        BY DEF Sound, Holds
      <3> QED BY <2>1, <2>4, <3>1 DEF RequestOK
    <2>9. Holds(v.open, v.r, o0, O)
      BY <2>4, <2>7, <2>8 DEF Sound, Holds
    <2>10. HasParts(v)
      BY <2>2, <2>4 DEF HasParts, HasFields
    <2>11. RequestTyped(v.r)
      <3>1. RequestTyped(w.r) /\ v.r = [w.r EXCEPT !.mmap = i]
        <4>1. CASE v = more
          BY <4>1, <2>2 DEF HasParts, HasFields, Sound
        <4>2. CASE v = new
          BY <4>2, <2>2 DEF HasParts, HasFields, Sound
        <4> QED BY <1>3, <4>1, <4>2 DEF v
      <3> HIDE DEF v
      <3> QED BY <2>2, <3>1 DEF RequestTyped, HasFields
    <2> QED BY <2>4, <2>6, <2>9, <2>10, <2>11 DEF Sound, v
  <1> QED BY <1>1, <1>2, <1>3

-----------------------------------------------------------------------------
(* get.c *)

\* Answering from a mapping opens and closes nothing.
LEMMA MappedLike ==
    ASSUME NEW m, HasParts(m), m.r.status \notin Early, NEW fault
    PROVE  Like(m, GetMapped(m, fault)) /\ GetMapped(m, fault).ret \in {0, 1}
  <1> DEFINE r == send_r_request_ok(m.r)
             k == Least(BUFFER_SIZE - Len(r.buf), r.filesize)
             full == [r EXCEPT !.buf = @ \o Data(1, k), !.filepos = k]
             b1 == [m EXCEPT !.r = reset_output_buffer(@)]
             b2 == [m EXCEPT !.r = reset_output_buffer(r)]
             head == [m EXCEPT !.r = r, !.ret = 1]
             part == [m EXCEPT !.r = full, !.ret = 1]
             all == [m EXCEPT !.r = full]
             f == req_flush(all)
             last == [f EXCEPT !.r.status = "DONE", !.ret = 1]
  <1>1. GetMapped(m, fault) \in {Refuse(b1, 400), head, Refuse(b2, 500), part, last}
    BY DEF GetMapped
  <1>2. HasFields(m.r)
    BY DEF HasParts
  <1>3. Kin(m.r, r) /\ HasFields(r) /\ r.status \notin Early
    <2>1. Kin(m.r, r)
      BY <1>2, HeaderPrinted
    <2> HIDE DEF r
    <2> QED BY <1>2, <2>1, KinHas DEF Kin
  <1> HIDE DEF r
  <1>4. Kin(m.r, full)
    <2> HIDE DEF k
    <2> QED BY <1>3 DEF Kin, SameHold, Told, HasFields, RequestTyped
  <1>5. Like(m, b1) /\ Like(m, b2)
    <2>1. Kin(m.r, reset_output_buffer(m.r)) /\ Kin(r, reset_output_buffer(r))
      BY <1>2, <1>3, Worded DEF reset_output_buffer
    <2>2. Kin(m.r, reset_output_buffer(r))
      BY <1>3, <2>1, KinTrans
    <2> QED BY <2>1, <2>2, Replaced
  <1>6. Like(m, head) /\ head.ret = 1 /\ Like(m, part) /\ part.ret = 1 /\ Like(m, all)
    <2> HIDE DEF full
    <2>1. Like(m, head) /\ Like(m, part) /\ Like(m, all)
      BY <1>3, <1>4, Replaced
    <2> QED BY <2>1 DEF HasParts
  <1> HIDE DEF b1, b2, head, part, all
  <1>7. Like(m, f) /\ HasParts(f)
    BY <1>6, LikeHas, LikeTrans, Flushed
  <1> HIDE DEF f
  <1>8. Like(m, last) /\ last.ret = 1
    <2>1. Like(f, last) /\ last.ret = 1
      BY <1>7, LateStatus DEF Like, SameTables, HasParts, HasFields, Kin, SameHold, Told, RequestTyped, NetTyped
    <2> QED BY <1>7, <2>1, LikeTrans
  <1>9. /\ Like(m, Refuse(b1, 400)) /\ Refuse(b1, 400).ret = 0
        /\ Like(m, Refuse(b2, 500)) /\ Refuse(b2, 500).ret = 0
    BY <1>5, LikeHas, LikeTrans, Refused
  <1> HIDE DEF last
  <1> QED BY <1>1, <1>6, <1>8, <1>9

\* get_dir and the unzipped document: the child's pipe is the request's.
LEMMA FilteredSound ==
    ASSUME NEW w, NEW o0, NEW O, NEW c, Sound(w, o0, O, c), w.r.data_fd = -1,
           w.r.method # "POST", NEW fault
    PROVE  LET v == GetFiltered(w, fault) IN
           /\ Sound(v, o0, O, c) /\ v.r.method = w.r.method /\ v.ret \in {0, 1}
           /\ Tells(w, v)
  <1> DEFINE u == [w EXCEPT !.r = send_r_request_ok(@)]
             f == req_flush(u)
  <1>1. HasParts(w) /\ HasFields(w.r)
    BY DEF Sound, HasParts
  <1>2. Like(w, u)
    BY <1>1, HeaderPrinted, Replaced
  <1>3. GetFiltered(w, fault) = IF w.r.method = "HEAD" THEN GiveUp(f) ELSE init_cgi(f, fault)
    BY Zenon DEF GetFiltered
  <1> HIDE DEF u
  <1>4. Like(w, f) /\ HasParts(f)
    BY <1>1, <1>2, LikeHas, LikeTrans, Flushed
  <1> HIDE DEF f
  <1>5. Sound(f, o0, O, c) /\ f.r.data_fd = -1 /\ f.r.method = w.r.method
    <2>1. Sound(f, o0, O, c)
      BY <1>4, SoundLike
    <2> QED BY <1>4, <2>1 DEF Like, Kin, SameHold, Told
  <1>6. Like(f, GiveUp(f)) /\ GiveUp(f).ret = 0
    BY <1>4, GivenUp
  <1>7. Sound(GiveUp(f), o0, O, c) /\ GiveUp(f).r.method = w.r.method
    <2>1. Sound(GiveUp(f), o0, O, c)
      BY <1>5, <1>6, SoundLike
    <2> QED BY <1>5, <1>6, <2>1 DEF Like, Kin
  <1>8. /\ Sound(init_cgi(f, fault), o0, O, c) /\ init_cgi(f, fault).r.method = w.r.method
        /\ init_cgi(f, fault).ret \in {0, 1}
    BY <1>5, CgiSound
  <1>9. Tells(f, init_cgi(f, fault)) /\ Tells(w, f) /\ Tells(f, GiveUp(f))
    BY <1>4, <1>5, <1>6, CgiTells, LikeTells
  <1> QED BY <1>3, <1>6, <1>7, <1>8, <1>9, TellsTrans

\* A handler's result, and what the next one can rely on.
Good(w, v, o0, O, c) ==
    Sound(v, o0, O, c) /\ v.r.method = w.r.method /\ v.ret \in {0, 1} /\ Tells(w, v)

\* A handler that opens and closes nothing is a good one.
LEMMA GoodLike ==
    ASSUME NEW w, NEW v, NEW o0, NEW O, NEW c, Sound(w, o0, O, c), Like(w, v), v.ret \in {0, 1}
    PROVE  Good(w, v, o0, O, c)
  BY SoundLike, LikeTells DEF Good, Like, Kin

\* init_get, on each of its ways out.
LEMMA GetSound ==
    ASSUME NEW w, NEW o0, NEW O, NEW c, Sound(w, o0, O, c), Bare(w.r),
           w.r.status \notin Early, w.r.uri \in DOMAIN Site, w.r.method # "POST", NEW fault
    PROVE  Good(w, init_get(w, fault), o0, O, c)
  <1> DEFINE s == Site[w.r.uri]
             sized == [w EXCEPT !.r.filesize = s.size]
             closing == [w EXCEPT !.r = SQUASH_KA(@)]
             same == [send_r_not_modified(w) EXCEPT !.ret = 0]
             head == [sized EXCEPT !.r = send_r_request_ok(@)]
             v == init_get(w, fault)
  <1>1. \/ v \in {Refuse(w, 400), Refuse(w, 404), Refuse(w, 403), Refuse(w, 301), same}
        \/ v \in {GetFiltered(w, fault), GetFiltered(closing, fault), GiveUp(head)}
        \/ v = GetPiped(sized) /\ Free(w.open) # {}
        \/ v = GetMapped(find_mmap(sized, w.r.uri, fault), fault)
    <2> DEFINE other == IF w.r.method = "HEAD" \/ s.size = 0 THEN GiveUp(head)
                        ELSE IF s.size > MAX_FILE_MMAP THEN GetPiped(sized)
                        ELSE GetMapped(find_mmap(sized, w.r.uri, fault), fault)
    <2>1. v = IF Free(w.open) = {} THEN Refuse(w, 400) ELSE
              CASE s.kind = "missing"       -> Refuse(w, 404)
                [] s.kind = "forbidden"     -> Refuse(w, 403)
                [] s.kind = "noslash"       -> Refuse(w, 301)
                [] s.kind = "not_modified"  -> same
                [] s.kind = "gz"            -> GetFiltered(w, fault)
                [] s.kind = "dir"           -> GetFiltered(closing, fault)
                [] OTHER                    -> other
      BY Zenon DEF init_get
    <2>2. other \in {GiveUp(head), GetPiped(sized), GetMapped(find_mmap(sized, w.r.uri, fault), fault)}
      BY Zenon
    <2> HIDE DEF s, sized, closing, same, head, v, other
    <2>3. CASE Free(w.open) = {}
      BY <2>1, <2>3
    <2>4. CASE Free(w.open) # {} /\ s.kind \in {"missing", "forbidden", "noslash", "not_modified"}
      BY <2>1, <2>4
    <2>5. CASE Free(w.open) # {} /\ s.kind \in {"gz", "dir"}
      BY <2>1, <2>5
    <2>6. CASE /\ Free(w.open) # {}
               /\ s.kind \notin {"missing", "forbidden", "noslash", "not_modified", "gz", "dir"}
      BY <2>1, <2>2, <2>6
    <2> QED BY <2>3, <2>4, <2>5, <2>6
  <1>2. HasParts(w) /\ HasFields(w.r) /\ w.r.uri \in Nat
    BY BoaAssumption DEF Sound, HasParts
  <1>3. Like(w, sized) /\ Like(w, closing)
    <2>1. Kin(w.r, [w.r EXCEPT !.filesize = s.size])
      BY <1>2 DEF Kin, SameHold, Told, HasFields, RequestTyped
    <2>2. Like(w, sized)
      <3>1. sized = [w EXCEPT !.r = [w.r EXCEPT !.filesize = s.size]]
        OBVIOUS
      <3> QED BY <1>2, <2>1, <3>1, Replaced
    <2> QED BY <1>2, <2>2, Worded, Replaced
  <1> HIDE DEF sized, closing
  <1>4. /\ Sound(sized, o0, O, c) /\ Bare(sized.r) /\ sized.r.status = w.r.status
        /\ Sound(closing, o0, O, c) /\ Bare(closing.r)
        /\ sized.r.method = w.r.method /\ closing.r.method = w.r.method /\ sized.open = w.open
        /\ sized.r.status \notin Early
    <2>1. Sound(sized, o0, O, c) /\ Sound(closing, o0, O, c)
      BY <1>3, SoundLike
    <2>2. sized.r.status = w.r.status
      BY <1>2 DEF sized, HasParts, HasFields
    <2> QED BY <1>3, <2>1, <2>2 DEF Like, Kin, SameHold, Told, SameTables, Bare
  <1>5. Like(w, same) /\ same.ret = 0
    BY <1>2, NotModified, LikeHas, Returned, LikeTrans
  <1>6. Like(w, GiveUp(head)) /\ GiveUp(head).ret = 0
    <2>1. HasParts(sized) /\ HasFields(sized.r)
      BY <1>4 DEF Sound, HasParts
    <2>2. Like(sized, head)
      BY <2>1, HeaderPrinted, Replaced
    <2> HIDE DEF head
    <2>3. Like(w, head) /\ HasParts(head)
      BY <1>2, <1>3, <2>2, LikeTrans, LikeHas
    <2> QED BY <2>3, GivenUp, LikeTrans
  <1>7. /\ Good(w, Refuse(w, 400), o0, O, c) /\ Good(w, Refuse(w, 404), o0, O, c)
        /\ Good(w, Refuse(w, 403), o0, O, c) /\ Good(w, Refuse(w, 301), o0, O, c)
    <2>1. ASSUME NEW code PROVE Good(w, Refuse(w, code), o0, O, c)
      BY <1>2, Refused, GoodLike
    <2> QED BY <2>1
  <1>8. Good(w, same, o0, O, c) /\ Good(w, GiveUp(head), o0, O, c)
    BY <1>5, <1>6, GoodLike
  <1>9. Good(w, GetFiltered(w, fault), o0, O, c) /\ Good(w, GetFiltered(closing, fault), o0, O, c)
    <2>1. Good(closing, GetFiltered(closing, fault), o0, O, c) /\ Good(w, GetFiltered(w, fault), o0, O, c)
      BY <1>4, FilteredSound DEF Good, Bare
    <2> QED BY <1>3, <1>4, <2>1, LikeTells, TellsTrans DEF Good
  <1>10. ASSUME Free(w.open) # {} PROVE Good(w, GetPiped(sized), o0, O, c)
    BY <1>3, <1>4, <1>10, PipedSound, LikeTells, TellsTrans DEF Good
  <1>11. Good(w, GetMapped(find_mmap(sized, w.r.uri, fault), fault), o0, O, c)
    <2> DEFINE m == find_mmap(sized, w.r.uri, fault)
    <2>1. Sound(m, o0, O, c) /\ m.r.method = w.r.method /\ m.r.status \notin Early
      BY <1>2, <1>4, FindSound DEF Bare
    <2>4. Tells(w, m)
      BY <1>3, <1>4, FoundTells, LikeTells, TellsTrans DEF Sound
    <2> HIDE DEF m
    <2>2. HasParts(m)
      BY <2>1 DEF Sound
    <2>3. Good(m, GetMapped(m, fault), o0, O, c)
      BY <2>1, <2>2, MappedLike, GoodLike
    <2> QED BY <2>1, <2>3, <2>4, TellsTrans DEF Good, m
  <1> HIDE DEF same, head, v
  <1>12. Good(w, v, o0, O, c)
    BY <1>1, <1>7, <1>8, <1>9, <1>10, <1>11
  <1> QED BY <1>12 DEF v

-----------------------------------------------------------------------------
(* alias.c, and the end of the headers *)

\* translate_uri opens and closes nothing.
LEMMA TranslateLike ==
    ASSUME NEW w, HasParts(w)
    PROVE  LET v == translate_uri(w) IN
           /\ Like(w, v) /\ v.ret \in {0, 1}
           /\ v.ret # 0 => v.r.uri = w.r.uri /\ v.r.status = w.r.status
  <1> DEFINE s == Site[w.r.uri]
             go == [w EXCEPT !.ret = 1]
             script == [w EXCEPT !.r.is_cgi = IF w.r.simple = "yes" THEN "NPH" ELSE "CGI",
                                 !.ret = 1]
             v == translate_uri(w)
             moved == IF w.r.method = "POST" THEN 400 ELSE 302
  <1>1. v \in {Refuse(w, 404), Refuse(w, 403), Refuse(w, moved), Refuse(w, 400), go, script}
    <2>1. init_script_alias(w) \in {Refuse(w, 404), Refuse(w, 403), script}
      <3>1. init_script_alias(w) = CASE s.kind = "missing"   -> Refuse(w, 404)
                                     [] s.kind = "forbidden" -> Refuse(w, 403)
                                     [] OTHER                -> script
        BY Zenon DEF init_script_alias
      <3> HIDE DEF s, script
      <3>2. CASE s.kind \in {"missing", "forbidden"}
        BY <3>1, <3>2
      <3>3. CASE s.kind \notin {"missing", "forbidden"}
        BY <3>1, <3>3
      <3> QED BY <3>2, <3>3
    <2>2. v = CASE s.via = "script"   -> init_script_alias(w)
                [] s.via = "redirect" -> Refuse(w, moved)
                [] s.via = "alias"    -> go
                [] OTHER              -> IF w.r.method = "POST" THEN Refuse(w, 400) ELSE go
      BY Zenon DEF translate_uri
    <2> HIDE DEF s, script, go, v, moved
    <2>3. CASE s.via = "script"
      BY <2>1, <2>2, <2>3
    <2>4. CASE s.via \in {"redirect", "alias"}
      BY <2>2, <2>4
    <2>5. CASE s.via \notin {"script", "redirect", "alias"}
      BY <2>2, <2>5
    <2> QED BY <2>3, <2>4, <2>5
  <1>2. ASSUME NEW code PROVE Like(w, Refuse(w, code)) /\ Refuse(w, code).ret = 0
    BY Refused
  <1>3. Like(w, go) /\ go.ret = 1 /\ go.r = w.r
    BY DEF Like, SameTables, HasParts, Kin, SameHold, Told, RequestTyped, NetTyped
  <1>4. Like(w, script) /\ script.ret = 1 /\ script.r.uri = w.r.uri
        /\ script.r.status = w.r.status
    BY DEF Like, SameTables, HasParts, HasFields, Kin, SameHold, Told, RequestTyped, NetTyped
  <1> HIDE DEF go, script, v, moved
  <1>5. /\ Like(w, v) /\ v.ret \in {0, 1}
        /\ v.ret # 0 => v.r.uri = w.r.uri /\ v.r.status = w.r.status
    BY <1>1, <1>2, <1>3, <1>4
  <1> QED BY <1>5 DEF v

\* The temporary file of a POST (request.c:627-632), one that is lost included.
LEMMA PostSound ==
    ASSUME NEW t, NEW o0, NEW O, NEW c, Sound(t, o0, O, c), Bare(t.r), t.ret \in {0, 1}, NEW fault
    PROVE  LET v == StartPost(t, fault) IN
           Good(t, v, o0, O, c) /\ Bare(v.r) /\ (v.ret # 0 => v.r.status = t.r.status)
  <1> DEFINE p == t.r.post_data_fd
             lost == [f \in AllFds |-> IF f = p THEN "lost" ELSE t.open[f]]
             none == [t EXCEPT !.open = lost, !.r.post_data_fd = -1]
             fd == LowestFree(lost)
             some == [none EXCEPT !.open[fd] = "temp", !.r.post_data_fd = fd, !.r.temp = <<>>]
  <1>1. \/ StartPost(t, fault) = GiveUp(none)
        \/ StartPost(t, fault) = some /\ Free(lost) # {}
    BY Zenon DEF StartPost
  <1>2. HasParts(t) /\ HasFields(t.r) /\ Holds(t.open, t.r, o0, O)
    BY DEF Sound, HasParts
  <1>3. p = -1 \/ (p \in AllFds /\ t.open[p] = "temp" /\ p \notin O)
    BY <1>2 DEF Holds, RequestOK, HeldBy
  <1>4. HeldBy(t.r) = {p} \ {-1}
    BY DEF HeldBy, Bare
  <1>5. /\ lost \in [AllFds -> {"listen", "free", "socket", "pipe", "file", "temp", "lost"}]
        /\ \A f \in AllFds : lost[f] \in Owned <=> f \in O
    <2>1. \A f \in AllFds : t.open[f] \in Owned <=> f \in HeldBy(t.r) \cup O
      BY <1>2 DEF Holds
    <2> QED BY <1>2, <1>3, <1>4, <2>1, NoFd DEF Holds, Owned
  <1>6. ASSUME NEW f \in AllFds,
               lost[f] \in {"socket", "listen"} \/ o0[f] \in {"socket", "listen"} \/ f \in O
        PROVE  lost[f] = o0[f]
    BY <1>2, <1>3, <1>6, NoFd DEF Holds
  <1> HIDE DEF lost
  <1>7. /\ DOMAIN none = DOMAIN t /\ none.open = lost /\ none.mm = t.mm /\ none.used = t.used
        /\ none.ret = t.ret /\ none.r = [t.r EXCEPT !.post_data_fd = -1] /\ none.n = t.n
        /\ none.src = t.src
    BY <1>2 DEF HasParts
  <1> HIDE DEF none
  <1>8. /\ HasFields(none.r) /\ none.r.data_fd = -1 /\ none.r.mmap = -1
        /\ none.r.post_data_fd = -1 /\ none.r.method = t.r.method
        /\ none.r.status = t.r.status
    BY <1>2, <1>7 DEF HasFields, Bare
  <1>11. RequestTyped(none.r) /\ NetTyped(none.n)
    <2>1. RequestTyped(t.r) /\ NetTyped(t.n)
      BY DEF Sound
    <2> QED BY <1>2, <1>7, <2>1 DEF RequestTyped, HasFields
  <1>9. CASE StartPost(t, fault) = GiveUp(none)
    <2>1. HeldBy(none.r) = {} /\ RequestOK(none.r, lost)
      BY <1>8 DEF HeldBy, RequestOK, Bare
    <2>2. O \subseteq AllFds
      BY <1>2 DEF Holds
    <2>3. Sound(none, o0, O, c)
      <3>1. Holds(none.open, none.r, o0, O)
        BY <1>5, <1>6, <1>7, <2>1, <2>2 DEF Holds
      <3> QED BY <1>2, <1>7, <1>8, <1>11, <3>1 DEF Sound, HasParts, Bare
    <2>4. HasParts(none)
      BY <2>3 DEF Sound
    <2>5. Like(none, GiveUp(none)) /\ GiveUp(none).ret = 0
      BY <2>4, GivenUp
    <2>6. Sound(GiveUp(none), o0, O, c)
      BY <2>3, <2>5, SoundLike
    <2>7. Tells(t, none)
      BY <1>2, <1>7 DEF Tells, Told, HasParts, HasFields
    <2>8. Tells(t, GiveUp(none))
      BY <2>5, <2>7, LikeTells, TellsTrans
    <2> QED BY <1>8, <1>9, <2>5, <2>6, <2>8 DEF Good, Like, Kin, SameHold, Told, Bare
  <1>10. CASE StartPost(t, fault) = some /\ Free(lost) # {}
    <2>1. fd \in AllFds /\ lost[fd] = "free"
      BY <1>10, LowestIsFree DEF Free
    <2> HIDE DEF fd
    <2>2. /\ DOMAIN some = DOMAIN t /\ some.open = [lost EXCEPT ![fd] = "temp"]
          /\ some.mm = t.mm /\ some.used = t.used /\ some.ret = t.ret /\ some.src = t.src
          /\ some.r = [none.r EXCEPT !.post_data_fd = fd, !.temp = <<>>] /\ some.n = t.n
      BY <1>2, <1>7 DEF HasParts
    <2> HIDE DEF some
    <2>3. /\ HasFields(some.r) /\ some.r.data_fd = -1 /\ some.r.mmap = -1
          /\ some.r.post_data_fd = fd /\ some.r.method = t.r.method
          /\ some.r.status = t.r.status
      BY <1>8, <2>2 DEF HasFields
    <2>9. RequestTyped(some.r) /\ NetTyped(some.n)
      <3>1. NetTyped(some.n)
        BY <1>7, <1>11, <2>2
      <3> QED BY <1>8, <1>11, <2>2, <3>1 DEF RequestTyped, HasFields
    <2>4. HeldBy(some.r) = {fd}
      BY <2>1, <2>3, NoFd DEF HeldBy
    <2>5. fd \notin O
      BY <1>5, <2>1 DEF Owned
    <2>6. RequestOK(some.r, some.open)
      BY <1>5, <2>1, <2>2, <2>3 DEF RequestOK, Bare
    <2>7. O \subseteq AllFds
      BY <1>2 DEF Holds
    <2>8. Holds(some.open, some.r, o0, O)
      <3>1. some.open \in [AllFds -> {"listen", "free", "socket", "pipe", "file", "temp", "lost"}]
        BY <1>5, <2>2
      <3>2. \A f \in AllFds : some.open[f] \in Owned <=> f \in HeldBy(some.r) \cup O
        BY <1>5, <2>1, <2>2, <2>4 DEF Owned
      <3>3. \A f \in AllFds :
               some.open[f] \in {"socket", "listen"} \/ o0[f] \in {"socket", "listen"} \/ f \in O
                 => some.open[f] = o0[f]
        BY <1>5, <1>6, <2>1, <2>2, <2>5
      <3> QED BY <2>4, <2>5, <2>6, <2>7, <3>1, <3>2, <3>3 DEF Holds
    <2>10. Tells(t, some)
      BY <1>2, <1>7, <1>8, <2>2 DEF Tells, Told, HasParts, HasFields
    <2> QED BY <1>2, <1>10, <2>2, <2>3, <2>8, <2>9, <2>10 DEF Good, Sound, HasParts, Bare
  <1> QED BY <1>1, <1>9, <1>10

\* What the end of the headers starts.
LEMMA StartSound ==
    ASSUME NEW t, NEW o0, NEW O, NEW c, Sound(t, o0, O, c), Bare(t.r), t.ret \in {0, 1},
           t.ret # 0 => t.r.uri \in DOMAIN Site, NEW fault
    PROVE  LET v == Start(t, fault) IN
           /\ Good(t, v, o0, O, c)
           /\ v.r.method = "POST" /\ v.ret # 0 => Bare(v.r) /\ v.r.status = t.r.status
           /\ v.r.method # "POST" /\ v.ret # 0 => v.r.status \notin Early
  <1> DEFINE last == [t EXCEPT !.r = SQUASH_KA(@)]
             begun == [t EXCEPT !.r.status = "WRITE"]
             v == Start(t, fault)
  <1>1. HasParts(t) /\ HasFields(t.r)
    BY DEF Sound, HasParts
  <1>2. \/ v = last /\ t.ret = 0
        \/ v = StartPost(t, fault) /\ t.r.method = "POST"
        \/ v = init_cgi(t, fault) /\ t.r.method # "POST"
        \/ v = init_get(begun, fault) /\ t.ret # 0 /\ t.r.method # "POST"
    <2>1. v = CASE t.ret = 0 -> last
                [] t.ret # 0 /\ t.r.method = "POST" -> StartPost(t, fault)
                [] t.ret # 0 /\ t.r.method # "POST" /\ t.r.is_cgi # "no" -> init_cgi(t, fault)
                [] OTHER -> init_get(begun, fault)
      BY Zenon DEF Start
    <2> HIDE DEF last, begun, v
    <2>2. CASE t.ret = 0
      BY <2>1, <2>2
    <2>3. CASE t.ret # 0 /\ t.r.method = "POST"
      BY <2>1, <2>3
    <2>4. CASE t.ret # 0 /\ t.r.method # "POST" /\ t.r.is_cgi # "no"
      BY <2>1, <2>4
    <2>5. CASE t.ret # 0 /\ t.r.method # "POST" /\ ~(t.r.is_cgi # "no")
      BY <2>1, <2>5
    <2> QED BY <2>2, <2>3, <2>4, <2>5
  <1>3. CASE v = last /\ t.ret = 0
    <2>1. Like(t, last) /\ last.ret = 0
      <3>1. Like(t, last)
        BY <1>1, Worded, Replaced
      <3> QED BY <1>1, <1>3, <3>1 DEF HasParts
    <2> HIDE DEF last
    <2> QED BY <1>3, <2>1, GoodLike DEF Like, Kin, SameHold, Told, Bare
  <1>4. CASE v = StartPost(t, fault) /\ t.r.method = "POST"
    BY <1>4, PostSound DEF Good
  <1>5. CASE v = init_cgi(t, fault) /\ t.r.method # "POST"
    BY <1>1, <1>5, CgiSound, CgiTells DEF Bare, Good
  <1>6. CASE v = init_get(begun, fault) /\ t.ret # 0 /\ t.r.method # "POST"
    <2>1. Like(t, begun) /\ begun.r.uri = t.r.uri /\ begun.r.status = "WRITE"
      BY <1>1, LateStatus DEF Like, SameTables, HasParts, HasFields, Kin, SameHold, Told, RequestTyped, NetTyped
    <2> HIDE DEF begun
    <2>2. Sound(begun, o0, O, c) /\ Bare(begun.r) /\ begun.r.method = t.r.method
      <3>1. Sound(begun, o0, O, c)
        BY <2>1, SoundLike
      <3> QED BY <2>1, <3>1 DEF Like, Kin, SameHold, Told, Bare
    <2>3. Good(begun, init_get(begun, fault), o0, O, c)
      BY <1>6, <2>1, <2>2, LateStatus, GetSound
    <2> QED BY <1>6, <2>1, <2>2, <2>3, LateStatus, LikeTells, TellsTrans DEF Good, Tells
  <1> QED BY <1>2, <1>3, <1>4, <1>5, <1>6, Zenon

\* process_header_end, on each of its ways out.
LEMMA EndSound ==
    ASSUME NEW w, NEW o0, NEW O, NEW c, Sound(w, o0, O, c), Bare(w.r), NEW fault
    PROVE  LET v == process_header_end(w, fault) IN
           /\ Good(w, v, o0, O, c)
           /\ v.r.method = "POST" /\ v.ret # 0 => Bare(v.r) /\ v.r.status = w.r.status
           /\ v.r.method # "POST" /\ v.ret # 0 => v.r.status \notin Early
  <1> DEFINE v == process_header_end(w, fault)
             t == translate_uri(w)
  <1>1. HasParts(w)
    BY DEF Sound
  <1>2. \/ v = Refuse(w, 500) \/ v = Refuse(w, 400)
        \/ v = Start(t, fault) /\ w.r.uri \in DOMAIN Site
    BY DEF process_header_end
  <1>3. ASSUME NEW code, v = Refuse(w, code)
        PROVE  Good(w, v, o0, O, c) /\ v.ret = 0
    <2>1. Like(w, v) /\ v.ret = 0
      BY <1>1, <1>3, Refused
    <2> HIDE DEF v
    <2> QED BY <2>1, GoodLike
  <1>4. CASE v = Start(t, fault) /\ w.r.uri \in DOMAIN Site
    <2>1. Like(w, t) /\ t.ret \in {0, 1}
          /\ (t.ret # 0 => t.r.uri = w.r.uri /\ t.r.status = w.r.status)
      BY <1>1, TranslateLike, Zenon
    <2> HIDE DEF t
    <2>2. Sound(t, o0, O, c) /\ Bare(t.r) /\ t.r.method = w.r.method
      <3>1. Sound(t, o0, O, c)
        BY <2>1, SoundLike
      <3> QED BY <2>1, <3>1 DEF Like, Kin, SameHold, Told, Bare
    <2> DEFINE u == Start(t, fault)
    <2>3. /\ Good(t, u, o0, O, c)
          /\ u.r.method = "POST" /\ u.ret # 0 => Bare(u.r) /\ u.r.status = t.r.status /\ t.ret # 0
          /\ u.r.method # "POST" /\ u.ret # 0 => u.r.status \notin Early
      <3>1. t.ret # 0 => t.r.uri \in DOMAIN Site
        BY <1>4, <2>1
      <3>2. /\ Good(t, u, o0, O, c)
            /\ u.r.method = "POST" /\ u.ret # 0 => Bare(u.r) /\ u.r.status = t.r.status
            /\ u.r.method # "POST" /\ u.ret # 0 => u.r.status \notin Early
        BY <2>1, <2>2, <3>1, StartSound, Zenon
      <3>3. t.ret = 0 => u.ret = 0
        BY <2>2 DEF Start, Sound, HasParts
      <3> QED BY <3>2, <3>3
    <2>4. Tells(w, t)
      BY <2>1, LikeTells
    <2> QED BY <1>4, <2>1, <2>2, <2>3, <2>4, TellsTrans DEF Good
  <1> QED BY <1>2, <1>3, <1>4

-----------------------------------------------------------------------------
(* read.c *)

\* Pieces of the stream are made of tokens again.
LEMMA Pieces ==
    ASSUME NEW s \in Seq(Token), NEW k \in Int
    PROVE  /\ k >= 0 => Drop(s, k) \in Seq(Token)
           /\ k <= Len(s) => Take(s, k) \in Seq(Token)
  <1>1. Len(s) \in Nat /\ \A i \in 1..Len(s) : s[i] \in Token
    OBVIOUS
  <1>2. ASSUME k >= 0 PROVE Drop(s, k) \in Seq(Token)
    <2>1. k + 1 \in Int /\ Len(s) \in Int /\ \A i \in (k + 1)..Len(s) : s[i] \in Token
      BY <1>1, <1>2
    <2> QED BY <2>1, SubSeqProperties DEF Drop
  <1>3. ASSUME k <= Len(s) PROVE Take(s, k) \in Seq(Token)
    <2>1. 1 \in Int /\ \A i \in 1..k : s[i] \in Token
      BY <1>1, <1>3
    <2> QED BY <2>1, SubSeqProperties DEF Take
  <1> QED BY <1>2, <1>3

\* The smaller of two integers.
LEMMA LeastOf ==
    ASSUME NEW a \in Int, NEW b \in Int
    PROVE  Least(a, b) \in Int /\ Least(a, b) <= a /\ Least(a, b) <= b
  BY DEF Least

\* A request being read whose status moves on.
LEMMA EarlyStep ==
    ASSUME NEW v, NEW w, NEW o0, NEW O, NEW c, Sound(v, o0, O, c), Bare(v.r), Near(v, w)
    PROVE  Sound(w, o0, O, c) /\ Bare(w.r)
  <1>1. Bare(w.r)
    BY DEF Near, SameHold, Bare
  <1> QED BY <1>1, SoundNear

\* The body of a POST that came with its headers.
LEMMA BeginSound ==
    ASSUME NEW w, NEW o0, NEW O, NEW c, Sound(w, o0, O, c), Bare(w.r), w.r.status \in Early
    PROVE  Sound(PostBegin(w), o0, O, c) /\ PostBegin(w).ret \in {0, 1}
  <1> DEFINE r == [w.r EXCEPT !.status = "BODY_WRITE"]
             come == Drop(r.stream, r.parse_pos)
             part == Take(come, Least(Len(come), r.clen))
             bad == [w EXCEPT !.r = [r EXCEPT !.data = come]]
             on == [w EXCEPT !.r = [r EXCEPT !.filesize = r.clen, !.filepos = 0, !.data = part],
                             !.ret = 1]
  <1>1. PostBegin(w) = Refuse(bad, 400) \/ (PostBegin(w) = on /\ ~(w.r.clen <= 0))
    <2>1. r.clen = w.r.clen
      BY DEF Sound, HasParts, HasFields
    <2>2. PostBegin(w) = Refuse(bad, 400) \/ (PostBegin(w) = on /\ ~(r.clen <= 0))
      BY Zenon DEF PostBegin
    <2> QED BY <2>1, <2>2, Zenon
  <1>2. HasParts(w) /\ HasFields(w.r)
    BY DEF Sound, HasParts
  <1>3. SameHold(w.r, r) /\ RequestTyped(r) /\ HasFields(r)
    <2>1. RequestTyped(w.r)
      BY DEF Sound
    <2> QED BY <1>2, <2>1, EarlyHeaders DEF SameHold, HasFields, RequestTyped
  <1>7. come \in Seq(Token) /\ part \in Seq(Token)
    <2>1. r.stream \in Seq(Token) /\ r.parse_pos \in Nat /\ r.clen \in Int
      BY <1>3 DEF RequestTyped
    <2> HIDE DEF r
    <2>2. come \in Seq(Token)
      <3>1. r.parse_pos \in Int /\ r.parse_pos >= 0
        BY <2>1
      <3> QED BY <2>1, <3>1, Pieces
    <2> HIDE DEF come
    <2>3. Least(Len(come), r.clen) \in Int /\ Least(Len(come), r.clen) <= Len(come)
      <3>1. Len(come) \in Int
        BY <2>2
      <3> QED BY <2>1, <3>1, LeastOf
    <2> QED BY <2>2, <2>3, Pieces
  <1> HIDE DEF r, come, part
  <1>8. /\ bad.r = [r EXCEPT !.data = come] /\ bad.n = w.n /\ SameTables(w, bad)
        /\ on.r = [r EXCEPT !.filesize = r.clen, !.filepos = 0, !.data = part]
        /\ on.n = w.n /\ on.ret = 1 /\ SameTables(w, on)
    BY <1>2 DEF HasParts, SameTables
  <1> HIDE DEF bad, on
  <1>9. RequestTyped(bad.r) /\ SameHold(w.r, bad.r)
    BY <1>3, <1>7, <1>8 DEF RequestTyped, HasFields, SameHold
  <1>10. ASSUME ~(w.r.clen <= 0) PROVE RequestTyped(on.r)
    <2>1. r.clen = w.r.clen
      BY <1>2 DEF r, HasFields
    <2> QED BY <1>3, <1>7, <1>8, <1>10, <2>1 DEF RequestTyped, HasFields
  <1>11. SameHold(w.r, on.r)
    BY <1>3, <1>8 DEF HasFields, SameHold
  <1>4. Near(w, bad) /\ on.ret = 1 /\ (~(w.r.clen <= 0) => Near(w, on))
    <2>1. r.status = "BODY_WRITE"
      BY <1>2 DEF r, HasFields
    <2>2. bad.r.status \notin Pipes /\ on.r.status \notin Pipes
      BY <1>3, <1>8, <2>1, EarlyHeaders DEF HasFields
    <2> QED BY <1>8, <1>9, <1>10, <1>11, <2>2 DEF Near
  <1>5. Sound(bad, o0, O, c) /\ (~(w.r.clen <= 0) => Sound(on, o0, O, c))
    BY <1>4, EarlyStep
  <1>6. Sound(Refuse(bad, 400), o0, O, c) /\ Refuse(bad, 400).ret = 0
    <2>1. HasParts(bad)
      BY <1>5 DEF Sound
    <2>2. Like(bad, Refuse(bad, 400)) /\ Refuse(bad, 400).ret = 0
      BY <2>1, Refused
    <2> QED BY <1>5, <2>2, SoundLike
  <1> QED BY <1>1, <1>4, <1>5, <1>6

\* process_option_line opens and closes nothing.
LEMMA OptionNear ==
    ASSUME NEW w, HasParts(w), NEW line \in Token
    PROVE  LET v == process_option_line(w, line) IN
           Near(w, v) /\ v.ret \in {w.ret, 0} /\ (v.ret # 0 => v.r.status = w.r.status)
  <1> DEFINE r == w.r
             alive == [w EXCEPT !.r.keepalive = IF line.t = "KEEP" THEN "active" ELSE "stopped"]
             more == [w EXCEPT !.r = add_cgi_env(r)]
             long == [w EXCEPT !.r.clen = line.n]
             v == process_option_line(w, line)
  <1>1. v \in {alive, more, long, GiveUp(w)}
    <2> DEFINE other == IF r.envs < CGI_ENV_MAX THEN more ELSE GiveUp(w)
    <2>1. v = CASE line.t \in {"KEEP", "CLOSE"} ->
                     IF ka_max > 0 /\ r.keepalive # "stopped" THEN alive ELSE other
                [] line.t = "LENGTH" /\ r.clen = -1 -> long
                [] line.t \in NoColon -> GiveUp(w)
                [] OTHER -> other
      BY Zenon DEF process_option_line
    <2>2. other \in {more, GiveUp(w)}
      BY Zenon
    <2> HIDE DEF v, alive, more, long, other
    <2>3. CASE line.t \in {"KEEP", "CLOSE"}
      BY <2>1, <2>2, <2>3
    <2>4. CASE line.t \notin {"KEEP", "CLOSE"} /\ (line.t = "LENGTH" \/ line.t \in NoColon)
      BY <2>1, <2>2, <2>4
    <2>5. CASE line.t \notin {"KEEP", "CLOSE", "LENGTH"} \cup NoColon
      BY <2>1, <2>2, <2>5
    <2> QED BY <2>3, <2>4, <2>5
  <1>2. Near(w, alive) /\ Near(w, long) /\ Near(w, more)
        /\ alive.r.status = r.status /\ long.r.status = r.status /\ more.r.status = r.status
        /\ alive.ret = w.ret /\ long.ret = w.ret /\ more.ret = w.ret
    BY DEF add_cgi_env, Near, SameTables, HasParts, HasFields, SameHold, RequestTyped, NetTyped,
           Token
  <1>3. Near(w, GiveUp(w)) /\ GiveUp(w).ret = 0
    BY GivenUp DEF Near, Like, Kin
  <1> HIDE DEF alive, more, long
  <1> QED BY <1>1, <1>2, <1>3

\* process_logline opens and closes nothing; it is what sets the method.
LEMMA LogNear ==
    ASSUME NEW w, HasParts(w), NEW line
    PROVE  LET v == process_logline(w, line) IN
           Near(w, v) /\ v.ret \in {w.ret, 0} /\ (v.ret # 0 => v.r.status = w.r.status)
  <1> DEFINE r == [w.r EXCEPT !.logline = "yes"]
             method == CASE line.t \in {"GET", "GET09"}   -> "GET"
                         [] line.t \in {"POST", "POST09"} -> "POST"
                         [] line.t = "HEAD"               -> "HEAD"
                         [] OTHER                         -> "none"
             simple == IF line.t \in {"GET09", "POST09"} THEN "yes" ELSE "no"
             r1 == [r EXCEPT !.method = method, !.uri = line.n, !.simple = simple]
             on == [w EXCEPT !.r = r1]
             bad == [w EXCEPT !.r = r]
             v == process_logline(w, line)
  <1>1. v \in {Refuse(bad, 501), on}
    BY Zenon DEF process_logline
  <1>2. HasFields(w.r)
    BY DEF HasParts
  <1>3. /\ SameHold(w.r, r1) /\ r1.status = w.r.status
        /\ RequestTyped(w.r) => RequestTyped(r1)
    <2> HIDE DEF method, simple
    <2> QED BY <1>2 DEF SameHold, HasFields, RequestTyped
  <1>4. Like(w, bad)
    <2>1. Kin(w.r, r)
      BY <1>2 DEF Kin, SameHold, Told, HasFields, RequestTyped
    <2> QED BY <2>1, Replaced
  <1> HIDE DEF r1, bad
  <1>5. Near(w, on) /\ on.ret = w.ret /\ on.r.status = w.r.status
    BY <1>3 DEF Near, SameTables, HasParts, NetTyped
  <1>6. Like(w, Refuse(bad, 501)) /\ Refuse(bad, 501).ret = 0
    BY <1>4, LikeHas, LikeTrans, Refused
  <1>7. Near(w, Refuse(bad, 501))
    BY <1>6 DEF Near, Like, Kin
  <1> HIDE DEF on
  <1> QED BY <1>1, <1>5, <1>6, <1>7

\* What holds between two tokens.
Scanning(w, o0, O, c) ==
    Sound(w, o0, O, c) /\ w.ret \in {Go, 0, 1} /\ (w.ret = Go => w.r.status \in Headers)

\* The five-state recogniser of CR LF CR LF.
LEMMA HeaderStep ==
    ASSUME NEW status \in Headers, NEW t
    PROVE  HeaderStatus(status, t) \in Headers \cup {"BODY_READ"}
  <1>1. CASE status = "READ_HEADER"
    BY <1>1 DEF HeaderStatus, Headers
  <1>2. CASE status = "ONE_CR"
    BY <1>2 DEF HeaderStatus, Headers
  <1>3. CASE status = "ONE_LF"
    BY <1>3 DEF HeaderStatus, Headers
  <1>4. CASE status = "TWO_CR"
    BY <1>4 DEF HeaderStatus, Headers
  <1> QED BY <1>1, <1>2, <1>3, <1>4 DEF Headers

\* One token of read_header's loop.
LEMMA ScanSound ==
    ASSUME NEW w, NEW o0, NEW O, NEW c, Scanning(w, o0, O, c), NEW tok \in Token, NEW fault
    PROVE  Scanning(Scan(w, tok, fault), o0, O, c)
  <1>1. CASE w.ret # Go
    BY <1>1 DEF Scan
  <1>2. CASE w.ret = Go
    <2>0. NoLine \in Token
      BY DEF NoLine, Tok, Token
    <2> DEFINE s == HeaderStatus(w.r.status, tok.t)
               line == IF tok.t \in {"CR", "LF"} \/ w.r.line # NoLine THEN w.r.line ELSE tok
               p == [w EXCEPT !.r.status = s, !.r.parse_pos = @ + 1, !.r.line = line]
               fresh == [p EXCEPT !.r.line = NoLine]
               log == process_logline(fresh, p.r.line)
               p1 == [p EXCEPT !.ret = 1]
               end == process_header_end(p1, fault)
    <2>1. s \in Headers \cup {"BODY_READ"}
      BY <1>2, HeaderStep DEF Scanning
    <2>2. \/ Scan(w, tok, fault) = p /\ s # "BODY_READ"
          \/ Scan(w, tok, fault) = process_option_line(fresh, p.r.line) /\ s = "ONE_LF"
          \/ Scan(w, tok, fault) = AfterFirst(log, p.r.line, fault) /\ s = "ONE_LF"
          \/ Scan(w, tok, fault) = AfterEnd(end)
      <3>1. Scan(w, tok, fault) =
              CASE w.ret # Go -> w
                [] w.ret = Go /\ s = "ONE_LF" /\ w.r.logline = "yes" ->
                     process_option_line(fresh, p.r.line)
                [] w.ret = Go /\ s = "ONE_LF" /\ w.r.logline = "no" -> AfterFirst(log, p.r.line, fault)
                [] w.ret = Go /\ s = "BODY_READ" -> AfterEnd(end)
                [] OTHER -> p
        BY Zenon DEF Scan
      <3> DEFINE v == Scan(w, tok, fault)
                 option == process_option_line(fresh, p.r.line)
      <3> HIDE DEF v, s, option, log, end, p, fresh
      <3>2. CASE s = "BODY_READ"
        BY <1>2, <3>1, <3>2
      <3>3. CASE s = "ONE_LF" /\ w.r.logline \in {"yes", "no"}
        BY <1>2, <3>1, <3>3
      <3>4. CASE s # "BODY_READ" /\ (s # "ONE_LF" \/ w.r.logline \notin {"yes", "no"})
        BY <1>2, <3>1, <3>4
      <3> QED BY <3>2, <3>3, <3>4
    <2>3. HasParts(w) /\ HasFields(w.r) /\ Sound(w, o0, O, c) /\ Bare(w.r)
      BY <1>2, SoundBare, EarlyHeaders DEF Scanning, Sound, HasParts
    <2>12. RequestTyped(p.r) /\ w.r.status \in Early /\ s \in Early
      <3>1. RequestTyped(w.r) /\ w.r.status \in Early /\ s \in Early
        BY <1>2, <2>1, <2>3, EarlyHeaders DEF Scanning, Sound
      <3>2. line \in Token
        BY <3>1 DEF RequestTyped
      <3>3. p.r = [w.r EXCEPT !.status = s, !.parse_pos = @ + 1, !.line = line]
        BY <2>3 DEF HasParts
      <3> HIDE DEF s, line, p
      <3> QED BY <2>3, <3>1, <3>2, <3>3 DEF RequestTyped, HasFields
    <2> HIDE DEF s, line
    <2>4. Near(w, p) /\ p.r.status = s /\ p.ret = Go
      BY <1>2, <2>3, <2>12, EarlyHeaders DEF Near, SameTables, SameHold, HasParts, HasFields
    <2>13. p.r.line \in Token
      BY <2>12 DEF RequestTyped
    <2> HIDE DEF p
    <2>5. Sound(p, o0, O, c) /\ Bare(p.r) /\ HasParts(p)
      BY <2>3, <2>4, EarlyStep DEF Sound
    <2>6. Near(p, fresh) /\ fresh.r.status = s /\ fresh.ret = Go
      BY <2>0, <2>4, <2>5 DEF Near, SameTables, HasParts, HasFields, SameHold, RequestTyped, NetTyped
    <2> HIDE DEF fresh
    <2>7. Sound(fresh, o0, O, c) /\ Bare(fresh.r) /\ HasParts(fresh)
      BY <2>5, <2>6, EarlyStep DEF Sound
    <2>8. CASE Scan(w, tok, fault) = p /\ s # "BODY_READ"
      BY <2>1, <2>4, <2>5, <2>8 DEF Scanning
    <2>9. CASE Scan(w, tok, fault) = process_option_line(fresh, p.r.line) /\ s = "ONE_LF"
      <3> DEFINE v == process_option_line(fresh, p.r.line)
      <3>1. Near(fresh, v) /\ v.ret \in {fresh.ret, 0} /\ (v.ret # 0 => v.r.status = fresh.r.status)
        BY <2>7, <2>13, OptionNear, Zenon
      <3> HIDE DEF v
      <3>2. Sound(v, o0, O, c)
        BY <2>7, <3>1, EarlyStep
      <3>3. v.ret = Go => v.r.status \in Headers
        BY <2>6, <2>9, <3>1 DEF Headers, Go
      <3>4. v.ret \in {Go, 0, 1}
        BY <2>6, <3>1
      <3> QED BY <2>9, <3>2, <3>3, <3>4 DEF Scanning, v
    <2>10. CASE Scan(w, tok, fault) = AfterFirst(log, p.r.line, fault) /\ s = "ONE_LF"
      <3>1. Near(fresh, log) /\ log.ret \in {fresh.ret, 0} /\ (log.ret # 0 => log.r.status = fresh.r.status)
        BY <2>7, LogNear, Zenon
      <3> HIDE DEF log
      <3>2. Sound(log, o0, O, c) /\ Bare(log.r)
        BY <2>7, <3>1, EarlyStep
      <3>3. log.ret = Go => log.r.status \in Headers
        BY <2>6, <2>10, <3>1 DEF Headers, Go
      <3> DEFINE same == [log EXCEPT !.r.line = p.r.line]
                 l1 == [same EXCEPT !.ret = 1]
      <3>4. AfterFirst(log, p.r.line, fault) \in {log, process_header_end(l1, fault)}
        BY Zenon DEF AfterFirst
      <3>9. Near(log, same)
        BY <2>13, <3>2 DEF Sound, Near, SameTables, HasParts, HasFields, SameHold, RequestTyped, NetTyped
      <3> HIDE DEF same
      <3>10. Sound(same, o0, O, c) /\ Bare(same.r)
        BY <3>2, <3>9, EarlyStep
      <3>5. Like(same, l1)
        BY <3>10, Returned DEF Sound
      <3> HIDE DEF l1
      <3>6. Sound(l1, o0, O, c) /\ Bare(l1.r)
        <4>1. Sound(l1, o0, O, c)
          BY <3>10, <3>5, SoundLike
        <4> QED BY <3>10, <3>5, <4>1 DEF Like, Kin, SameHold, Told, Bare
      <3>7. Good(l1, process_header_end(l1, fault), o0, O, c)
        BY <3>6, EndSound
      <3>8. log.ret \in {Go, 0, 1}
        BY <2>6, <3>1
      <3> QED BY <2>10, <3>2, <3>3, <3>4, <3>7, <3>8 DEF Scanning, Good, Go
    <2>11. CASE Scan(w, tok, fault) = AfterEnd(end)
      <3>1. Like(p, p1) /\ p1.r.status \in Early
        <4>1. Like(p, p1)
          BY <2>5, Returned
        <4> QED BY <2>4, <2>5, <2>12, <4>1 DEF HasParts
      <3> HIDE DEF p1
      <3>2. Sound(p1, o0, O, c) /\ Bare(p1.r)
        <4>1. Sound(p1, o0, O, c)
          BY <2>5, <3>1, SoundLike
        <4> QED BY <2>5, <3>1, <4>1 DEF Like, Kin, SameHold, Told, Bare
      <3>3. /\ Good(p1, end, o0, O, c)
            /\ end.r.method = "POST" /\ end.ret # 0 => Bare(end.r) /\ end.r.status = p1.r.status
        BY <3>2, EndSound, Zenon
      <3> HIDE DEF end
      <3>4. Sound(AfterEnd(end), o0, O, c) /\ AfterEnd(end).ret \in {0, 1}
        BY <3>1, <3>3, BeginSound DEF AfterEnd, Good
      <3> QED BY <2>11, <3>4 DEF Scanning, Go
    <2> QED BY <2>2, <2>8, <2>9, <2>10, <2>11
  <1> QED BY <1>1, <1>2

\* What is read from the socket, and what is left there.
LEMMA Received ==
    ASSUME NEW s \in Seq(Token), NEW inq \in Seq(Token), NEW k \in Int, k <= Len(inq)
    PROVE  s \o Take(inq, k) \in Seq(Token) /\ (k > 0 => Drop(inq, k) \in Seq(Token))
  <1>1. Take(inq, k) \in Seq(Token)
    BY Pieces
  <1>2. s \o Take(inq, k) \in Seq(Token)
    BY <1>1, ConcatProperties
  <1>3. k > 0 => Drop(inq, k) \in Seq(Token)
    BY Pieces
  <1> QED BY <1>2, <1>3

\* read, into the client's buffer.
LEMMA MoreNear ==
    ASSUME NEW w, HasParts(w), RequestTyped(w.r), NetTyped(w.n)
    PROVE  Near(w, ReadMore(w))
  <1> DEFINE r == w.r
             k == Least(CLIENT_STREAM_SIZE - Len(r.stream), Len(w.n.inq))
             dead == [w EXCEPT !.r.status = "DEAD"]
             stream == r.stream \o Take(w.n.inq, k)
             inq == Drop(w.n.inq, k)
             on == [w EXCEPT !.r.stream = stream, !.n.inq = inq, !.ret = 1]
  <1>1. \/ ReadMore(w) \in {GiveUp(dead), [w EXCEPT !.ret = -1], GiveUp(w)}
        \/ ReadMore(w) = on /\ k > 0
    BY Zenon DEF ReadMore
  <1>2. Like(w, dead)
    BY LateStatus DEF Like, SameTables, HasParts, HasFields, Kin, SameHold, Told, RequestTyped, NetTyped
  <1>3. ASSUME k > 0 PROVE Near(w, on)
    <2>1. r.stream \in Seq(Token) /\ w.n.inq \in Seq(Token)
      BY DEF RequestTyped, NetTyped
    <2>2. k \in Int /\ k <= Len(w.n.inq)
      <3>1. CLIENT_STREAM_SIZE - Len(r.stream) \in Int /\ Len(w.n.inq) \in Int
        BY <2>1, BoaAssumption
      <3> QED BY <3>1, LeastOf
    <2> HIDE DEF k
    <2>3. stream \in Seq(Token) /\ inq \in Seq(Token)
      BY <1>3, <2>1, <2>2, Received
    <2> HIDE DEF stream, inq
    <2> QED BY <2>3 DEF Near, SameTables, HasParts, HasFields, SameHold, RequestTyped, NetTyped
  <1> HIDE DEF dead, on, k
  <1>4. Like(w, GiveUp(dead))
    BY <1>2, LikeHas, LikeTrans, GivenUp
  <1>5. Like(w, GiveUp(w)) /\ Like(w, [w EXCEPT !.ret = -1])
    BY GivenUp, Returned
  <1>6. \A v : Like(w, v) => Near(w, v)
    BY DEF Near, Like, Kin
  <1> QED BY <1>1, <1>3, <1>4, <1>5, <1>6

\* The whole loop, by induction over the tokens.
LEMMA ScannedSound ==
    ASSUME NEW w, NEW o0, NEW O, NEW c, Scanning(w, o0, O, c), NEW toks \in Seq(Token),
           NEW fault
    PROVE  Scanning(Scanned(w, toks, fault), o0, O, c)
  <1>1. PICK at : /\ Scanned(w, toks, fault) = at[Len(toks)]
                  /\ at[0] = w
                  /\ \A k \in 1..Len(toks) : at[k] = Scan(at[k - 1], toks[k], fault)
    <2>1. Len(toks) \in Nat
      OBVIOUS
    <2>2. ScannedBy(w, toks, fault)
      BY <2>1, ScannedSteps
    <2> QED BY <2>2 DEF ScannedBy
  <1> DEFINE S == {n \in Nat : n <= Len(toks) => Scanning(at[n], o0, O, c)}
  <1>2. 0 \in S
    BY <1>1
  <1>3. ASSUME NEW n \in S PROVE n + 1 \in S
    <2> SUFFICES ASSUME n + 1 <= Len(toks) PROVE Scanning(at[n + 1], o0, O, c)
      OBVIOUS
    <2>1. n \in Nat /\ n + 1 \in 1..Len(toks) /\ (n + 1) - 1 = n
      OBVIOUS
    <2>2. at[n + 1] = Scan(at[n], toks[n + 1], fault)
      BY <1>1, <2>1
    <2>3. Scanning(at[n], o0, O, c)
      BY <2>1
    <2>4. toks[n + 1] \in Token
      BY <2>1
    <2> QED BY <2>2, <2>3, <2>4, ScanSound
  <1>4. Len(toks) \in S
    <2> HIDE DEF S
    <2> QED BY <1>2, <1>3, Induct
  <1> QED BY <1>1, <1>4

\* read_header; it waits only for more of the headers.
LEMMA HeaderSound ==
    ASSUME NEW w, NEW o0, NEW O, NEW c, Sound(w, o0, O, c), w.r.status \in Headers,
           NEW fault
    PROVE  LET v == read_header(w, fault) IN
           Sound(v, o0, O, c) /\ (v.ret = -1 => v.r.status \in Headers)
  <1> DEFINE g == [w EXCEPT !.ret = Go]
             toks == Drop(w.r.stream, w.r.parse_pos)
             v == Scanned(g, toks, fault)
  <1>1. Like(w, g)
    BY Returned DEF Sound
  <1>2. g.r = w.r /\ g.ret = Go
    BY DEF Sound, HasParts
  <1>3. Scanning(g, o0, O, c)
    BY <1>1, <1>2, SoundLike DEF Scanning
  <1> HIDE DEF g
  <1>8. toks \in Seq(Token)
    <2>1. w.r.stream \in Seq(Token) /\ w.r.parse_pos \in Int /\ w.r.parse_pos >= 0
      BY DEF Sound, RequestTyped
    <2> QED BY <2>1, Pieces
  <1>4. Sound(v, o0, O, c) /\ v.ret \in {Go, 0, 1} /\ (v.ret = Go => v.r.status \in Headers)
    <2> HIDE DEF toks
    <2> QED BY <1>3, <1>8, ScannedSound DEF Scanning
  <1>5. read_header(w, fault) = AfterScan(v)
    BY DEF read_header, g
  <1> HIDE DEF v
  <1>6. Near(v, ReadMore(v))
    BY <1>4, MoreNear DEF Sound
  <1>7. v.ret = Go => Sound(ReadMore(v), o0, O, c)
    BY <1>4, <1>6, SoundBare, EarlyHeaders, EarlyStep
  <1>9. ReadMore(v).ret = -1 => ReadMore(v).r = v.r
    <2>1. HasParts(v)
      BY <1>4 DEF Sound
    <2> DEFINE k == Least(CLIENT_STREAM_SIZE - Len(v.r.stream), Len(v.n.inq))
               dead == [v EXCEPT !.r.status = "DEAD"]
               stream == v.r.stream \o Take(v.n.inq, k)
               inq == Drop(v.n.inq, k)
               on == [v EXCEPT !.r.stream = stream, !.n.inq = inq, !.ret = 1]
               waits == [v EXCEPT !.ret = -1]
    <2>2. ReadMore(v) \in {GiveUp(dead), waits, GiveUp(v), on}
      BY Zenon DEF ReadMore
    <2>3. waits.r = v.r /\ on.ret = 1 /\ GiveUp(v).ret = 0 /\ GiveUp(dead).ret = 0
      BY <2>1 DEF HasParts, GiveUp
    <2> HIDE DEF waits, on, dead
    <2> QED BY <2>2, <2>3
  <1>10. read_header(w, fault) = IF v.ret = Go THEN ReadMore(v) ELSE v
    BY <1>5 DEF AfterScan
  <1>11. CASE v.ret = Go
    BY <1>4, <1>7, <1>9, <1>10, <1>11
  <1>12. CASE v.ret # Go
    <2>1. v.ret # -1
      BY <1>4 DEF Go
    <2> QED BY <1>4, <1>10, <1>12, <2>1
  <1> QED BY <1>11, <1>12

\* read_body; it waits only for more of the body.
LEMMA BodySound ==
    ASSUME NEW w, NEW o0, NEW O, NEW c, Sound(w, o0, O, c), w.r.status = "BODY_READ"
    PROVE  LET v == read_body(w) IN
           Sound(v, o0, O, c) /\ (v.ret = -1 => v.r.status = "BODY_READ")
  <1> DEFINE r == w.r
             k == Least(Least(r.filesize - r.filepos, BUFFER_SIZE - Len(r.data)), Len(w.n.inq))
             full == [w EXCEPT !.r.status = "BODY_WRITE", !.ret = 1]
             body == r.data \o Take(w.n.inq, k)
             inq == Drop(w.n.inq, k)
             on == [w EXCEPT !.r.status = "BODY_WRITE", !.r.data = body, !.n.inq = inq, !.ret = 1]
  <1>1. \/ read_body(w) \in {full, [w EXCEPT !.ret = -1], Refuse(w, 400), Refuse(w, 500)}
        \/ read_body(w) = on /\ k > 0
    <2> DEFINE rest == CASE w.n.peer = "open"  -> [w EXCEPT !.ret = -1]
                         [] w.n.peer = "fin"   -> Refuse(w, 400)
                         [] OTHER              -> Refuse(w, 500)
    <2>1. rest \in {[w EXCEPT !.ret = -1], Refuse(w, 400), Refuse(w, 500)}
      <3>1. CASE w.n.peer = "open"
        BY <3>1
      <3>2. CASE w.n.peer = "fin"
        BY <3>2
      <3>3. CASE w.n.peer \notin {"open", "fin"}
        BY <3>3
      <3> QED BY <3>1, <3>2, <3>3
    <2>2. read_body(w) \in {full, rest} \/ (read_body(w) = on /\ k > 0)
      BY Zenon DEF read_body
    <2> HIDE DEF rest, full, on, k
    <2> QED BY <2>1, <2>2
  <1>2. HasParts(w) /\ HasFields(w.r) /\ Bare(w.r)
    BY SoundBare, EarlyHeaders DEF Sound, HasParts
  <1>7. RequestTyped(w.r) /\ w.r.status \in Early /\ NetTyped(w.n)
    BY EarlyHeaders DEF Sound
  <1>8. ASSUME k > 0 PROVE body \in Seq(Token) /\ inq \in Seq(Token)
    <2>1. /\ r.data \in Seq(Token) /\ w.n.inq \in Seq(Token)
          /\ r.filesize \in Int /\ r.filepos \in Int
      BY <1>7 DEF RequestTyped, NetTyped
    <2>2. k \in Int /\ k <= Len(w.n.inq)
      <3>1. /\ r.filesize - r.filepos \in Int /\ BUFFER_SIZE - Len(r.data) \in Int
            /\ Len(w.n.inq) \in Int
        BY <2>1, BoaAssumption
      <3> QED BY <3>1, LeastOf
    <2> HIDE DEF k
    <2> QED BY <1>8, <2>1, <2>2, Received
  <1> HIDE DEF k, body, inq
  <1>9. full.ret = 1 /\ on.ret = 1 /\ [w EXCEPT !.ret = -1].r = w.r
    BY <1>2 DEF HasParts
  <1>10. Refuse(w, 400).ret = 0 /\ Refuse(w, 500).ret = 0
    BY <1>2, Refused
  <1>3. Near(w, full) /\ (k > 0 => Near(w, on))
    BY <1>2, <1>7, <1>8, EarlyHeaders
       DEF Near, SameTables, SameHold, HasParts, HasFields, RequestTyped, NetTyped
  <1> HIDE DEF full, on
  <1>4. Sound(full, o0, O, c) /\ (k > 0 => Sound(on, o0, O, c))
    BY <1>2, <1>3, EarlyStep
  <1>5. Like(w, [w EXCEPT !.ret = -1]) /\ Like(w, Refuse(w, 400)) /\ Like(w, Refuse(w, 500))
    BY <1>2, Returned, Refused
  <1>6. Sound([w EXCEPT !.ret = -1], o0, O, c) /\ Sound(Refuse(w, 400), o0, O, c)
        /\ Sound(Refuse(w, 500), o0, O, c)
    BY <1>5, SoundLike
  <1> DEFINE v == read_body(w)
  <1>11. CASE v \in {full, Refuse(w, 400), Refuse(w, 500)} \/ (v = on /\ k > 0)
    <2>1. v.ret \in {0, 1} /\ Sound(v, o0, O, c)
      BY <1>4, <1>6, <1>9, <1>10, <1>11
    <2> QED BY <2>1
  <1>12. CASE v = [w EXCEPT !.ret = -1]
    <2>1. v.r = w.r
      BY <1>9, <1>12
    <2> QED BY <1>6, <1>12, <2>1
  <1> HIDE DEF v
  <1>13. v \in {full, Refuse(w, 400), Refuse(w, 500), [w EXCEPT !.ret = -1]} \/ (v = on /\ k > 0)
    BY <1>1 DEF v
  <1> QED BY <1>11, <1>12, <1>13, Zenon DEF v

\* write_body; it never waits.
LEMMA WriteSound ==
    ASSUME NEW w, NEW o0, NEW O, NEW c, Sound(w, o0, O, c), w.r.status = "BODY_WRITE", NEW fault
    PROVE  LET v == write_body(w, fault) IN
           Sound(v, o0, O, c) /\ v.ret # -1
  <1> DEFINE r == w.r
             k == Least(Len(r.data), r.filesize - r.filepos)
             empty == [w EXCEPT !.r.data = <<>>]
             back == [empty EXCEPT !.r.status = "BODY_READ", !.ret = 1]
             temp == r.temp \o Take(r.data, k)
             body == Drop(r.data, k)
             on == [w EXCEPT !.r.filepos = @ + k, !.r.data = body, !.r.temp = temp, !.ret = 1]
  <1>1. \/ write_body(w, fault) \in {init_cgi(empty, fault), back, Refuse(w, 500)}
        \/ write_body(w, fault) = on /\ k # 0
    BY Zenon DEF write_body
  <1>2. HasParts(w) /\ HasFields(w.r) /\ Bare(w.r)
    BY SoundBare, EarlyHeaders DEF Sound, HasParts
  <1>7. RequestTyped(w.r) /\ w.r.status \in Early /\ NetTyped(w.n)
    BY EarlyHeaders DEF Sound
  <1>8. k \in Nat /\ k <= r.filesize - r.filepos /\ r.filesize \in Int /\ r.filepos \in Int
    <2>1. /\ r.filesize - r.filepos \in Nat /\ r.filesize \in Int /\ r.filepos \in Int
          /\ Len(r.data) \in Nat
      BY <1>7 DEF RequestTyped
    <2> QED BY <2>1 DEF Least
  <1>9. body \in Seq(Token)
    <2>1. r.data \in Seq(Token)
      BY <1>7 DEF RequestTyped
    <2>2. k \in Int /\ k >= 0
      BY <1>8
    <2> HIDE DEF k
    <2> QED BY <2>1, <2>2, Pieces
  <1> HIDE DEF k, body, temp
  <1>10. /\ empty.r = [w.r EXCEPT !.data = <<>>] /\ empty.n = w.n /\ SameTables(w, empty)
         /\ back.r = [w.r EXCEPT !.data = <<>>, !.status = "BODY_READ"]
         /\ back.n = w.n /\ SameTables(w, back)
         /\ on.r = [w.r EXCEPT !.filepos = @ + k, !.data = body, !.temp = temp]
         /\ on.n = w.n /\ SameTables(w, on)
         /\ back.ret = 1 /\ on.ret = 1
    BY <1>2 DEF HasParts, SameTables
  <1> HIDE DEF empty, back, on
  <1>11. SameHold(w.r, empty.r) /\ SameHold(w.r, back.r) /\ SameHold(w.r, on.r)
    BY <1>2, <1>10 DEF SameHold, HasFields
  <1>12. RequestTyped(empty.r) /\ RequestTyped(back.r)
    BY <1>2, <1>7, <1>10, EarlyHeaders DEF RequestTyped, HasFields
  <1>13. RequestTyped(on.r)
    <2>1. /\ on.r.filepos = w.r.filepos + k /\ on.r.filesize = w.r.filesize
          /\ on.r.stream = w.r.stream /\ on.r.parse_pos = w.r.parse_pos
          /\ on.r.line = w.r.line /\ on.r.clen = w.r.clen /\ on.r.data = body
      BY <1>2, <1>10 DEF HasFields
    <2>2. on.r.filepos \in Int /\ on.r.filepos <= on.r.filesize
      BY <1>8, <2>1
    <2> QED BY <1>7, <1>9, <2>1, <2>2 DEF RequestTyped
  <1>3. Near(w, empty) /\ Near(w, back) /\ Near(w, on)
    <2>1. empty.r.status = w.r.status /\ back.r.status \notin Pipes /\ on.r.status = w.r.status
      BY <1>2, <1>10, EarlyHeaders DEF HasFields
    <2> QED BY <1>10, <1>11, <1>12, <1>13, <2>1 DEF Near
  <1>4. /\ Sound(empty, o0, O, c) /\ Bare(empty.r) /\ Sound(back, o0, O, c)
        /\ Sound(on, o0, O, c)
    BY <1>2, <1>3, EarlyStep
  <1>5. Sound(init_cgi(empty, fault), o0, O, c) /\ init_cgi(empty, fault).ret \in {0, 1}
    BY <1>4, CgiSound DEF Bare
  <1>6. Sound(Refuse(w, 500), o0, O, c) /\ Refuse(w, 500).ret = 0
    BY <1>2, Refused, SoundLike
  <1> QED BY <1>1, <1>4, <1>5, <1>6, <1>10

-----------------------------------------------------------------------------
(* The event loop.  What the other requests hold, and what they have mapped. *)

Others(f) == UNION {HeldBy(req[g]) : g \in Requests \ {f}}
Uses(f) == [i \in Indices |-> Cardinality({g \in Requests \ {f} : req[g].mmap = i})]

\* The requests of the two lists are finitely many connections.
LEMMA RequestsFinite ==
    ASSUME ListsOK
    PROVE  Requests \subseteq Fds /\ IsFiniteSet(Requests)
  <1>1. ToSet(ready) \subseteq Fds /\ ToSet(block) \subseteq Fds
    BY DEF ListsOK, ToSet
  <1>2. IsFiniteSet(ToSet(ready) \cup ToSet(block))
    BY ListsCount DEF ListsOK
  <1> QED BY <1>1, <1>2 DEF Requests

\* The users of a mapping, without the request at hand.
LEMMA UsesCount ==
    ASSUME ListsOK, NEW f, NEW i \in Indices
    PROVE  /\ IsFiniteSet({g \in Requests \ {f} : req[g].mmap = i})
           /\ Uses(f)[i] = Cardinality({g \in Requests \ {f} : req[g].mmap = i})
           /\ Uses(f)[i] \in Nat
  <1> DEFINE S == {g \in Requests \ {f} : req[g].mmap = i}
  <1>1. IsFiniteSet(S)
    BY RequestsFinite, FS_Subset
  <1>2. Uses(f)[i] = Cardinality(S)
    BY DEF Uses
  <1>3. Cardinality(S) \in Nat
    <2> HIDE DEF S
    <2> QED BY <1>1, FS_CardinalityType
  <1> QED BY <1>1, <1>2, <1>3

\* What a handler is given is sound.
LEMMA WorkSound ==
    ASSUME BoaInv, NEW f \in Requests
    PROVE  Sound(Work(f), open, Others(f), Uses(f))
  <1>1. f \in Fds /\ f \in AllFds /\ Requests \subseteq Fds
    BY RequestsFinite DEF BoaInv, AllFds
  <1>2. HasParts(Work(f)) /\ RequestTyped(req[f]) /\ NetTyped(net[f])
    BY <1>1 DEF BoaInv, TablesOK, InputsOK, HasParts, Work, NetTyped, NoNet
  <1>3. ASSUME NEW g \in Requests PROVE HeldBy(req[g]) \subseteq AllFds
    BY <1>3 DEF BoaInv, RequestOK, HeldBy
  <1>4. Holds(open, req[f], open, Others(f))
    <2>1. Others(f) \subseteq AllFds
      BY <1>3 DEF Others
    <2>2. HeldBy(req[f]) \cap Others(f) = {}
      BY DEF BoaInv, Accounted, Others
    <2>3. ASSUME NEW g \in AllFds
          PROVE  open[g] \in Owned <=> g \in HeldBy(req[f]) \cup Others(f)
      <3>1. open[g] \in Owned <=> g \in UNION {HeldBy(req[h]) : h \in Requests}
        <4>1. {h \in AllFds : open[h] \in {"pipe", "file", "temp"}}
                = UNION {HeldBy(req[h]) : h \in Requests}
          BY DEF BoaInv, Accounted
        <4> QED BY <4>1 DEF Owned
      <3> QED BY <3>1 DEF Others
    <2> QED BY <2>1, <2>2, <2>3 DEF Holds, BoaInv, TablesOK
  <1>5. Maps(mm, used, req[f].mmap, Uses(f))
    <2>1. DOMAIN mm = Indices /\ \A i \in Indices : DOMAIN mm[i] = {"count", "file"}
      BY DEF BoaInv, TablesOK
    <2>2. used = Cardinality({i \in Indices : mm[i].count > 0})
      BY <2>1 DEF BoaInv, Accounted
    <2>3. ASSUME NEW i \in Indices
          PROVE  mm[i].count = Uses(f)[i] + (IF req[f].mmap = i THEN 1 ELSE 0) /\ Uses(f)[i] \in Nat
      <3> DEFINE S == {g \in Requests \ {f} : req[g].mmap = i}
                 T == {g \in Requests : req[g].mmap = i}
      <3>1. IsFiniteSet(S) /\ Uses(f)[i] = Cardinality(S) /\ Uses(f)[i] \in Nat
        BY UsesCount DEF BoaInv
      <3>2. mm[i].count = Cardinality(T)
        BY <2>1 DEF BoaInv, Accounted
      <3>3. CASE req[f].mmap = i
        <4>1. T = S \cup {f} /\ f \notin S
          BY <3>3
        <4> HIDE DEF S, T
        <4>2. Cardinality(T) = Cardinality(S) + 1
          BY <3>1, <4>1, FS_AddElement
        <4> QED BY <3>1, <3>2, <3>3, <4>2
      <3>4. CASE req[f].mmap # i
        <4>1. T = S
          BY <3>4
        <4> HIDE DEF S, T
        <4> QED BY <3>1, <3>2, <3>4, <4>1
      <3> QED BY <3>3, <3>4
    <2> QED BY <2>1, <2>2, <2>3 DEF Maps
  <1> QED BY <1>2, <1>4, <1>5 DEF Sound, Work

\* A step that changes one request f, or adds or removes it, keeps the invariant if
\* it keeps what the others have.
LEMMA OneChanged ==
    ASSUME BoaInv, NEW f \in Fds, ListsOK', InputsOK', Requests' \ {f} = Requests \ {f},
           total_connections' = Cardinality(Requests'),
           DOMAIN req' = Fds, HasFields(req'[f]), \A g \in Fds \ {f} : req'[g] = req[g],
           open' \in [AllFds -> {"listen", "free", "socket", "pipe", "file", "temp", "lost"}],
           \A g \in AllFds \ {f} :
              open'[g] \in {"socket", "listen"} \/ open[g] \in {"socket", "listen"} \/ g \in Others(f)
                => open'[g] = open[g],
           open'[f] = "socket" <=> f \in Requests', open'[f] # "listen",
           f \notin Others(f), HeldBy(req'[f]) \cap Others(f) = {},
           \A g \in AllFds : open'[g] \in Owned <=> g \in HeldBy(req'[f]) \cup Others(f),
           RequestOK(req'[f], open'),
           Maps(mm', used', req'[f].mmap, Uses(f)),
           f \notin Requests' => HeldBy(req'[f]) = {} /\ req'[f].mmap = -1,
           sigterm_flag' = sigterm_flag
    PROVE  BoaInv'
  <1>1. /\ f \in AllFds /\ server_s \in AllFds /\ f # server_s
        /\ Requests \subseteq Fds /\ Requests' \subseteq Fds /\ IsFiniteSet(Requests)
        /\ Fds \subseteq AllFds
    <2>1. (Requests \subseteq Fds)'
      BY RequestsFinite, PTL
    <2> QED BY <2>1, RequestsFinite, BoaAssumption DEF BoaInv, AllFds
  <1>2. ASSUME NEW g \in Requests', g # f
        PROVE  g \in Requests /\ req'[g] = req[g] /\ HeldBy(req[g]) \subseteq Others(f)
    BY <1>1, <1>2 DEF Others
  <1>3. TablesOK'
    <2>1. \A g \in Fds : open'[g] # "listen"
      BY <1>1 DEF BoaInv, TablesOK
    <2>2. open'[server_s] # "socket" /\ (sigterm_flag' \in {0, 1} => open'[server_s] = "listen")
      BY <1>1 DEF BoaInv, TablesOK
    <2>3. \A g \in Fds : HasFields(req'[g])
      BY DEF BoaInv, TablesOK
    <2>4. DOMAIN mm' = Indices /\ \A i \in Indices : DOMAIN mm'[i] = {"count", "file"}
      BY DEF Maps
    <2> QED BY <2>1, <2>2, <2>3, <2>4 DEF TablesOK
  <1>4. ASSUME NEW g \in Requests' PROVE RequestOK(req'[g], open')
    <2>1. CASE g = f
      BY <2>1
    <2>2. CASE g # f
      <3>1. RequestOK(req[g], open) /\ HeldBy(req[g]) \subseteq Others(f) /\ req'[g] = req[g]
        BY <1>2, <2>2 DEF BoaInv
      <3>2. ASSUME NEW h \in HeldBy(req[g]), h \in AllFds PROVE open'[h] = open[h]
        BY <3>1, <3>2
      <3> QED BY <3>1, <3>2 DEF RequestOK, HeldBy
    <2> QED BY <2>1, <2>2
  <1>5. Accounted'
    <2>1. Len(ready') + Len(block') = Cardinality(Requests')
      BY ListsCount DEF ListsOK, Requests
    <2>2. {g \in AllFds : open'[g] = "socket"} = Requests'
      <3>1. {g \in AllFds : open[g] = "socket"} = Requests
        BY DEF BoaInv, Accounted
      <3> QED BY <1>1, <3>1
    <2>3. {g \in AllFds : open'[g] \in {"pipe", "file", "temp"}}
            = UNION {HeldBy(req'[g]) : g \in Requests'}
      <3>1. {g \in AllFds : open'[g] \in Owned} = HeldBy(req'[f]) \cup Others(f)
        <4>1. HeldBy(req'[f]) \subseteq AllFds
          BY DEF RequestOK, HeldBy
        <4>2. Others(f) \subseteq AllFds
          BY DEF Others, BoaInv, RequestOK, HeldBy
        <4> QED BY <4>1, <4>2
      <3>2. Others(f) = UNION {HeldBy(req'[g]) : g \in Requests' \ {f}}
        BY <1>1 DEF Others
      <3> QED BY <3>1, <3>2 DEF Owned
    <2>4. ASSUME NEW g \in Requests', NEW h \in Requests', g # h
          PROVE  HeldBy(req'[g]) \cap HeldBy(req'[h]) = {}
      <3>1. CASE g = f
        BY <1>2, <2>4, <3>1
      <3>2. CASE h = f
        BY <1>2, <2>4, <3>2
      <3>3. CASE g # f /\ h # f
        BY <1>2, <2>4, <3>3 DEF BoaInv, Accounted
      <3> QED BY <3>1, <3>2, <3>3
    <2>5. ASSUME NEW i \in Indices
          PROVE  mm'[i].count = Cardinality({g \in Requests' : req'[g].mmap = i})
      <3> DEFINE S == {g \in Requests \ {f} : req[g].mmap = i}
                 T == {g \in Requests' : req'[g].mmap = i}
      <3>1. IsFiniteSet(S) /\ Uses(f)[i] = Cardinality(S) /\ Uses(f)[i] \in Nat
        BY UsesCount DEF BoaInv
      <3>2. mm'[i].count = Uses(f)[i] + (IF req'[f].mmap = i THEN 1 ELSE 0) /\ i # -1
        BY BoaAssumption DEF Maps, Indices
      <3>3. S = {g \in Requests' \ {f} : req'[g].mmap = i}
        BY <1>1, <1>2
      <3>4. CASE req'[f].mmap = i
        <4>1. T = S \cup {f} /\ f \notin S
          BY <3>2, <3>3, <3>4
        <4> HIDE DEF S, T
        <4>2. Cardinality(T) = Cardinality(S) + 1
          BY <3>1, <4>1, FS_AddElement
        <4> QED BY <3>1, <3>2, <3>4, <4>2 DEF T
      <3>5. CASE req'[f].mmap # i
        <4>1. T = S
          BY <3>3, <3>5
        <4> HIDE DEF S
        <4>2. mm'[i].count = Cardinality(S)
          BY <3>1, <3>2, <3>5
        <4> QED BY <4>1, <4>2, Zenon
      <3> QED BY <3>4, <3>5
    <2>6. DOMAIN mm' = Indices /\ used' = Cardinality({i \in Indices : mm'[i].count > 0})
      BY DEF Maps
    <2> QED BY <2>1, <2>2, <2>3, <2>4, <2>5, <2>6 DEF Accounted
  <1> QED BY <1>3, <1>4, <1>5 DEF BoaInv

\* The request at hand.
LEMMA AtHand ==
    ASSUME BoaInv, stage \in {"handle", "accept", "dispose"}
    PROVE  /\ Head(todo) \in Fds /\ Head(todo) \in ToSet(ready) /\ Head(todo) \in Requests
           /\ Tail(todo) \in Seq(Fds) /\ IsInjective(Tail(todo))
           /\ ToSet(Tail(todo)) \subseteq ToSet(ready) \ {Head(todo)}
  <1>1. todo \in Seq(Fds) /\ IsInjective(todo) /\ todo # <<>> /\ ToSet(todo) \subseteq ToSet(ready)
    BY DEF BoaInv, ListsOK
  <1>2. /\ Head(todo) \in Fds /\ Head(todo) \in ToSet(todo)
        /\ Tail(todo) \in Seq(Fds) /\ IsInjective(Tail(todo))
        /\ ToSet(Tail(todo)) \subseteq ToSet(todo) \ {Head(todo)}
    BY <1>1, TailOnce
  <1> QED BY <1>1, <1>2 DEF Requests

\* A handler's result is put back.
LEMMA HandledInv ==
    ASSUME BoaInv, stage = "handle", NEW f \in Fds, f \in Requests,
           NEW w, Sound(w, open, Others(f), Uses(f)), Handled(f, w)
    PROVE  BoaInv'
  <1> DEFINE q == IF sigterm_flag # 0 THEN SQUASH_KA(w.r) ELSE w.r
             v == [w EXCEPT !.r = q]
  <1>1. /\ req' = [req EXCEPT ![f] = q] /\ net' = [net EXCEPT ![f] = w.n]
        /\ open' = w.open /\ mm' = w.mm /\ used' = w.used
        /\ stage' \in {"accept", "dispose"}
        /\ UNCHANGED <<todo, total_connections, ready, block, sigterm_flag, backlog, arrivals>>
    BY DEF Handled
  <1>2. HasParts(w) /\ HasFields(w.r)
    BY DEF Sound, HasParts
  <1>3. Kin(w.r, q)
    BY <1>2, Worded
  <1> HIDE DEF q
  <1>4. Like(w, v) /\ v.r = q /\ v.open = w.open /\ v.mm = w.mm /\ v.used = w.used /\ v.n = w.n
    <2>1. Like(w, v)
      BY <1>2, <1>3, Replaced
    <2> QED BY <1>2, <2>1 DEF HasParts
  <1> HIDE DEF v
  <1>5. Sound(v, open, Others(f), Uses(f))
    BY <1>4, SoundLike
  <1>6. /\ HasFields(q) /\ RequestTyped(q) /\ NetTyped(w.n)
        /\ Holds(open', q, open, Others(f)) /\ Maps(mm', used', q.mmap, Uses(f))
    BY <1>1, <1>4, <1>5 DEF Sound, HasParts
  <1>7. DOMAIN req' = Fds /\ req'[f] = q /\ \A g \in Fds \ {f} : req'[g] = req[g]
    BY <1>1 DEF BoaInv, TablesOK
  <1>8. ListsOK' /\ Requests' = Requests
    BY <1>1 DEF BoaInv, ListsOK, Requests
  <1>9. InputsOK'
    <2>1. DOMAIN net' = Fds /\ \A g \in Fds : NetTyped(net'[g])
      BY <1>1, <1>6 DEF BoaInv, InputsOK
    <2>2. \A g \in Fds : RequestTyped(req'[g])
      BY <1>6, <1>7 DEF BoaInv, InputsOK
    <2> QED BY <1>1, <2>1, <2>2 DEF BoaInv, InputsOK
  <1>10. f \in AllFds /\ open[f] = "socket"
    BY DEF BoaInv, Accounted, AllFds
  <1>11. open'[f] = "socket"
    BY <1>6, <1>10 DEF Holds
  <1>12. f \notin Others(f)
    <2>1. open[f] \notin Owned /\ f \in AllFds
      BY <1>10 DEF Owned
    <2>2. Holds(open, req[f], open, Others(f))
      BY WorkSound DEF Sound, Work
    <2> QED BY <2>1, <2>2 DEF Holds
  <1>13. total_connections' = Cardinality(Requests')
    BY <1>1, <1>8 DEF BoaInv, Accounted
  <1> QED BY <1>1, <1>6, <1>7, <1>8, <1>9, <1>10, <1>11, <1>12, <1>13, OneChanged DEF Holds

\* Each status of process_requests' switch, and the flush, leave a sound request, and
\* none asks to sleep with a body yet to be saved.
LEMMA RunSound ==
    ASSUME BoaInv,
           \/ ReadHeader \/ ReadBody \/ WriteBody \/ ProcessGet \/ ReadFromPipe \/ WriteFromPipe
           \/ Flush \/ Done \/ Dead
    PROVE  \E f \in Requests : \E v :
              /\ stage = "handle" /\ f = Head(todo) /\ f \in Fds
              /\ Sound(v, open, Others(f), Uses(f)) /\ Handled(f, v)
              /\ v.ret = -1 => Sleepy(v.r)
  <1>0. stage = "handle"
    BY DEF ReadHeader, ReadBody, WriteBody, ProcessGet, ReadFromPipe, WriteFromPipe, Flush, Done,
           Dead, Running
  <1>1. PICK f \in Fds : f = Head(todo) /\ f \in Requests
    BY <1>0, AtHand
  <1> DEFINE Ok(v) == Sound(v, open, Others(f), Uses(f))
             Rests(v) == v.ret = -1 => Sleepy(v.r)
  <1>2. Ok(Work(f)) /\ Work(f).r = req[f] /\ HasParts(Work(f))
    BY <1>1, WorkSound DEF Sound, Work
  <1>3. ASSUME NEW v, Like(Work(f), v) PROVE Ok(v)
    BY <1>2, <1>3, SoundLike
  <1>12. ASSUME NEW v, Like(Work(f), v), req[f].status # "BODY_WRITE" PROVE Rests(v)
    <2>1. v.r.status = req[f].status \/ v.r.status \notin Early
      BY <1>2, <1>12 DEF Like, Kin
    <2> QED BY <1>12, <2>1, EarlyHeaders DEF Sleepy
  <1> SUFFICES \E v : Ok(v) /\ Handled(f, v) /\ Rests(v)
    BY <1>0, <1>1
  <1> HIDE DEF Ok, Rests
  <1>4. CASE ReadHeader
    <2>1. req[f].status \in Headers
      BY <1>1, <1>4 DEF ReadHeader, Running
    <2>2. PICK fault : \E v \in {read_header(Work(f), fault)} : Handled(f, v)
      BY <1>1, <1>4 DEF ReadHeader, RunWith
    <2> DEFINE v == read_header(Work(f), fault)
    <2>3. Ok(v) /\ (v.ret = -1 => v.r.status \in Headers)
      BY <1>2, <2>1, HeaderSound, Zenon DEF Ok
    <2>4. Rests(v)
      <3> HIDE DEF v
      <3> QED BY <2>3 DEF Rests, Sleepy, Headers
    <2> QED BY <2>2, <2>3, <2>4
  <1>5. CASE ReadBody
    <2>1. req[f].status = "BODY_READ"
      BY <1>1, <1>5 DEF ReadBody, Running
    <2>2. \E v \in {read_body(Work(f))} : Handled(f, v)
      BY <1>1, <1>5 DEF ReadBody, Run
    <2> DEFINE v == read_body(Work(f))
    <2>3. Ok(v) /\ (v.ret = -1 => v.r.status = "BODY_READ")
      BY <1>2, <2>1, BodySound, Zenon DEF Ok
    <2>4. Rests(v)
      <3> HIDE DEF v
      <3> QED BY <2>3 DEF Rests, Sleepy
    <2> QED BY <2>2, <2>3, <2>4
  <1>6. CASE WriteBody
    <2>1. req[f].status = "BODY_WRITE"
      BY <1>1, <1>6 DEF WriteBody, Running
    <2>2. PICK fault : \E v \in {write_body(Work(f), fault)} : Handled(f, v)
      BY <1>1, <1>6 DEF WriteBody, RunWith
    <2> DEFINE v == write_body(Work(f), fault)
    <2>3. Ok(v) /\ v.ret # -1
      BY <1>2, <2>1, WriteSound, Zenon DEF Ok
    <2>4. Rests(v)
      <3> HIDE DEF v
      <3> QED BY <2>3 DEF Rests
    <2> QED BY <2>2, <2>3, <2>4
  <1>7. CASE ProcessGet
    <2>1. req[f].status = "WRITE"
      BY <1>1, <1>7 DEF ProcessGet, Running
    <2>2. PICK fault : \E v \in {process_get(Work(f), fault)} : Handled(f, v)
      BY <1>1, <1>7 DEF ProcessGet, RunWith
    <2>3. Like(Work(f), process_get(Work(f), fault))
      BY <1>2, <2>1, LateStatus, GetLike
    <2> QED BY <1>3, <1>12, <2>1, <2>2, <2>3
  <1>8. CASE ReadFromPipe
    <2>1. req[f].status = "PIPE_READ"
      BY <1>1, <1>8 DEF ReadFromPipe, Running
    <2>2. \E v \in {read_from_pipe(Work(f))} : Handled(f, v)
      BY <1>1, <1>8 DEF ReadFromPipe, Run
    <2>3. Like(Work(f), read_from_pipe(Work(f)))
      BY <1>2, <2>1, LateStatus, PipeReadLike
    <2> QED BY <1>3, <1>12, <2>1, <2>2, <2>3
  <1>9. CASE WriteFromPipe
    <2>1. req[f].status = "PIPE_WRITE"
      BY <1>1, <1>9 DEF WriteFromPipe, Running
    <2>2. \E v \in {write_from_pipe(Work(f))} : Handled(f, v)
      BY <1>1, <1>9 DEF WriteFromPipe, Run
    <2>3. Like(Work(f), write_from_pipe(Work(f)))
      BY <1>2, <2>1, LateStatus, PipeWriteLike
    <2> QED BY <1>3, <1>12, <2>1, <2>2, <2>3
  <1>10. CASE Flush \/ Done
    <2> DEFINE w == req_flush(Work(f))
               dead == [w EXCEPT !.r.status = "DEAD", !.ret = 0]
               on == [w EXCEPT !.ret = 1]
    <2>1. \E v \in {dead, on, w} : Handled(f, v)
      BY <1>1, <1>10, Zenon DEF Flush, Done, Run
    <2>2. Like(Work(f), w) /\ HasParts(w)
      BY <1>2, Flushed, LikeHas
    <2>5. w.ret = -1 => w.r.buf = req[f].buf
      BY <1>2, FlushWaits
    <2> HIDE DEF w
    <2>3. Like(w, dead) /\ Like(w, on) /\ dead.ret = 0 /\ on.ret = 1
      BY <2>2, LateStatus DEF Like, SameTables, HasParts, HasFields, Kin, SameHold, Told, RequestTyped, NetTyped
    <2> HIDE DEF dead, on
    <2>4. Ok(dead) /\ Ok(on) /\ Ok(w)
      BY <1>3, <2>2, <2>3, LikeTrans
    <2>6. Rests(dead) /\ Rests(on)
      BY <2>3 DEF Rests
    <2>7. Rests(w)
      <3>1. CASE Flush
        <4>1. req[f].buf # <<>>
          BY <1>1, <3>1 DEF Flush
        <4> QED BY <2>5, <4>1 DEF Rests, Sleepy
      <3>2. CASE Done
        <4>1. req[f].status # "BODY_WRITE"
          BY <1>1, <3>2 DEF Done, Running
        <4> QED BY <1>12, <2>2, <4>1
      <3> QED BY <1>10, <3>1, <3>2
    <2> QED BY <2>1, <2>4, <2>6, <2>7
  <1>11. CASE Dead
    <2> DEFINE q == [SQUASH_KA(req[f]) EXCEPT !.buf = <<>>, !.start = 0]
               v == [Work(f) EXCEPT !.r = q, !.ret = 0]
    <2>1. Handled(f, v) /\ req[f].status # "BODY_WRITE"
      BY <1>1, <1>2, <1>11 DEF Dead, Run, Running
    <2>2. Kin(req[f], q)
      BY <1>2 DEF Kin, SameHold, Told, HasParts, HasFields, SQUASH_KA, RequestTyped
    <2> HIDE DEF q
    <2>3. Like(Work(f), v)
      BY <1>2, <2>2, Replaced
    <2> QED BY <1>3, <1>12, <2>1, <2>3
  <1> QED BY <1>4, <1>5, <1>6, <1>7, <1>8, <1>9, <1>10, <1>11

\* So they keep the invariant.
LEMMA RunInv ==
    ASSUME BoaInv,
           \/ ReadHeader \/ ReadBody \/ WriteBody \/ ProcessGet \/ ReadFromPipe \/ WriteFromPipe
           \/ Flush \/ Done \/ Dead
    PROVE  BoaInv'
  BY RunSound, HandledInv

\* A request of which nothing is open or mapped.
LEMMA FreshRequest ==
    ASSUME NEW n, NEW s \in Seq(Token)
    PROVE  LET r == NewRequest(n, s) IN
           HasFields(r) /\ RequestTyped(r) /\ Bare(r) /\ r.post_data_fd = -1
  <1>1. "data_fd" \in DOMAIN NewRequest(n, s) /\ HasFields(NewRequest(n, s))
    BY DEF NewRequest, HasFields
  <1>2. NoLine \in Token
    BY DEF NoLine, Tok, Token
  <1>3. <<>> \in Seq(Token)
    OBVIOUS
  <1>4. RequestTyped(NewRequest(n, s))
    BY <1>2, <1>3 DEF NewRequest, RequestTyped
  <1> QED BY <1>1, <1>4 DEF NewRequest, Bare, Pipes

\* A request just made holds nothing.
LEMMA BareHolds ==
    ASSUME NEW r, Bare(r), r.post_data_fd = -1, NEW fds
    PROVE  HeldBy(r) = {} /\ RequestOK(r, fds)
  BY DEF Bare, HeldBy, RequestOK

\* get_request: the connection is a new request, first in the ready list, or there
\* is none.
LEMMA GotLists ==
    ASSUME BoaInv, get_request, UNCHANGED block
    PROVE  /\ ready' \in Seq(Fds) /\ IsInjective(ready') /\ ToSet(ready) \subseteq ToSet(ready')
           /\ ToSet(ready') \cap ToSet(block) = {}
           /\ \/ UNCHANGED <<req, net, open, ready, backlog, total_connections>>
              \/ \E fd \in Fds :
                    /\ fd = LowestFree(open) /\ fd \notin Requests /\ open[fd] = "free"
                    /\ open[server_s] = "listen" /\ backlog # <<>>
                    /\ Requests' = Requests \cup {fd}
  <1>1. CASE UNCHANGED <<req, net, open, ready, backlog, total_connections>>
    BY <1>1 DEF BoaInv, ListsOK
  <1>2. CASE ~UNCHANGED <<req, net, open, ready, backlog, total_connections>>
    <2>1. /\ open[server_s] = "listen" /\ backlog # <<>> /\ Free(open) # {}
          /\ ready' = <<LowestFree(open)>> \o ready
      BY <1>2 DEF get_request
    <2>2. PICK fd \in AllFds : fd = LowestFree(open) /\ open[fd] = "free"
      BY <2>1, LowestIsFree DEF Free
    <2>3. fd \in Fds /\ fd \notin Requests
      BY <2>1, <2>2 DEF BoaInv, Accounted, AllFds
    <2>4. ready \in Seq(Fds) /\ IsInjective(ready) /\ fd \notin ToSet(ready) /\ fd \notin ToSet(block)
          /\ ToSet(ready) \cap ToSet(block) = {}
      BY <2>3 DEF BoaInv, ListsOK, Requests
    <2>5. /\ ready' \in Seq(Fds) /\ IsInjective(ready') /\ ToSet(ready') = {fd} \cup ToSet(ready)
      BY <2>1, <2>2, <2>3, <2>4, Enqueued
    <2>6. Requests' = Requests \cup {fd}
      BY <2>5 DEF Requests
    <2> QED BY <2>1, <2>2, <2>3, <2>4, <2>5, <2>6
  <1> QED BY <1>1, <1>2

\* get_request keeps the invariant, one that finds no descriptor included.
LEMMA GotInv ==
    ASSUME BoaInv, get_request, ListsOK',
           UNCHANGED <<block, mm, used, sigterm_flag, arrivals>>
    PROVE  BoaInv'
  <1>1. CASE UNCHANGED <<req, net, open, ready, backlog, total_connections>>
    <2>1. TablesOK' /\ InputsOK' /\ Requests' = Requests
      BY <1>1 DEF BoaInv, TablesOK, InputsOK, Requests
    <2>2. Accounted' /\ \A f \in Requests' : RequestOK(req'[f], open')
      BY <1>1, <2>1 DEF BoaInv, Accounted
    <2> QED BY <2>1, <2>2 DEF BoaInv
  <1>2. CASE ~UNCHANGED <<req, net, open, ready, backlog, total_connections>>
    <2>1. PICK fd \in Fds : /\ fd = LowestFree(open) /\ fd \notin Requests /\ open[fd] = "free"
                            /\ open[server_s] = "listen" /\ backlog # <<>>
                            /\ Requests' = Requests \cup {fd}
      BY <1>2, GotLists
    <2> DEFINE conn == NewRequest(ka_max, <<>>)
               nw == [NoNet EXCEPT !.more = Head(backlog)]
               w0 == [r |-> conn, n |-> nw, ret |-> 0]
               w == send_r(w0, 503)
               late == [w.r EXCEPT !.status = "DONE"]
               tooMany == fd > max_connections
    <2>2. /\ req' = [req EXCEPT ![fd] = IF tooMany THEN late ELSE conn]
          /\ net' = [net EXCEPT ![fd] = IF tooMany THEN w.n ELSE nw]
          /\ open' = [open EXCEPT ![fd] = "socket"]
          /\ backlog' = Tail(backlog)
          /\ total_connections' = total_connections + 1
      BY <1>2, <2>1, Zenon DEF get_request
    <2>3. HasFields(conn) /\ RequestTyped(conn) /\ Bare(conn) /\ conn.post_data_fd = -1
      <3>1. <<>> \in Seq(Token)
        OBVIOUS
      <3> QED BY <3>1, FreshRequest, Zenon
    <2>4. NetTyped(nw) /\ backlog' \in Seq(Seq(Seq(Token)))
      <3>1. backlog \in Seq(Seq(Seq(Token)))
        BY DEF BoaInv, InputsOK
      <3>2. Head(backlog) \in Seq(Seq(Token)) /\ Tail(backlog) \in Seq(Seq(Seq(Token)))
        BY <2>1, <3>1
      <3> QED BY <2>2, <3>2 DEF NetTyped, NoNet
    <2> HIDE DEF conn, nw
    <2>5. Kin(conn, w.r) /\ NetTyped(w.n)
      <3> DEFINE q1 == SQUASH_KA(conn)
                 q2 == [q1 EXCEPT !.response_status = 503]
                 q3 == print_http_headers(q2)
                 q4 == WithPage(q3)
                 v == [w0 EXCEPT !.r = q4]
      <3>1. Kin(conn, q2) /\ HasFields(q2)
        BY <2>3, Squashed, Zenon
      <3> HIDE DEF q2
      <3>2. Kin(conn, q3) /\ HasFields(q3)
        BY <3>1, HeaderPrinted, KinTrans, KinHas
      <3> HIDE DEF q3
      <3>3. Kin(conn, q4) /\ HasFields(q4)
        BY <3>2, HeaderPrinted, KinTrans, KinHas
      <3> HIDE DEF q4
      <3>4. w = req_flush(v)
        BY Zenon DEF send_r, q4, q3, q2
      <3>5. v.r = q4 /\ v.n = nw /\ "r" \in DOMAIN v /\ "n" \in DOMAIN v /\ DOMAIN nw = DOMAIN NoNet
        BY <2>4 DEF NetTyped
      <3> HIDE DEF v, w
      <3>6. Kin(conn, w.r)
        BY <3>3, <3>4, <3>5, FlushedRequest, KinTrans
      <3>7. NetTyped(w.n)
        BY <2>4, <3>4, <3>5 DEF req_flush, NetTyped
      <3> QED BY <3>6, <3>7
    <2> HIDE DEF w
    <2>6. HasFields(late) /\ RequestTyped(late) /\ Bare(late) /\ late.post_data_fd = -1
      <3>1. HasFields(w.r) /\ Kin(w.r, late)
        BY <2>3, <2>5, KinHas, Worded, LateStatus
      <3>2. Kin(conn, late) /\ HasFields(late)
        BY <2>5, <3>1, KinTrans, KinHas
      <3> HIDE DEF late
      <3> QED BY <2>3, <3>2 DEF Kin, SameHold, Told, Bare
    <2> HIDE DEF late, tooMany
    <2>7. PICK q : /\ req' = [req EXCEPT ![fd] = q] /\ HasFields(q) /\ RequestTyped(q) /\ Bare(q)
                   /\ q.post_data_fd = -1
      BY <2>2, <2>3, <2>6
    <2>8. DOMAIN req' = Fds /\ req'[fd] = q /\ \A g \in Fds \ {fd} : req'[g] = req[g]
      BY <2>7 DEF BoaInv, TablesOK
    <2>9. InputsOK'
      <3>1. DOMAIN net' = Fds /\ \A g \in Fds : NetTyped(net'[g])
        BY <2>2, <2>4, <2>5 DEF BoaInv, InputsOK
      <3>2. \A g \in Fds : RequestTyped(req'[g])
        BY <2>7, <2>8 DEF BoaInv, InputsOK
      <3> QED BY <2>4, <3>1, <3>2 DEF BoaInv, InputsOK
    <2>10. HeldBy(q) = {} /\ RequestOK(q, open') /\ q.mmap = -1
      BY <2>7, BareHolds DEF Bare
    <2>11. Others(fd) = UNION {HeldBy(req[g]) : g \in Requests}
      BY <2>1 DEF Others
    <2>12. \A g \in AllFds : open[g] \in Owned <=> g \in Others(fd)
      BY <2>11 DEF BoaInv, Accounted, Owned
    <2>13. fd \notin Others(fd) /\ fd \in AllFds
      BY <2>1, <2>12 DEF Owned, AllFds
    <2>14. /\ open' \in [AllFds -> {"listen", "free", "socket", "pipe", "file", "temp", "lost"}]
           /\ open'[fd] = "socket" /\ \A g \in AllFds \ {fd} : open'[g] = open[g]
      BY <2>2, <2>13 DEF BoaInv, TablesOK
    <2>15. \A g \in AllFds : open'[g] \in Owned <=> g \in HeldBy(q) \cup Others(fd)
      BY <2>10, <2>12, <2>13, <2>14 DEF Owned
    <2>16. total_connections' = Cardinality(Requests')
      <3>1. IsFiniteSet(Requests) /\ total_connections = Cardinality(Requests)
        BY RequestsFinite DEF BoaInv, Accounted
      <3> QED BY <2>1, <2>2, <3>1, FS_AddElement
    <2>17. Maps(mm', used', q.mmap, Uses(fd))
      <3>1. DOMAIN mm = Indices /\ \A i \in Indices : DOMAIN mm[i] = {"count", "file"}
        BY DEF BoaInv, TablesOK
      <3>2. used = Cardinality({i \in Indices : mm[i].count > 0})
        BY <3>1 DEF BoaInv, Accounted
      <3>3. ASSUME NEW i \in Indices
            PROVE  mm[i].count = Uses(fd)[i] + (IF -1 = i THEN 1 ELSE 0) /\ Uses(fd)[i] \in Nat
        <4>1. Uses(fd)[i] = Cardinality({g \in Requests \ {fd} : req[g].mmap = i})
              /\ Uses(fd)[i] \in Nat
          BY UsesCount DEF BoaInv
        <4>2. Requests \ {fd} = Requests
          BY <2>1
        <4>3. mm[i].count = Cardinality({g \in Requests : req[g].mmap = i})
          BY <3>1 DEF BoaInv, Accounted
        <4>4. mm[i].count = Uses(fd)[i]
          BY <4>1, <4>2, <4>3, Zenon
        <4>5. -1 # i
          BY BoaAssumption DEF Indices
        <4> QED BY <4>1, <4>4, <4>5
      <3> QED BY <2>10, <3>1, <3>2, <3>3 DEF Maps
    <2>18. fd \in Requests' /\ Requests' \ {fd} = Requests \ {fd}
      BY <2>1
    <2> QED BY <2>7, <2>8, <2>9, <2>10, <2>13, <2>14, <2>15, <2>16, <2>17, <2>18, OneChanged
  <1> QED BY <1>1, <1>2

\* A step that gives and takes nothing keeps the invariant.
LEMMA KeptInv ==
    ASSUME BoaInv, ListsOK', Requests' = Requests,
           UNCHANGED <<open, mm, used, total_connections>>,
           sigterm_flag' \in {0, 1} => sigterm_flag \in {0, 1},
           DOMAIN req' = Fds, \A f \in Fds : Kin(req[f], req'[f]),
           DOMAIN net' = Fds, \A f \in Fds : NetTyped(net'[f]),
           backlog' \in Seq(Seq(Seq(Token))), arrivals' \in Seq(Seq(Seq(Token)))
    PROVE  BoaInv'
  <1>1. Requests \subseteq Fds
    BY RequestsFinite DEF BoaInv
  <1>2. ASSUME NEW f \in Fds
        PROVE  /\ HasFields(req'[f]) /\ RequestTyped(req'[f])
               /\ HeldBy(req'[f]) = HeldBy(req[f]) /\ req'[f].mmap = req[f].mmap
    <2>1. HasFields(req[f]) /\ RequestTyped(req[f]) /\ Kin(req[f], req'[f])
      BY DEF BoaInv, TablesOK, InputsOK
    <2> QED BY <2>1, KinHas DEF Kin, SameHold, Told, HeldBy
  <1>3. TablesOK'
    BY <1>2 DEF BoaInv, TablesOK
  <1>4. InputsOK'
    BY <1>2 DEF InputsOK
  <1>5. ASSUME NEW f \in Requests' PROVE RequestOK(req'[f], open')
    <2>1. RequestOK(req[f], open) /\ Kin(req[f], req'[f])
      BY <1>1 DEF BoaInv
    <2> QED BY <2>1 DEF Kin, SameHold, Told, RequestOK
  <1>6. Accounted'
    <2>1. Len(ready') + Len(block') = Cardinality(Requests')
      BY ListsCount DEF ListsOK, Requests
    <2>2. total_connections' = Cardinality(Requests')
          /\ {f \in AllFds : open'[f] = "socket"} = Requests'
      BY DEF BoaInv, Accounted
    <2>3. {f \in AllFds : open'[f] \in {"pipe", "file", "temp"}}
            = UNION {HeldBy(req'[f]) : f \in Requests'}
      <3>1. \A g : g \in UNION {HeldBy(req'[f]) : f \in Requests'}
                    <=> g \in UNION {HeldBy(req[f]) : f \in Requests}
        <4>1. \A f \in Requests : HeldBy(req'[f]) = HeldBy(req[f])
          BY <1>1, <1>2
        <4> QED BY <4>1
      <3>2. {f \in AllFds : open[f] \in {"pipe", "file", "temp"}} = UNION {HeldBy(req[f]) : f \in Requests}
        BY DEF BoaInv, Accounted
      <3>3. \A g : g \in UNION {HeldBy(req[f]) : f \in Requests}
                    <=> g \in AllFds /\ open'[g] \in {"pipe", "file", "temp"}
        BY <3>2
      <3> QED BY <3>1, <3>3
    <2>4. ASSUME NEW f \in Requests', NEW g \in Requests', f # g
          PROVE  HeldBy(req'[f]) \cap HeldBy(req'[g]) = {}
      <3>1. HeldBy(req'[f]) = HeldBy(req[f]) /\ HeldBy(req'[g]) = HeldBy(req[g])
        BY <1>1, <1>2
      <3>2. HeldBy(req[f]) \cap HeldBy(req[g]) = {}
        BY <2>4 DEF BoaInv, Accounted
      <3> QED BY <3>1, <3>2
    <2>5. ASSUME NEW i \in DOMAIN mm'
          PROVE  mm'[i].count = Cardinality({f \in Requests' : req'[f].mmap = i})
      <3>1. {f \in Requests' : req'[f].mmap = i} = {f \in Requests : req[f].mmap = i}
        BY <1>1, <1>2
      <3> QED BY <3>1 DEF BoaInv, Accounted
    <2>6. used' = Cardinality({i \in DOMAIN mm' : mm'[i].count > 0})
      BY DEF BoaInv, Accounted
    <2> QED BY <2>1, <2>2, <2>3, <2>4, <2>5, <2>6 DEF Accounted
  <1> QED BY <1>3, <1>4, <1>5, <1>6 DEF BoaInv

\* A request is put to sleep, or the next one on its connection is.
LEMMA Slept ==
    ASSUME ListsOK, NEW f \in Fds, f \in ToSet(ready),
           ready' = dequeue(ready, f), block' = <<f>> \o block
    PROVE  /\ ready' \in Seq(Fds) /\ IsInjective(ready') /\ ToSet(ready') = ToSet(ready) \ {f}
           /\ block' \in Seq(Fds) /\ IsInjective(block') /\ ToSet(block') = {f} \cup ToSet(block)
           /\ ToSet(ready') \cap ToSet(block') = {} /\ Requests' = Requests
  <1>1. /\ ready \in Seq(Fds) /\ IsInjective(ready) /\ block \in Seq(Fds) /\ IsInjective(block)
        /\ ToSet(ready) \cap ToSet(block) = {} /\ f \notin ToSet(block)
    BY DEF ListsOK
  <1>2. ready' \in Seq(Fds) /\ IsInjective(ready') /\ ToSet(ready') = ToSet(ready) \ {f}
    BY <1>1, Dequeued
  <1>3. block' \in Seq(Fds) /\ IsInjective(block') /\ ToSet(block') = {f} \cup ToSet(block)
    BY <1>1, Enqueued
  <1> QED BY <1>1, <1>2, <1>3 DEF Requests

\* release_mmap for the request at hand: the count of its mapping goes down.
LEMMA ReleasedMaps ==
    ASSUME BoaInv, NEW f \in Requests
    PROVE  LET w == release_mmap(Work(f)) IN Maps(w.mm, w.used, -1, Uses(f))
  <1> DEFINE m == req[f].mmap
             w == release_mmap(Work(f))
             less == [mm EXCEPT ![m].count = @ - 1]
             fewer == IF mm[m].count = 1 THEN used - 1 ELSE used
  <1>1. Maps(mm, used, m, Uses(f)) /\ m \in Indices \cup {-1}
    <2>1. Sound(Work(f), open, Others(f), Uses(f))
      BY WorkSound
    <2> QED BY <2>1 DEF Sound, Work, Holds, RequestOK
  <1>2. CASE m = -1
    <2>1. w.mm = mm /\ w.used = used
      BY <1>2 DEF release_mmap, Work
    <2> QED BY <1>1, <1>2, <2>1
  <1>3. CASE m # -1
    <2>1. m \in Indices
      BY <1>1, <1>3
    <2>2. mm[m].count # 0
      <3>1. Uses(f)[m] \in Nat /\ mm[m].count = Uses(f)[m] + 1
        BY <1>1, <2>1 DEF Maps
      <3> QED BY <3>1
    <2>3. w.mm = less /\ w.used = fewer
      BY <1>3, <2>2 DEF release_mmap, Work
    <2>4. DOMAIN mm = Indices /\ \A i \in Indices : DOMAIN mm[i] = {"count", "file"}
      BY <1>1 DEF Maps
    <2>5. ASSUME NEW i \in Indices
          PROVE  /\ DOMAIN less[i] = {"count", "file"}
                 /\ less[i].count = mm[i].count - (IF i = m THEN 1 ELSE 0)
      <3>1. mm[i].count \in Int
        BY <1>1 DEF Maps
      <3>2. CASE i = m
        <4>1. less[i] = [mm[i] EXCEPT !.count = @ - 1]
          BY <2>4, <3>2
        <4> QED BY <2>4, <3>2, <4>1
      <3>3. CASE i # m
        <4>1. less[i] = mm[i]
          BY <2>4, <3>3
        <4> QED BY <2>4, <3>1, <3>3, <4>1
      <3> QED BY <3>2, <3>3
    <2>6. DOMAIN less = Indices
      BY <2>4
    <2> HIDE DEF less
    <2>7. Maps(less, fewer, -1, Uses(f))
      BY <1>1, <2>1, <2>5, <2>6, UsedLess
    <2> QED BY <2>3, <2>7
  <1> QED BY <1>2, <1>3

\* free_request closes what the request holds, and nothing else.
LEMMA FreedInv ==
    ASSUME BoaInv, NEW f \in Fds, f \in ToSet(ready), free_request(f), ListsOK',
           UNCHANGED <<sigterm_flag, backlog, arrivals>>
    PROVE  BoaInv'
  <1> DEFINE r == req[f]
             gone == IF Kept(r) THEN Released(f) ELSE {f} \cup Released(f)
  <1>1. /\ f \in Requests /\ f \in AllFds /\ open[f] = "socket" /\ f \notin ToSet(block)
        /\ ListsOK
    BY DEF Requests, BoaInv, ListsOK, Accounted, AllFds
  <1>2. Holds(open, r, open, Others(f)) /\ RequestTyped(r)
    <2>1. Sound(Work(f), open, Others(f), Uses(f))
      BY <1>1, WorkSound
    <2> QED BY <2>1 DEF Sound, Work
  <1>3. f \notin Others(f) /\ f \notin HeldBy(r) /\ Released(f) = HeldBy(r)
    BY <1>1, <1>2 DEF Holds, Owned, Released, HeldBy
  <1>4. open' = [g \in AllFds |-> IF g \in gone THEN "free" ELSE open[g]]
        /\ ready' = dequeue(ready, f)
    BY DEF free_request
  <1>5. Maps(mm', used', -1, Uses(f))
    <2>1. mm' = release_mmap(Work(f)).mm /\ used' = release_mmap(Work(f)).used
      BY DEF free_request
    <2> QED BY <1>1, <2>1, ReleasedMaps
  <1>6. PICK q : /\ req' = [req EXCEPT ![f] = q] /\ HasFields(q) /\ RequestTyped(q) /\ Bare(q)
                 /\ q.post_data_fd = -1
    <2>1. NextOn(r).post_data_fd = -1 /\ HasFields(NextOn(r)) /\ RequestTyped(NextOn(r)) /\ Bare(NextOn(r))
      <3>1. Drop(r.stream, r.parse_pos) \in Seq(Token)
        <4>1. r.stream \in Seq(Token) /\ r.parse_pos \in Int /\ r.parse_pos >= 0
          BY <1>2 DEF RequestTyped
        <4> QED BY <4>1, Pieces
      <3> QED BY <3>1, FreshRequest, Zenon DEF NextOn
    <2>2. NoReq.post_data_fd = -1 /\ HasFields(NoReq) /\ RequestTyped(NoReq) /\ Bare(NoReq)
      <3>1. <<>> \in Seq(Token)
        OBVIOUS
      <3> QED BY <3>1, FreshRequest, Zenon DEF NoReq
    <2>3. \/ req' = [req EXCEPT ![f] = NextOn(r)]
          \/ req' = [req EXCEPT ![f] = NoReq]
      BY Zenon DEF free_request
    <2> QED BY <2>1, <2>2, <2>3
  <1>7. DOMAIN req' = Fds /\ req'[f] = q /\ \A g \in Fds \ {f} : req'[g] = req[g]
    BY <1>6 DEF BoaInv, TablesOK
  <1>8. HeldBy(q) = {} /\ RequestOK(q, open') /\ q.mmap = -1
    BY <1>6, BareHolds DEF Bare
  <1>9. InputsOK'
    <2>1. NetTyped(NoNet)
      <3>1. <<>> \in Seq(Token) /\ <<>> \in Seq(Seq(Token))
        OBVIOUS
      <3> QED BY <3>1 DEF NetTyped, NoNet
    <2>2. net' = net \/ net' = [net EXCEPT ![f] = NoNet]
      BY DEF free_request
    <2>3. DOMAIN net' = Fds /\ \A g \in Fds : NetTyped(net'[g])
      BY <2>1, <2>2 DEF BoaInv, InputsOK
    <2>4. \A g \in Fds : RequestTyped(req'[g])
      BY <1>6, <1>7 DEF BoaInv, InputsOK
    <2> QED BY <2>3, <2>4 DEF BoaInv, InputsOK
  <1>10. /\ Requests' \ {f} = Requests \ {f}
         /\ total_connections' = Cardinality(Requests')
         /\ open'[f] = "socket" <=> f \in Requests'
         /\ open'[f] # "listen"
    <2>1. IsFiniteSet(Requests) /\ total_connections = Cardinality(Requests)
      BY RequestsFinite DEF BoaInv, Accounted
    <2>2. CASE Kept(r)
      <3>1. block' = <<f>> \o block /\ total_connections' = total_connections
        BY <2>2 DEF free_request
      <3>2. Requests' = Requests
        BY <1>1, <1>4, <3>1, Slept
      <3>3. open'[f] = "socket"
        BY <1>1, <1>3, <1>4, <2>2
      <3> QED BY <1>1, <2>1, <3>1, <3>2, <3>3
    <2>3. CASE ~Kept(r)
      <3>1. block' = block /\ total_connections' = total_connections - 1
        BY <2>3 DEF free_request
      <3>2. ToSet(ready') = ToSet(ready) \ {f}
        BY <1>1, <1>4, Dequeued DEF ListsOK
      <3>3. Requests' = Requests \ {f}
        BY <1>1, <3>1, <3>2 DEF Requests
      <3>4. open'[f] = "free"
        BY <1>1, <1>4, <2>3
      <3>5. Cardinality(Requests') = Cardinality(Requests) - 1
        BY <1>1, <2>1, <3>3, FS_RemoveElement
      <3> QED BY <2>1, <3>1, <3>3, <3>4, <3>5
    <2> QED BY <2>2, <2>3
  <1>11. open' \in [AllFds -> {"listen", "free", "socket", "pipe", "file", "temp", "lost"}]
    BY <1>2, <1>4 DEF Holds
  <1>12. ASSUME NEW g \in AllFds \ {f},
                open'[g] \in {"socket", "listen"} \/ open[g] \in {"socket", "listen"} \/ g \in Others(f)
         PROVE  open'[g] = open[g]
    <2>1. g \in gone <=> g \in HeldBy(r)
      BY <1>3
    <2>2. g \in HeldBy(r) => open[g] \in Owned /\ g \notin Others(f)
      BY <1>2 DEF Holds
    <2> HIDE DEF gone
    <2> QED BY <1>4, <1>12, <2>1, <2>2 DEF Owned
  <1>13. ASSUME NEW g \in AllFds PROVE open'[g] \in Owned <=> g \in HeldBy(q) \cup Others(f)
    <2>1. g \in gone => open'[g] = "free" /\ g \notin Others(f)
      BY <1>2, <1>3, <1>4 DEF Holds
    <2>2. g \notin gone => open'[g] = open[g] /\ g \notin HeldBy(r)
      BY <1>3, <1>4
    <2>3. open[g] \in Owned <=> g \in HeldBy(r) \cup Others(f)
      BY <1>2 DEF Holds
    <2> HIDE DEF gone
    <2> QED BY <1>8, <2>1, <2>2, <2>3 DEF Owned
  <1> HIDE DEF gone
  <1> QED BY <1>3, <1>5, <1>6, <1>7, <1>8, <1>9, <1>10, <1>11, <1>12, <1>13, OneChanged

\* What is done with a request that has been run.
LEMMA DisposeInv ==
    ASSUME BoaInv, Dispose
    PROVE  BoaInv'
  <1>1. PICK f \in Fds : /\ f = Head(todo) /\ f \in ToSet(ready) /\ f \in Requests
                         /\ todo' = Tail(todo) /\ todo' \in Seq(Fds) /\ IsInjective(todo')
                         /\ ToSet(todo') \subseteq ToSet(ready) \ {f}
    BY AtHand DEF Dispose
  <1>2. /\ stage' = Round /\ UNCHANGED <<sigterm_flag, backlog, arrivals>>
        /\ stage' \in {"handle", "accept", "dispose"} => todo' # <<>>
    BY DEF Dispose, Round, counters
  <1>3. /\ ready \in Seq(Fds) /\ IsInjective(ready) /\ block \in Seq(Fds) /\ IsInjective(block)
        /\ ToSet(ready) \cap ToSet(block) = {} /\ ListsOK /\ f \notin ToSet(block)
    BY <1>1 DEF BoaInv, ListsOK
  <1>4. ASSUME ready' = dequeue(ready, f), block' = <<f>> \o block
        PROVE  ListsOK' /\ Requests' = Requests
    <2>1. /\ ready' \in Seq(Fds) /\ IsInjective(ready') /\ ToSet(ready') = ToSet(ready) \ {f}
          /\ block' \in Seq(Fds) /\ IsInjective(block')
          /\ ToSet(ready') \cap ToSet(block') = {} /\ Requests' = Requests
      BY <1>1, <1>3, <1>4, Slept
    <2> QED BY <1>1, <1>2, <2>1 DEF ListsOK
  <1>5. ASSUME ready' = dequeue(ready, f), block' = block
        PROVE  ListsOK'
    <2>1. ready' \in Seq(Fds) /\ IsInjective(ready') /\ ToSet(ready') = ToSet(ready) \ {f}
      BY <1>1, <1>3, <1>5, Dequeued
    <2> QED BY <1>1, <1>2, <1>3, <1>5, <2>1 DEF ListsOK
  <1>6. ASSUME UNCHANGED <<ready, block>>
        PROVE  ListsOK' /\ Requests' = Requests
    BY <1>1, <1>2, <1>3, <1>6 DEF ListsOK, Requests
  <1>7. ASSUME UNCHANGED <<net, open, mm, used, total_connections>>, ListsOK', Requests' = Requests,
               NEW q, req' = req \/ req' = [req EXCEPT ![f] = q], Kin(req[f], q)
        PROVE  BoaInv'
    <2>1. DOMAIN req = Fds /\ \A g \in Fds : Kin(req[g], req[g])
      BY Worded DEF BoaInv, TablesOK
    <2>2. DOMAIN req' = Fds /\ \A g \in Fds : Kin(req[g], req'[g])
      BY <1>7, <2>1
    <2>3. /\ DOMAIN net' = Fds /\ \A g \in Fds : NetTyped(net'[g])
          /\ backlog' \in Seq(Seq(Seq(Token))) /\ arrivals' \in Seq(Seq(Seq(Token)))
      BY <1>2, <1>7 DEF BoaInv, InputsOK
    <2> QED BY <1>2, <1>7, <2>2, <2>3, KeptInv
  <1>8. HasFields(req[f])
    BY DEF BoaInv, TablesOK
  <1>9. CASE ret = -1
    <2>1. /\ ready' = dequeue(ready, f) /\ block' = <<f>> \o block
          /\ UNCHANGED <<req, net, open, mm, used, total_connections>>
      BY <1>1, <1>9 DEF Dispose, block_request, data
    <2>2. ListsOK' /\ Requests' = Requests
      BY <1>4, <2>1
    <2>3. req' = req /\ Kin(req[f], req[f])
      BY <1>8, <2>1, Worded
    <2> QED BY <1>7, <2>1, <2>2, <2>3
  <1>10. CASE ret # -1 /\ ~free_request(f)
    <2>1. /\ \/ req' = [req EXCEPT ![f].status = "DONE", ![f].age = 0]
             \/ req' = [req EXCEPT ![f].age = 0]
          /\ UNCHANGED <<ready, block, net, open, mm, used, total_connections>>
      BY <1>1, <1>10 DEF Dispose
    <2> DEFINE q1 == [req[f] EXCEPT !.status = "DONE", !.age = 0]
               q2 == [req[f] EXCEPT !.age = 0]
    <2>2. Kin(req[f], q1) /\ Kin(req[f], q2)
      BY <1>8, LateStatus DEF Kin, SameHold, Told, HasFields, RequestTyped
    <2>3. req' = [req EXCEPT ![f] = q1] \/ req' = [req EXCEPT ![f] = q2]
      BY <2>1 DEF BoaInv, TablesOK
    <2> HIDE DEF q1, q2
    <2>4. ListsOK' /\ Requests' = Requests
      BY <1>6, <2>1
    <2> QED BY <1>7, <2>1, <2>2, <2>3, <2>4
  <1>11. CASE ret # -1 /\ free_request(f)
    <2>1. ready' = dequeue(ready, f) /\ block' \in {block, <<f>> \o block}
      BY <1>11 DEF free_request
    <2>2. ListsOK'
      BY <1>4, <1>5, <2>1
    <2> QED BY <1>1, <1>2, <1>11, <2>2, FreedInv
  <1> QED BY <1>9, <1>10, <1>11

\* The blocked requests up to the k-th have been looked at; q has the lists and req.
Waking(q, k) ==
    /\ {"bits", "block", "max_fd", "ready", "req"} \subseteq DOMAIN q
    /\ q.ready \in Seq(Fds) /\ IsInjective(q.ready) /\ q.block \in Seq(Fds) /\ IsInjective(q.block)
    /\ ToSet(q.ready) \cap ToSet(q.block) = {} /\ ToSet(q.ready) \cup ToSet(q.block) = Requests
    /\ ToSet(ready) \subseteq ToSet(q.ready)
    /\ \A j \in (k + 1)..Len(block) : block[j] \in ToSet(q.block)
    /\ DOMAIN q.req = Fds /\ \A g \in Fds : Kin(req[g], q.req[g])

\* One turn of fdset_update's loop.
LEMMA WakeOne ==
    ASSUME BoaInv, NEW q, NEW k \in Nat, k + 1 \in 1..Len(block), Waking(q, k)
    PROVE  Waking(Wake(q, block[k + 1]), k + 1)
  <1>1. block \in Seq(Fds) /\ IsInjective(block)
    BY DEF BoaInv, ListsOK
  <1>2. PICK f \in Fds : f = block[k + 1]
    BY <1>1
  <1>3. f \in ToSet(q.block)
    BY <1>2 DEF Waking
  <1> DEFINE r == [q.req[f] EXCEPT !.status = IF TimedOut(q.req[f]) THEN "DEAD" ELSE @]
             a == Awaits(f, r)
             woken == [q EXCEPT !.req[f] = r, !.bits = @ \ {a},
                                !.block = dequeue(@, f), !.ready = <<f>> \o @]
             asleep == [q EXCEPT !.bits = @ \cup {a}, !.max_fd = IF a[2] > @ THEN a[2] ELSE @]
  <1>4. Wake(q, f) = woken \/ Wake(q, f) = asleep
    BY Zenon DEF Wake
  <1>5. ASSUME NEW j \in ((k + 1) + 1)..Len(block)
        PROVE  block[j] \in ToSet(q.block) /\ block[j] # f
    <2>1. /\ j \in (k + 1)..Len(block) /\ j \in DOMAIN block /\ k + 1 \in DOMAIN block
          /\ j # k + 1
      BY <1>1
    <2> QED BY <1>1, <1>2, <2>1 DEF Waking, IsInjective
  <1>6. CASE Wake(q, f) = asleep
    <2>1. /\ DOMAIN asleep = DOMAIN q /\ asleep.ready = q.ready /\ asleep.block = q.block
          /\ asleep.req = q.req
      BY DEF Waking
    <2> HIDE DEF asleep
    <2> QED BY <1>2, <1>5, <1>6, <2>1 DEF Waking
  <1>7. CASE Wake(q, f) = woken
    <2>1. /\ DOMAIN woken = DOMAIN q /\ woken.ready = <<f>> \o q.ready
          /\ woken.block = dequeue(q.block, f) /\ woken.req = [q.req EXCEPT ![f] = r]
      BY DEF Waking
    <2> HIDE DEF woken
    <2>2. Kin(req[f], r)
      <3>1. HasFields(req[f]) /\ Kin(req[f], q.req[f])
        BY DEF BoaInv, TablesOK, Waking
      <3>2. HasFields(q.req[f])
        BY <3>1, KinHas
      <3>3. Kin(q.req[f], r)
        BY <3>2, LateStatus DEF Kin, SameHold, Told, HasFields, RequestTyped
      <3> HIDE DEF r
      <3> QED BY <3>1, <3>3, KinTrans
    <2> HIDE DEF r
    <2>3. DOMAIN woken.req = Fds /\ \A g \in Fds : Kin(req[g], woken.req[g])
      BY <2>1, <2>2 DEF Waking
    <2>4. /\ q.block \in Seq(Fds) /\ IsInjective(q.block) /\ q.ready \in Seq(Fds)
          /\ IsInjective(q.ready) /\ f \notin ToSet(q.ready)
      BY <1>3 DEF Waking
    <2>5. /\ woken.block \in Seq(Fds) /\ IsInjective(woken.block)
          /\ ToSet(woken.block) = ToSet(q.block) \ {f}
      BY <1>3, <2>1, <2>4, Dequeued
    <2>6. /\ woken.ready \in Seq(Fds) /\ IsInjective(woken.ready)
          /\ ToSet(woken.ready) = {f} \cup ToSet(q.ready)
      BY <2>1, <2>4, Enqueued
    <2>7. /\ ToSet(woken.ready) \cap ToSet(woken.block) = {}
          /\ ToSet(woken.ready) \cup ToSet(woken.block) = Requests
          /\ ToSet(ready) \subseteq ToSet(woken.ready)
      BY <1>3, <2>5, <2>6 DEF Waking
    <2>8. \A j \in ((k + 1) + 1)..Len(block) : block[j] \in ToSet(woken.block)
      BY <1>5, <2>5
    <2>9. {"bits", "block", "max_fd", "ready", "req"} \subseteq DOMAIN woken
      BY <2>1 DEF Waking
    <2> QED BY <1>2, <1>7, <2>3, <2>5, <2>6, <2>7, <2>8, <2>9 DEF Waking
  <1> QED BY <1>2, <1>4, <1>6, <1>7

\* What a sleeping request waits for is its socket or one of its own descriptors.
LEMMA AwaitsOwn ==
    ASSUME BoaInv, NEW f \in Requests, Sleepy(req[f]), NEW r, r.buf = req[f].buf,
           r.data_fd = req[f].data_fd, r.post_data_fd = req[f].post_data_fd,
           r.status \in {req[f].status, "DEAD"}
    PROVE  /\ Awaits(f, r)[2] \in {f} \cup HeldBy(req[f])
           /\ Awaits(f, r)[2] \in Int
           /\ r.status = req[f].status => Awaits(f, r) = Awaits(f, req[f])
  <1>1. f \in Fds /\ RequestOK(req[f], open)
    BY RequestsFinite DEF BoaInv
  <1>2. r.status = "BODY_WRITE" => r.buf # <<>>
    BY DEF Sleepy
  <1>3. r.status = "PIPE_READ" => r.data_fd \in HeldBy(req[f])
    BY <1>1 DEF RequestOK, HeldBy, Pipes
  <1>4. Awaits(f, r)[2] \in {f} \cup HeldBy(req[f])
    <2>1. CASE r.buf # <<>> \/ r.status \in {"WRITE", "PIPE_WRITE", "DONE"}
      <3>1. Awaits(f, r) = <<"w", f>>
        BY <2>1 DEF Awaits
      <3> QED BY <3>1
    <2>2. CASE r.buf = <<>> /\ r.status = "PIPE_READ"
      <3>1. Awaits(f, r) = <<"r", r.data_fd>>
        BY <2>2 DEF Awaits
      <3> QED BY <1>3, <2>2, <3>1
    <2>3. CASE r.buf = <<>> /\ r.status \notin {"WRITE", "PIPE_WRITE", "DONE", "PIPE_READ"}
      <3>1. Awaits(f, r) = <<"r", f>>
        BY <1>2, <2>3 DEF Awaits
      <3> QED BY <3>1
    <2> QED BY <2>1, <2>2, <2>3
  <1>5. \A d \in {f} \cup HeldBy(req[f]) : d \in Int
    <2>1. f \in AllFds /\ \A d \in AllFds : d \in Int
      BY <1>1, BoaAssumption DEF AllFds
    <2>2. \A d \in HeldBy(req[f]) : d \in AllFds
      BY <1>1 DEF RequestOK, HeldBy
    <2>3. \A d \in {f} \cup HeldBy(req[f]) : d \in AllFds
      BY <2>1, <2>2
    <2> QED BY <2>1, <2>3
  <1>6. r.status = req[f].status => Awaits(f, r) = Awaits(f, req[f])
    BY DEF Awaits
  <1> QED BY <1>4, <1>5, <1>6

\* Two requests never wait for the same descriptor: a consequence of Accounted.
LEMMA OwnApart ==
    ASSUME BoaInv, NEW f \in Requests, NEW g \in Requests, f # g
    PROVE  ({f} \cup HeldBy(req[f])) \cap ({g} \cup HeldBy(req[g])) = {}
  <1>1. HeldBy(req[f]) \cap HeldBy(req[g]) = {}
    BY DEF BoaInv, Accounted
  <1>2. open[f] = "socket" /\ open[g] = "socket"
    BY DEF BoaInv, Accounted
  <1>3. \A h \in Requests : \A d \in HeldBy(req[h]) : open[d] # "socket"
    BY DEF BoaInv, RequestOK, HeldBy
  <1> QED BY <1>1, <1>2, <1>3

\* What holds between two turns of fdset_update's loop, of the bits: the requests that
\* were looked at and sleep on are watched.
Watching(q, k) ==
    max_fd \in Int /\ (\A f \in ToSet(block) : Sleepy(req[f])) =>
        /\ q.max_fd \in Int
        /\ ToSet(q.block) \subseteq ToSet(block)
        /\ \A g \in ToSet(q.block) : q.req[g] = req[g]
        /\ \A j \in 1..k : block[j] \in ToSet(q.block) =>
              /\ Awaits(block[j], req[block[j]]) \in q.bits
              /\ Awaits(block[j], req[block[j]])[2] <= q.max_fd

\* One turn of that loop keeps them watched, and clears no bit but its own.
LEMMA WatchOne ==
    ASSUME BoaInv, NEW q, NEW k \in Nat, k + 1 \in 1..Len(block), Waking(q, k), Watching(q, k)
    PROVE  Watching(Wake(q, block[k + 1]), k + 1)
  <1> SUFFICES ASSUME max_fd \in Int, \A f \in ToSet(block) : Sleepy(req[f])
               PROVE  Watching(Wake(q, block[k + 1]), k + 1)
    BY DEF Watching
  <1>1. /\ q.max_fd \in Int
        /\ ToSet(q.block) \subseteq ToSet(block)
        /\ \A g \in ToSet(q.block) : q.req[g] = req[g]
        /\ \A j \in 1..k : block[j] \in ToSet(q.block) =>
              /\ Awaits(block[j], req[block[j]]) \in q.bits
              /\ Awaits(block[j], req[block[j]])[2] <= q.max_fd
    BY DEF Watching
  <1>2. block \in Seq(Fds) /\ IsInjective(block)
    BY DEF BoaInv, ListsOK
  <1>3. PICK f \in Fds : f = block[k + 1]
    BY <1>2
  <1>4. f \in ToSet(q.block) /\ f \in ToSet(block) /\ f \in Requests /\ q.req[f] = req[f]
    <2>1. f \in ToSet(q.block)
      BY <1>3 DEF Waking
    <2> QED BY <1>1, <2>1 DEF Requests
  <1> DEFINE r == [q.req[f] EXCEPT !.status = IF TimedOut(q.req[f]) THEN "DEAD" ELSE @]
             a == Awaits(f, r)
             woken == [q EXCEPT !.req[f] = r, !.bits = @ \ {a},
                                !.block = dequeue(@, f), !.ready = <<f>> \o @]
             asleep == [q EXCEPT !.bits = @ \cup {a}, !.max_fd = IF a[2] > @ THEN a[2] ELSE @]
  <1>5. Wake(q, f) = woken \/ (Wake(q, f) = asleep /\ r.status # "DEAD")
    BY Zenon DEF Wake
  <1>6. /\ r.buf = req[f].buf /\ r.data_fd = req[f].data_fd
        /\ r.post_data_fd = req[f].post_data_fd /\ r.status \in {req[f].status, "DEAD"}
    <2>1. HasFields(req[f])
      BY DEF BoaInv, TablesOK
    <2> QED BY <1>4, <2>1 DEF HasFields
  <1> HIDE DEF r
  <1>7. /\ a[2] \in {f} \cup HeldBy(req[f]) /\ a[2] \in Int
        /\ r.status = req[f].status => a = Awaits(f, req[f])
    BY <1>4, <1>6, AwaitsOwn
  <1> HIDE DEF a
  <1>8. ASSUME NEW j \in 1..(k + 1), j # k + 1
        PROVE  j \in 1..k /\ block[j] \in ToSet(block) /\ block[j] # f
    <2>1. j \in DOMAIN block /\ k + 1 \in DOMAIN block /\ j \in 1..k
      BY <1>2, <1>8
    <2> QED BY <1>2, <1>3, <1>8, <2>1 DEF IsInjective, ToSet
  <1>9. CASE Wake(q, f) = asleep /\ r.status # "DEAD"
    <2>1. /\ asleep.bits = q.bits \cup {a} /\ asleep.block = q.block /\ asleep.req = q.req
          /\ asleep.max_fd = IF a[2] > q.max_fd THEN a[2] ELSE q.max_fd
      BY DEF Waking
    <2> HIDE DEF asleep
    <2>2. asleep.max_fd \in Int /\ a[2] <= asleep.max_fd /\ q.max_fd <= asleep.max_fd
      BY <1>1, <1>7, <2>1
    <2>3. a = Awaits(f, req[f])
      BY <1>6, <1>7, <1>9
    <2>4. ASSUME NEW j \in 1..(k + 1), block[j] \in ToSet(q.block)
          PROVE  /\ Awaits(block[j], req[block[j]]) \in asleep.bits
                 /\ Awaits(block[j], req[block[j]])[2] <= asleep.max_fd
      <3>1. CASE j = k + 1
        BY <1>3, <2>1, <2>2, <2>3, <3>1
      <3>2. CASE j # k + 1
        <4>1. block[j] \in Requests /\ j \in 1..k /\ Sleepy(req[block[j]])
          BY <1>8, <3>2 DEF Requests
        <4>2. Awaits(block[j], req[block[j]])[2] \in Int
          BY <4>1, AwaitsOwn
        <4>3. /\ Awaits(block[j], req[block[j]]) \in q.bits
              /\ Awaits(block[j], req[block[j]])[2] <= q.max_fd
          BY <1>1, <2>4, <4>1
        <4> QED BY <1>1, <2>1, <2>2, <4>2, <4>3
      <3> QED BY <3>1, <3>2
    <2> QED BY <1>1, <1>3, <1>9, <2>1, <2>2, <2>4 DEF Watching
  <1>10. CASE Wake(q, f) = woken
    <2>1. /\ woken.bits = q.bits \ {a} /\ woken.block = dequeue(q.block, f)
          /\ woken.req = [q.req EXCEPT ![f] = r] /\ woken.max_fd = q.max_fd
      BY DEF Waking
    <2> HIDE DEF woken
    <2>2. ToSet(woken.block) = ToSet(q.block) \ {f}
      BY <1>4, <2>1, Dequeued DEF Waking
    <2>3. ASSUME NEW g \in ToSet(woken.block) PROVE woken.req[g] = req[g]
      BY <1>1, <2>1, <2>2 DEF Waking
    <2>4. ASSUME NEW j \in 1..(k + 1), block[j] \in ToSet(woken.block)
          PROVE  /\ Awaits(block[j], req[block[j]]) \in woken.bits
                 /\ Awaits(block[j], req[block[j]])[2] <= woken.max_fd
      <3>1. j # k + 1
        BY <1>3, <2>2, <2>4
      <3>2. block[j] \in Requests /\ j \in 1..k /\ Sleepy(req[block[j]]) /\ block[j] # f
        BY <1>8, <3>1 DEF Requests
      <3>3. Awaits(block[j], req[block[j]])[2] \in {block[j]} \cup HeldBy(req[block[j]])
        BY <3>2, AwaitsOwn
      <3>4. Awaits(block[j], req[block[j]]) # a
        BY <1>4, <1>7, <3>2, <3>3, OwnApart
      <3> QED BY <1>1, <2>1, <2>2, <2>4, <3>2, <3>4
    <2> QED BY <1>1, <1>3, <1>10, <2>1, <2>2, <2>3, <2>4 DEF Watching
  <1> QED BY <1>3, <1>5, <1>9, <1>10

\* The whole loop, by induction over the blocked requests.
LEMMA WokenSound ==
    ASSUME BoaInv
    PROVE  LET q0 == [bits |-> bits, block |-> block, max_fd |-> max_fd,
                      ready |-> ready, req |-> req] IN
           Waking(Woken(q0, block), Len(block)) /\ Watching(Woken(q0, block), Len(block))
  <1> DEFINE q0 == [bits |-> bits, block |-> block, max_fd |-> max_fd,
                    ready |-> ready, req |-> req]
  <1>1. /\ block \in Seq(Fds) /\ Len(block) \in Nat
        /\ \A j \in 1..Len(block) : block[j] \in ToSet(block)
    BY DEF BoaInv, ListsOK, ToSet
  <1>9. Watching(q0, 0)
    <2>1. q0.max_fd = max_fd /\ q0.block = block /\ q0.req = req
      OBVIOUS
    <2>2. \A j : j \notin 1..0
      OBVIOUS
    <2> HIDE DEF q0
    <2> QED BY <2>1, <2>2 DEF Watching
  <1>2. Waking(q0, 0)
    <2>1. \A j \in (0 + 1)..Len(block) : block[j] \in ToSet(block)
      BY <1>1
    <2>2. \A g \in Fds : Kin(req[g], req[g])
      BY Worded DEF BoaInv, TablesOK
    <2> QED BY <2>1, <2>2 DEF Waking, BoaInv, ListsOK, TablesOK, Requests
  <1> HIDE DEF q0
  <1>3. \A list : Len(list) \in Nat =>
           \E q : /\ Woken(q0, list) = q[Len(list)]
                  /\ q[0] = q0
                  /\ \A k \in 1..Len(list) : q[k] = Wake(q[k - 1], list[k])
    BY WokenSteps
  <1>4. PICK q : /\ Woken(q0, block) = q[Len(block)]
                 /\ q[0] = q0
                 /\ \A k \in 1..Len(block) : q[k] = Wake(q[k - 1], block[k])
    BY <1>1, <1>3, Zenon
  <1> DEFINE S == {n \in Nat : n <= Len(block) => Waking(q[n], n) /\ Watching(q[n], n)}
  <1>5. 0 \in S
    BY <1>2, <1>4, <1>9
  <1>6. ASSUME NEW n \in S PROVE n + 1 \in S
    <2> SUFFICES ASSUME n + 1 <= Len(block)
                 PROVE  Waking(q[n + 1], n + 1) /\ Watching(q[n + 1], n + 1)
      OBVIOUS
    <2>1. n \in Nat /\ n + 1 \in 1..Len(block) /\ (n + 1) - 1 = n
      BY <1>1
    <2>2. q[n + 1] = Wake(q[n], block[n + 1])
      BY <1>4, <2>1
    <2>3. Waking(q[n], n) /\ Watching(q[n], n)
      BY <1>1, <2>1
    <2>4. Waking(q[n + 1], n + 1)
      BY <2>1, <2>2, <2>3, WakeOne
    <2>5. Watching(q[n + 1], n + 1)
      BY <2>1, <2>2, <2>3, WatchOne
    <2> QED BY <2>4, <2>5
  <1>7. Len(block) \in S
    <2> HIDE DEF S
    <2> QED BY <1>1, <1>5, <1>6, Induct
  <1>8. Waking(Woken(q0, block), Len(block)) /\ Watching(Woken(q0, block), Len(block))
    BY <1>1, <1>4, <1>7
  <1> QED BY <1>8 DEF q0

\* fdset_update keeps the invariant.
LEMMA UpdateInv ==
    ASSUME BoaInv, fdset_update
    PROVE  BoaInv'
  <1>1. PICK q : /\ Waking(q, Len(block))
                 /\ ready' = q.ready /\ block' = q.block /\ req' = q.req
    BY WokenSound, Zenon DEF fdset_update
  <1>2. /\ stage' = "first"
        /\ UNCHANGED <<todo, total_connections, net, open, mm, used, sigterm_flag, backlog, arrivals>>
    BY DEF fdset_update, counters
  <1>3. /\ ready' \in Seq(Fds) /\ IsInjective(ready') /\ block' \in Seq(Fds) /\ IsInjective(block')
        /\ ToSet(ready') \cap ToSet(block') = {} /\ Requests' = Requests
        /\ ToSet(ready) \subseteq ToSet(ready')
        /\ DOMAIN req' = Fds /\ \A g \in Fds : Kin(req[g], req'[g])
    BY <1>1 DEF Waking, Requests
  <1>4. ListsOK'
    BY <1>2, <1>3 DEF BoaInv, ListsOK
  <1>5. /\ DOMAIN net' = Fds /\ \A g \in Fds : NetTyped(net'[g])
        /\ backlog' \in Seq(Seq(Seq(Token))) /\ arrivals' \in Seq(Seq(Seq(Token)))
    BY <1>2 DEF BoaInv, InputsOK
  <1> QED BY <1>2, <1>3, <1>4, <1>5, KeptInv

\* The accounts only look at which descriptors are sockets and which are a request's.
LEMMA SameAccounts ==
    ASSUME Accounted, Requests' = Requests,
           UNCHANGED <<ready, block, req, mm, used, total_connections>>,
           {g \in AllFds : open'[g] = "socket"} = {g \in AllFds : open[g] = "socket"},
           {g \in AllFds : open'[g] \in {"pipe", "file", "temp"}}
               = {g \in AllFds : open[g] \in {"pipe", "file", "temp"}}
    PROVE  Accounted'
  <1>1. /\ Len(ready') + Len(block') = Cardinality(Requests')
        /\ total_connections' = Cardinality(Requests')
        /\ {g \in AllFds : open'[g] = "socket"} = Requests'
    BY DEF Accounted
  <1>2. {g \in AllFds : open'[g] \in {"pipe", "file", "temp"}}
          = UNION {HeldBy(req'[f]) : f \in Requests'}
    BY DEF Accounted
  <1>3. \A f, g \in Requests' : f # g => HeldBy(req'[f]) \cap HeldBy(req'[g]) = {}
    BY DEF Accounted
  <1>4. \A i \in DOMAIN mm' : mm'[i].count = Cardinality({f \in Requests' : req'[f].mmap = i})
    BY DEF Accounted
  <1>5. used' = Cardinality({i \in DOMAIN mm' : mm'[i].count > 0})
    BY DEF Accounted
  <1> QED BY <1>1, <1>2, <1>3, <1>4, <1>5 DEF Accounted

\* The top of the loop; SIGTERM closes the listening socket.
LEMMA SignalsInv ==
    ASSUME BoaInv, Signals
    PROVE  BoaInv'
  <1>1. /\ stage' \notin {"handle", "accept", "dispose"}
        /\ UNCHANGED <<todo, total_connections, ready, block, req, net, mm, used, backlog, arrivals>>
        /\ open' = IF sigterm_flag = 1 THEN [open EXCEPT ![server_s] = "free"] ELSE open
        /\ sigterm_flag' = IF sigterm_flag = 1 THEN 2 ELSE sigterm_flag
    BY DEF Signals, counters
  <1>2. server_s \in AllFds /\ server_s \notin Fds /\ Fds \subseteq AllFds
    BY BoaAssumption DEF AllFds
  <1>3. /\ open' \in [AllFds -> {"listen", "free", "socket", "pipe", "file", "temp", "lost"}]
        /\ \A g \in AllFds \ {server_s} : open'[g] = open[g]
        /\ \/ open[server_s] = open'[server_s]
           \/ open[server_s] = "listen" /\ open'[server_s] = "free"
        /\ sigterm_flag' \in {0, 1} => open' = open /\ sigterm_flag' = sigterm_flag
    <2>1. /\ open \in [AllFds -> {"listen", "free", "socket", "pipe", "file", "temp", "lost"}]
          /\ sigterm_flag \in {0, 1} => open[server_s] = "listen"
      BY DEF BoaInv, TablesOK
    <2>2. CASE sigterm_flag = 1
      <3>1. open' = [open EXCEPT ![server_s] = "free"] /\ sigterm_flag' = 2
        BY <1>1, <2>2
      <3> QED BY <1>2, <2>1, <2>2, <3>1
    <2>3. CASE sigterm_flag # 1
      <3>1. open' = open /\ sigterm_flag' = sigterm_flag
        BY <1>1, <2>3
      <3> QED BY <2>1, <3>1
    <2> QED BY <2>2, <2>3
  <1>4. TablesOK'
    <2>1. \A f \in Fds : open'[f] # "listen"
      BY <1>2, <1>3 DEF BoaInv, TablesOK
    <2> QED BY <1>1, <1>3, <2>1 DEF BoaInv, TablesOK
  <1>5. ListsOK' /\ InputsOK' /\ Requests' = Requests
    BY <1>1 DEF BoaInv, ListsOK, InputsOK, Requests
  <1>6. ASSUME NEW f \in Requests' PROVE RequestOK(req'[f], open')
    <2>1. RequestOK(req[f], open)
      BY <1>5 DEF BoaInv
    <2> QED BY <1>1, <1>2, <1>3, <2>1 DEF RequestOK
  <1>7. Accounted'
    <2>1. \A g \in AllFds : /\ open'[g] = "socket" <=> open[g] = "socket"
                            /\ open'[g] \in {"pipe", "file", "temp"} <=> open[g] \in {"pipe", "file", "temp"}
      BY <1>3
    <2>2. /\ {g \in AllFds : open'[g] = "socket"} = {g \in AllFds : open[g] = "socket"}
          /\ {g \in AllFds : open'[g] \in {"pipe", "file", "temp"}}
               = {g \in AllFds : open[g] \in {"pipe", "file", "temp"}}
      BY <2>1
    <2>3. Accounted
      BY DEF BoaInv
    <2> QED BY <1>1, <1>5, <2>2, <2>3, SameAccounts
  <1> QED BY <1>4, <1>5, <1>6, <1>7 DEF BoaInv

\* process_requests up to its loop, and the connections taken between two requests.
LEMMA TakeInv ==
    ASSUME BoaInv, First \/ Accept
    PROVE  BoaInv'
  <1>1. CASE First /\ pending_requests = 0
    <2>1. /\ todo' = ready /\ stage' = Round
          /\ UNCHANGED <<req, net, open, mm, used, ready, block, backlog, arrivals,
                         total_connections, sigterm_flag>>
      BY <1>1 DEF First, counters
    <2>2. ListsOK' /\ Requests' = Requests
      BY <2>1 DEF BoaInv, ListsOK, Requests, Round
    <2>3. /\ DOMAIN req' = Fds /\ \A f \in Fds : Kin(req[f], req'[f])
          /\ DOMAIN net' = Fds /\ \A f \in Fds : NetTyped(net'[f])
          /\ backlog' \in Seq(Seq(Seq(Token))) /\ arrivals' \in Seq(Seq(Seq(Token)))
      BY <2>1, Worded DEF BoaInv, TablesOK, InputsOK
    <2> QED BY <2>1, <2>2, <2>3, KeptInv
  <1>2. CASE Accept \/ (First /\ pending_requests # 0)
    <2>1. get_request /\ UNCHANGED <<block, mm, used, sigterm_flag, arrivals>>
      BY <1>2 DEF First, Accept, counters
    <2>2. /\ ready' \in Seq(Fds) /\ IsInjective(ready') /\ ToSet(ready) \subseteq ToSet(ready')
          /\ ToSet(ready') \cap ToSet(block) = {}
      BY <2>1, GotLists
    <2>3. /\ todo' \in Seq(Fds) /\ IsInjective(todo') /\ ToSet(todo') \subseteq ToSet(ready')
          /\ stage' \in {"handle", "accept", "dispose"} => todo' # <<>>
      <3>1. CASE Accept
        BY <2>2, <3>1 DEF Accept, BoaInv, ListsOK
      <3>2. CASE First
        BY <2>2, <3>2 DEF First, Round
      <3> QED BY <1>2, <3>1, <3>2
    <2>4. ListsOK'
      BY <2>1, <2>2, <2>3 DEF BoaInv, ListsOK
    <2> QED BY <2>1, <2>4, GotInv
  <1> QED BY <1>1, <1>2

\* select, and the world around the server.
LEMMA WorldInv ==
    ASSUME BoaInv, Poll \/ Select \/ World \/ \E f \in Fds : Age(f)
    PROVE  BoaInv'
  <1>1. /\ DOMAIN req = Fds /\ \A f \in Fds : HasFields(req[f]) /\ Kin(req[f], req[f])
        /\ DOMAIN net = Fds /\ \A f \in Fds : NetTyped(net[f])
        /\ backlog \in Seq(Seq(Seq(Token))) /\ arrivals \in Seq(Seq(Seq(Token)))
    BY Worded DEF BoaInv, TablesOK, InputsOK
  <1>2. ASSUME UNCHANGED <<todo, total_connections, ready, block, open, mm, used>>,
               stage' \in {"handle", "accept", "dispose"} => stage' = stage,
               sigterm_flag' \in {0, 1} => sigterm_flag \in {0, 1},
               DOMAIN req' = Fds, \A f \in Fds : Kin(req[f], req'[f]),
               DOMAIN net' = Fds, \A f \in Fds : NetTyped(net'[f]),
               backlog' \in Seq(Seq(Seq(Token))), arrivals' \in Seq(Seq(Seq(Token)))
        PROVE  BoaInv'
    <2>1. ListsOK' /\ Requests' = Requests
      BY <1>2 DEF BoaInv, ListsOK, Requests
    <2> QED BY <1>2, <2>1, KeptInv
  <1>3. CASE Poll \/ Select
    BY <1>1, <1>2, <1>3 DEF Poll, Select, data, counters
  <1>4. CASE Connect
    <2>1. /\ UNCHANGED <<todo, total_connections, ready, block, open, mm, used, stage, sigterm_flag,
                         req, net>>
          /\ backlog' = Append(backlog, Head(arrivals)) /\ arrivals' = Tail(arrivals)
          /\ arrivals # <<>>
      BY <1>4 DEF Connect, server, data
    <2>2. Head(arrivals) \in Seq(Seq(Token)) /\ Tail(arrivals) \in Seq(Seq(Seq(Token)))
      BY <1>1, <2>1
    <2>3. backlog' \in Seq(Seq(Seq(Token))) /\ arrivals' \in Seq(Seq(Seq(Token)))
      BY <1>1, <2>1, <2>2
    <2> QED BY <1>1, <1>2, <2>1, <2>3
  <1>5. ASSUME NEW f \in Live, Send(f) \/ Receive(f) \/ Leave(f)
        PROVE  BoaInv'
    <2>1. f \in Fds
      BY DEF Live
    <2>2. \E n : NetStep(f, n) /\ NetTyped(n)
      <3>1. NetTyped(net[f])
        BY <1>1, <2>1
      <3>2. CASE Send(f)
        <4>1. Head(net[f].more) \in Seq(Token) /\ Tail(net[f].more) \in Seq(Seq(Token))
          BY <3>1, <3>2 DEF Send, NetTyped
        <4>2. net[f].inq \o Head(net[f].more) \in Seq(Token)
          BY <3>1, <4>1, ConcatProperties DEF NetTyped
        <4> DEFINE n == [net[f] EXCEPT !.inq = net[f].inq \o Head(net[f].more),
                                       !.more = Tail(net[f].more)]
        <4>3. NetStep(f, n)
          BY <3>1, <3>2 DEF Send, NetTyped, NoNet
        <4>4. NetTyped(n)
          BY <3>1, <4>1, <4>2 DEF NetTyped, NoNet
        <4> QED BY <4>3, <4>4
      <3>3. CASE Receive(f)
        <4> DEFINE n == [net[f] EXCEPT !.room = SndBuf]
        <4>1. NetStep(f, n) /\ NetTyped(n)
          BY <3>1, <3>3 DEF Receive, NetTyped, NoNet
        <4> QED BY <4>1
      <3>4. CASE Leave(f)
        <4>1. PICK how : NetStep(f, [net[f] EXCEPT !.peer = how, !.more = <<>>])
          BY <3>4 DEF Leave
        <4>2. <<>> \in Seq(Seq(Token))
          OBVIOUS
        <4>3. NetTyped([net[f] EXCEPT !.peer = how, !.more = <<>>])
          BY <3>1, <4>2 DEF NetTyped, NoNet
        <4> QED BY <4>1, <4>3
      <3> QED BY <1>5, <3>2, <3>3, <3>4
    <2>3. PICK n : NetStep(f, n) /\ NetTyped(n)
      BY <2>2
    <2>4. /\ UNCHANGED <<todo, total_connections, ready, block, open, mm, used, stage, sigterm_flag,
                         req, backlog, arrivals>>
          /\ net' = [net EXCEPT ![f] = n]
      BY <2>3 DEF NetStep, server
    <2>5. DOMAIN net' = Fds /\ \A g \in Fds : NetTyped(net'[g])
      BY <1>1, <2>3, <2>4
    <2> QED BY <1>1, <1>2, <2>4, <2>5
  <1>6. ASSUME NEW f \in AllFds, Produce(f)
        PROVE  BoaInv'
    <2>1. UNCHANGED <<todo, total_connections, ready, block, open, mm, used, stage, sigterm_flag,
                      req, net, backlog, arrivals>>
      BY <1>6 DEF Produce, server
    <2> QED BY <1>1, <1>2, <2>1
  <1>7. CASE Signal
    <2>1. /\ UNCHANGED <<todo, total_connections, ready, block, open, mm, used, req, net, backlog,
                         arrivals>>
          /\ stage' \in {"handle", "accept", "dispose"} => stage' = stage
          /\ sigterm_flag' \in {0, 1} => sigterm_flag \in {0, 1}
      BY <1>7 DEF Signal, data
    <2> QED BY <1>1, <1>2, <2>1
  <1>8. ASSUME NEW f \in Fds, Age(f)
        PROVE  BoaInv'
    <2>1. /\ UNCHANGED <<todo, total_connections, ready, block, open, mm, used, stage, sigterm_flag,
                         net, backlog, arrivals>>
          /\ req' = [req EXCEPT ![f].age = @ + 1]
      BY <1>8 DEF Age, server, counters
    <2>2. Kin(req[f], [req[f] EXCEPT !.age = @ + 1])
      BY <1>1 DEF Kin, SameHold, Told, HasFields, RequestTyped
    <2>3. DOMAIN req' = Fds /\ \A g \in Fds : Kin(req[g], req'[g])
      BY <1>1, <2>1, <2>2
    <2> QED BY <1>1, <1>2, <2>1, <2>3
  <1> QED BY <1>3, <1>4, <1>5, <1>6, <1>7, <1>8 DEF World

\* The server as main leaves it.
LEMMA InitInv ==
    ASSUME Init
    PROVE  BoaInv
  <1>1. /\ ready = <<>> /\ block = <<>> /\ todo = <<>> /\ stage = "signals"
        /\ req = [f \in Fds |-> NoReq] /\ net = [f \in Fds |-> NoNet]
        /\ open = [f \in AllFds |-> IF f = server_s THEN "listen" ELSE "free"]
        /\ mm = [i \in 0..(MMAP_LIST_SIZE - 1) |-> [count |-> 0, file |-> 0]] /\ used = 0
        /\ total_connections = 0 /\ sigterm_flag = 0 /\ backlog = <<>> /\ arrivals \in Scenarios
    BY DEF Init
  <1>2. Requests = {} /\ ToSet(<<>>) = {}
    BY <1>1 DEF Requests, ToSet
  <1>3. HasFields(NoReq) /\ RequestTyped(NoReq)
    <2>1. <<>> \in Seq(Token)
      OBVIOUS
    <2> QED BY <2>1, FreshRequest, Zenon DEF NoReq
  <1>4. TablesOK
    BY <1>1, <1>3, BoaAssumption DEF TablesOK, AllFds, Indices
  <1>5. ListsOK
    <2>1. <<>> \in Seq(Fds) /\ IsInjective(<<>>)
      BY DEF IsInjective
    <2> QED BY <1>1, <1>2, <2>1 DEF ListsOK
  <1>6. InputsOK
    <2>1. <<>> \in Seq(Token) /\ <<>> \in Seq(Seq(Token)) /\ <<>> \in Seq(Seq(Seq(Token)))
      OBVIOUS
    <2>2. NetTyped(NoNet)
      BY <2>1 DEF NetTyped, NoNet
    <2>3. arrivals \in Seq(Seq(Seq(Token)))
      BY <1>1, ScenariosAssumption
    <2> QED BY <1>1, <1>3, <2>1, <2>2, <2>3 DEF InputsOK
  <1>7. Accounted
    <2>1. Cardinality({}) = 0
      BY FS_EmptySet
    <2>2. Len(ready) + Len(block) = 0 /\ total_connections = 0
      BY <1>1
    <2>3. {f \in AllFds : open[f] = "socket"} = {}
          /\ {f \in AllFds : open[f] \in {"pipe", "file", "temp"}} = {}
      BY <1>1
    <2>4. /\ \A i \in DOMAIN mm : mm[i].count = 0
          /\ {i \in DOMAIN mm : mm[i].count > 0} = {} /\ used = 0
      BY <1>1
    <2>5. {HeldBy(req[f]) : f \in Requests} = {} /\ UNION {} = {}
      BY <1>2
    <2>6. ASSUME NEW i \in DOMAIN mm
          PROVE  mm[i].count = Cardinality({f \in Requests : req[f].mmap = i})
      <3>1. {f \in Requests : req[f].mmap = i} = {}
        BY <1>2
      <3> QED BY <2>1, <2>4, <3>1, Zenon
    <2> QED BY <1>2, <2>1, <2>2, <2>3, <2>4, <2>5, <2>6, Zenon DEF Accounted
  <1> QED BY <1>2, <1>4, <1>5, <1>6, <1>7 DEF BoaInv

\* The inductive invariant holds of every reachable state.
LEMMA Safe == Spec => []BoaInv
  <1>1. Init => BoaInv
    BY InitInv
  <1>2. BoaInv /\ [Next]_vars => BoaInv'
    <2> SUFFICES ASSUME BoaInv, [Next]_vars PROVE BoaInv'
      OBVIOUS
    <2>1. CASE Server
      BY <2>1, SignalsInv, UpdateInv, TakeInv, WorldInv, DisposeInv, RunInv DEF Server
    <2>2. CASE World \/ \E f \in Fds : Age(f)
      BY <2>2, WorldInv
    <2>3. CASE UNCHANGED vars
      <3>1. TablesOK' /\ ListsOK' /\ InputsOK' /\ Requests' = Requests
        BY <2>3 DEF vars, server, data, counters, BoaInv, TablesOK, ListsOK, InputsOK, Requests
      <3>2. Accounted' /\ \A f \in Requests' : RequestOK(req'[f], open')
        BY <2>3, <3>1 DEF vars, server, data, counters, BoaInv, Accounted
      <3> QED BY <3>1, <3>2 DEF BoaInv
    <2> QED BY <2>1, <2>2, <2>3 DEF Next
  <1> QED BY <1>1, <1>2, PTL DEF Spec

-----------------------------------------------------------------------------
(* The sets that select is asked about. *)

\* A request whose words differ only in its age is asked about in the same way.
SameWait(q, r) ==
    r.status = q.status /\ r.buf = q.buf /\ r.data_fd = q.data_fd /\ r.post_data_fd = q.post_data_fd

\* A step that only adds bits, and leaves the sleeping requests alone, keeps them watched.
LEMMA WatchKept ==
    ASSUME BoaInv, WatchInv, UNCHANGED block, max_fd' \in Int,
           stage' \in {"first", "handle", "accept", "dispose", "poll", "select"} =>
             /\ stage \in {"first", "handle", "accept", "dispose", "poll", "select"}
             /\ bits \subseteq bits' /\ max_fd <= max_fd',
           \A f \in ToSet(block) : SameWait(req[f], req'[f]),
           stage' \in {"accept", "dispose"} /\ ret' = -1 => Sleepy(req'[Head(todo')])
    PROVE  WatchInv'
  <1>1. ASSUME NEW f \in ToSet(block)
        PROVE  Sleepy(req'[f]) /\ Awaits(f, req'[f]) = Awaits(f, req[f])
    BY DEF WatchInv, SameWait, Sleepy, Awaits
  <1>2. ASSUME stage' \in {"first", "handle", "accept", "dispose", "poll", "select"},
               NEW f \in ToSet(block)
        PROVE  Awaits(f, req'[f]) \in bits' /\ Awaits(f, req'[f])[2] <= max_fd'
    <2>1. Awaits(f, req[f]) \in bits /\ Awaits(f, req[f])[2] <= max_fd /\ max_fd \in Int
      BY <1>2 DEF WatchInv, SleepersWatched
    <2>2. Awaits(f, req[f])[2] \in Int
      <3>1. f \in Requests /\ Sleepy(req[f])
        BY DEF Requests, WatchInv
      <3> QED BY <3>1, AwaitsOwn
    <2> QED BY <1>1, <1>2, <2>1, <2>2
  <1>3. SleepersWatched'
    BY <1>2 DEF SleepersWatched
  <1>4. \A f \in ToSet(block') : Sleepy(req'[f])
    BY <1>1
  <1> QED BY <1>3, <1>4 DEF WatchInv

\* The top of the loop, and fdset_update, which asks about every request that sleeps on.
LEMMA WatchTop ==
    ASSUME BoaInv, WatchInv, Signals \/ fdset_update
    PROVE  WatchInv'
  <1>1. CASE Signals
    <2>1. /\ max_fd' = -1 /\ stage' \in {"exited", "update", "first"}
          /\ stage' = "first" => block = <<>>
          /\ UNCHANGED <<block, req>>
      BY <1>1 DEF Signals
    <2>2. block = <<>> => ToSet(block) = {}
      BY DEF ToSet
    <2>3. SleepersWatched'
      BY <2>1, <2>2 DEF SleepersWatched
    <2> QED BY <2>1, <2>3 DEF WatchInv
  <1>2. CASE fdset_update
    <2>1. PICK q : /\ Watching(q, Len(block))
                   /\ bits' = q.bits /\ block' = q.block /\ max_fd' = q.max_fd /\ req' = q.req
                   /\ stage' = "first"
      BY <1>2, WokenSound, Zenon DEF fdset_update
    <2>2. /\ q.max_fd \in Int
          /\ ToSet(q.block) \subseteq ToSet(block)
          /\ \A g \in ToSet(q.block) : q.req[g] = req[g]
          /\ \A j \in 1..Len(block) : block[j] \in ToSet(q.block) =>
                /\ Awaits(block[j], req[block[j]]) \in q.bits
                /\ Awaits(block[j], req[block[j]])[2] <= q.max_fd
      BY <2>1 DEF Watching, WatchInv
    <2>3. ASSUME NEW g \in ToSet(q.block)
          PROVE  Awaits(g, req[g]) \in q.bits /\ Awaits(g, req[g])[2] <= q.max_fd
      <3>1. PICK j \in 1..Len(block) : block[j] = g
        <4>1. g \in ToSet(block) /\ block \in Seq(Fds)
          BY <2>2 DEF BoaInv, ListsOK
        <4> QED BY <4>1 DEF ToSet
      <3> QED BY <2>2, <3>1
    <2>4. \A g \in ToSet(block') : Sleepy(req'[g])
      BY <2>1, <2>2 DEF WatchInv
    <2>5. SleepersWatched'
      BY <2>1, <2>2, <2>3 DEF SleepersWatched
    <2> QED BY <2>1, <2>2, <2>4, <2>5 DEF WatchInv
  <1> QED BY <1>1, <1>2

\* process_requests up to its loop, and the connections taken between two requests.
LEMMA WatchTake ==
    ASSUME BoaInv, WatchInv, First \/ Accept
    PROVE  WatchInv'
  <1>1. /\ UNCHANGED <<block, bits, max_fd, ret>>
        /\ \/ stage = "first" /\ stage' \in {"poll", "handle"}
           \/ stage = "accept" /\ stage' = "dispose" /\ UNCHANGED todo
    BY DEF First, Accept, Round
  <1>2. \A f \in Requests : req'[f] = req[f]
    <2>1. CASE UNCHANGED req
      BY <2>1
    <2>2. CASE ~UNCHANGED req
      <3>1. get_request
        BY <2>2 DEF First, Accept
      <3>2. PICK fd \in Fds : fd = LowestFree(open) /\ fd \notin Requests
        BY <1>1, <2>2, <3>1, GotLists
      <3>3. \E q : req' = [req EXCEPT ![fd] = q]
        BY <2>2, <3>1, <3>2, Zenon DEF get_request
      <3>4. Requests \subseteq Fds /\ DOMAIN req = Fds
        BY RequestsFinite DEF BoaInv, TablesOK
      <3> QED BY <3>2, <3>3, <3>4
    <2> QED BY <2>1, <2>2
  <1>3. \A f \in ToSet(block) : SameWait(req[f], req'[f])
    BY <1>2 DEF Requests, SameWait
  <1>4. stage' \in {"accept", "dispose"} /\ ret' = -1 => Sleepy(req'[Head(todo')])
    <2>1. stage = "accept" => Head(todo) \in Requests
      BY AtHand
    <2> QED BY <1>1, <1>2, <2>1 DEF WatchInv
  <1>5. max_fd' \in Int /\ max_fd <= max_fd' /\ bits \subseteq bits'
    BY <1>1 DEF WatchInv
  <1> QED BY <1>1, <1>3, <1>4, <1>5, WatchKept

\* select, and the world around the server.
LEMMA WatchWorld ==
    ASSUME BoaInv, WatchInv, Poll \/ Select \/ World \/ (\E f \in Fds : Age(f)) \/ UNCHANGED vars
    PROVE  WatchInv'
  <1>1. server_s \in Int /\ max_fd \in Int
    BY BoaAssumption DEF WatchInv
  <1>2. CASE Poll
    <2>1. /\ stage = "poll" /\ stage' = "select" /\ UNCHANGED <<block, req>>
          /\ bits \subseteq bits' /\ max_fd' \in Int /\ max_fd <= max_fd'
      BY <1>1, <1>2 DEF Poll, data
    <2>2. \A f \in ToSet(block) : SameWait(req[f], req'[f])
      BY <2>1 DEF SameWait
    <2> QED BY <2>1, <2>2, WatchKept
  <1>3. CASE Select \/ (Signal /\ stage' = "signals")
    <2>1. stage' = "signals" /\ UNCHANGED <<block, req, max_fd>>
      BY <1>3 DEF Select, Signal, data
    <2>2. \A f \in ToSet(block) : SameWait(req[f], req'[f])
      BY <2>1 DEF SameWait
    <2> QED BY <1>1, <2>1, <2>2, WatchKept
  <1>4. ASSUME UNCHANGED <<block, req, max_fd, bits, stage, ret, todo>>
        PROVE  WatchInv'
    BY <1>4 DEF WatchInv, SleepersWatched
  <1>5. CASE Connect \/ (Signal /\ stage' = stage) \/ UNCHANGED vars
    BY <1>4, <1>5 DEF Connect, Signal, vars, server, data
  <1>6. CASE (\E f \in Live : Send(f) \/ Receive(f) \/ Leave(f)) \/ (\E f \in AllFds : Produce(f))
    <2>1. UNCHANGED <<block, req, max_fd, bits, stage, ret, todo>>
      BY <1>6 DEF Send, Receive, Leave, NetStep, Produce, server
    <2> QED BY <1>4, <2>1
  <1>7. CASE \E f \in Fds : Age(f)
    <2>1. PICK f \in Fds : Age(f)
      BY <1>7
    <2>2. /\ stage = "select" /\ UNCHANGED <<block, max_fd, bits, stage>>
          /\ req' = [req EXCEPT ![f].age = @ + 1]
      BY <2>1 DEF Age, server
    <2>3. ASSUME NEW g \in ToSet(block) PROVE SameWait(req[g], req'[g])
      <3>1. g \in Fds
        BY RequestsFinite DEF Requests, BoaInv
      <3>2. HasFields(req[g]) /\ DOMAIN req = Fds
        BY <3>1 DEF BoaInv, TablesOK
      <3> QED BY <2>2, <3>1, <3>2 DEF SameWait, HasFields
    <2> QED BY <1>1, <2>2, <2>3, WatchKept
  <1> QED BY <1>2, <1>3, <1>4, <1>5, <1>6, <1>7 DEF World, Signal

\* A request that is put to sleep is asked about.
LEMMA WatchSlept ==
    ASSUME BoaInv, WatchInv, stage = "dispose", stage' \notin {"accept", "dispose"},
           NEW f \in Fds, f \in ToSet(ready), block' = <<f>> \o block,
           \A g \in Fds \ {f} : req'[g] = req[g], Sleepy(req'[f]),
           Awaits(f, req'[f])[2] \in Int,
           bits' = bits \cup {Awaits(f, req'[f])},
           max_fd' = IF Awaits(f, req'[f])[2] > max_fd THEN Awaits(f, req'[f])[2] ELSE max_fd
    PROVE  WatchInv'
  <1>1. block \in Seq(Fds) /\ IsInjective(block) /\ f \notin ToSet(block)
    BY DEF BoaInv, ListsOK
  <1>2. ToSet(block') = {f} \cup ToSet(block)
    BY <1>1, Enqueued
  <1>3. max_fd \in Int /\ max_fd' \in Int /\ max_fd <= max_fd' /\ Awaits(f, req'[f])[2] <= max_fd'
    <2> DEFINE d == Awaits(f, req'[f])[2]
    <2> HIDE DEF d
    <2>1. max_fd \in Int /\ d \in Int /\ max_fd' = IF d > max_fd THEN d ELSE max_fd
      BY DEF WatchInv, d
    <2>2. max_fd' \in Int /\ max_fd <= max_fd' /\ d <= max_fd'
      BY <2>1
    <2> QED BY <2>1, <2>2 DEF d
  <1>4. ASSUME NEW g \in ToSet(block)
        PROVE  /\ Sleepy(req'[g]) /\ Awaits(g, req'[g]) \in bits'
               /\ Awaits(g, req'[g])[2] <= max_fd'
    <2>1. req'[g] = req[g] /\ g \in Requests
      <3>1. ToSet(block) \subseteq Fds
        BY <1>1 DEF ToSet
      <3> QED BY <1>1, <3>1 DEF Requests
    <2>2. /\ Sleepy(req[g]) /\ Awaits(g, req[g]) \in bits /\ Awaits(g, req[g])[2] <= max_fd
      BY DEF WatchInv, SleepersWatched
    <2>3. Awaits(g, req[g])[2] \in Int
      BY <2>1, <2>2, AwaitsOwn
    <2>4. Awaits(g, req[g])[2] <= max_fd'
      <3> DEFINE d == Awaits(g, req[g])[2]
      <3> HIDE DEF d
      <3>1. d \in Int /\ d <= max_fd
        BY <2>2, <2>3 DEF d
      <3>2. d <= max_fd'
        BY <1>3, <3>1
      <3> QED BY <3>2 DEF d
    <2> QED BY <2>1, <2>2, <2>4
  <1>5. \A g \in ToSet(block') : Sleepy(req'[g])
    BY <1>2, <1>4
  <1>6. SleepersWatched'
    BY <1>2, <1>3, <1>4 DEF SleepersWatched
  <1> QED BY <1>3, <1>5, <1>6 DEF WatchInv

\* What is done with a request that has been run: it sleeps, ends, gives way to the next
\* one on its connection, or runs again.
LEMMA WatchDispose ==
    ASSUME BoaInv, WatchInv, Dispose
    PROVE  WatchInv'
  <1>1. PICK f \in Fds : f = Head(todo) /\ f \in ToSet(ready) /\ f \in Requests
    BY AtHand DEF Dispose
  <1>2. stage = "dispose" /\ stage' \in {"poll", "handle"} /\ f \notin ToSet(block)
    BY <1>1 DEF Dispose, Round, BoaInv, ListsOK
  <1>3. DOMAIN req = Fds /\ HasFields(req[f]) /\ max_fd \in Int
    BY DEF BoaInv, TablesOK, WatchInv
  <1>4. ToSet(block) \subseteq Fds
    BY DEF BoaInv, ListsOK, ToSet
  <1>5. ASSUME UNCHANGED <<block, bits, max_fd>>, \A g \in Fds \ {f} : req'[g] = req[g]
        PROVE  WatchInv'
    <2>1. \A g \in ToSet(block) : SameWait(req[g], req'[g])
      BY <1>2, <1>4, <1>5 DEF SameWait
    <2>2. max_fd' \in Int /\ bits \subseteq bits' /\ max_fd <= max_fd'
      BY <1>3, <1>5
    <2> QED BY <1>2, <1>5, <2>1, <2>2, WatchKept
  <1>6. CASE ret = -1
    <2>1. block_request(f, req[f]) /\ req' = req
      BY <1>1, <1>6 DEF Dispose, data
    <2>2. Sleepy(req[f])
      BY <1>1, <1>2, <1>6 DEF WatchInv
    <2>3. Awaits(f, req[f])[2] \in Int
      BY <1>1, <2>2, AwaitsOwn
    <2> QED BY <1>1, <1>2, <2>1, <2>2, <2>3, WatchSlept DEF block_request
  <1>7. CASE ret # -1 /\ free_request(f) /\ Kept(req[f])
    <2> DEFINE q == NextOn(req[f])
    <2>1. /\ req' = [req EXCEPT ![f] = q] /\ block' = <<f>> \o block
          /\ bits' = bits \cup {<<"r", f>>} /\ max_fd' = IF f > max_fd THEN f ELSE max_fd
      BY <1>7 DEF free_request
    <2>2. q.status = "READ_HEADER" /\ q.buf = <<>>
      BY DEF NextOn, NewRequest
    <2>3. Awaits(f, q) = <<"r", f>> /\ Sleepy(q) /\ f \in Int
      <3>1. f \in Int
        BY BoaAssumption
      <3> HIDE DEF q
      <3> QED BY <2>2, <3>1 DEF Awaits, Sleepy
    <2> HIDE DEF q
    <2>4. req'[f] = q /\ \A g \in Fds \ {f} : req'[g] = req[g]
      BY <1>3, <2>1
    <2>5. Awaits(f, req'[f]) = <<"r", f>> /\ Awaits(f, req'[f])[2] = f /\ Sleepy(req'[f])
      BY <2>3, <2>4
    <2> QED BY <1>1, <1>2, <2>1, <2>3, <2>4, <2>5, WatchSlept
  <1>8. CASE ret # -1 /\ free_request(f) /\ ~Kept(req[f])
    <2>1. UNCHANGED <<block, bits, max_fd>> /\ req' = [req EXCEPT ![f] = NoReq]
      BY <1>8 DEF free_request
    <2> QED BY <1>3, <1>5, <2>1
  <1>9. CASE ret # -1 /\ ~free_request(f)
    <2>1. /\ UNCHANGED <<block, bits, max_fd>>
          /\ \/ req' = [req EXCEPT ![f].status = "DONE", ![f].age = 0]
             \/ req' = [req EXCEPT ![f].age = 0]
      BY <1>1, <1>9 DEF Dispose
    <2> QED BY <1>3, <1>5, <2>1
  <1> QED BY <1>6, <1>7, <1>8, <1>9

\* The handlers leave the lists and the sets to the loop.
LEMMA WatchRun ==
    ASSUME BoaInv, WatchInv,
           \/ ReadHeader \/ ReadBody \/ WriteBody \/ ProcessGet \/ ReadFromPipe \/ WriteFromPipe
           \/ Flush \/ Done \/ Dead
    PROVE  WatchInv'
  <1>1. PICK f, v : /\ stage = "handle" /\ f = Head(todo) /\ f \in Requests /\ f \in Fds
                    /\ Sound(v, open, Others(f), Uses(f)) /\ Handled(f, v)
                    /\ v.ret = -1 => Sleepy(v.r)
    BY RunSound
  <1> DEFINE q == IF sigterm_flag # 0 THEN SQUASH_KA(v.r) ELSE v.r
  <1>2. /\ req' = [req EXCEPT ![f] = q] /\ ret' = v.ret
        /\ stage' \in {"accept", "dispose"} /\ UNCHANGED <<todo, block, bits, max_fd>>
    BY <1>1 DEF Handled
  <1>3. q.status = v.r.status /\ q.buf = v.r.buf
    <2>1. HasFields(v.r)
      BY <1>1 DEF Sound, HasParts
    <2> QED BY <2>1 DEF SQUASH_KA, HasFields
  <1> HIDE DEF q
  <1>4. DOMAIN req = Fds /\ ToSet(block) \subseteq Fds /\ f \notin ToSet(block)
    <2>1. f \in ToSet(ready)
      BY <1>1, AtHand
    <2>2. /\ DOMAIN req = Fds /\ block \in Seq(Fds)
          /\ ToSet(ready) \cap ToSet(block) = {}
      BY DEF BoaInv, TablesOK, ListsOK
    <2>3. ToSet(block) \subseteq Fds
      BY <2>2 DEF ToSet
    <2> QED BY <2>1, <2>2, <2>3
  <1>5. \A g \in ToSet(block) : SameWait(req[g], req'[g])
    BY <1>2, <1>4 DEF SameWait
  <1>6. ret' = -1 => Sleepy(req'[Head(todo')])
    <2>1. req'[Head(todo')] = q
      BY <1>1, <1>2, <1>4
    <2> QED BY <1>1, <1>2, <1>3, <2>1 DEF Sleepy
  <1>7. max_fd' \in Int /\ bits \subseteq bits' /\ max_fd <= max_fd'
    BY <1>2 DEF WatchInv
  <1> QED BY <1>1, <1>2, <1>5, <1>6, <1>7, WatchKept

-----------------------------------------------------------------------------
\* No descriptor, connection or mapping is lost or released twice, whatever fails: the
\* requests in the lists are the open sockets and the connections counted, what else is
\* open is held by exactly one of them, and the mmap cache counts its users.
THEOREM NothingLost == Spec => []Accounted
  <1>1. BoaInv => Accounted
    BY DEF BoaInv
  <1> QED BY <1>1, Safe, PTL

\* The sets hold what every sleeping request waits for.
LEMMA Watched == Spec => []WatchInv
  <1>1. Init => WatchInv
    <2> SUFFICES ASSUME Init PROVE WatchInv
      OBVIOUS
    <2>1. stage = "signals" /\ block = <<>> /\ max_fd = -1
      BY DEF Init
    <2>2. ToSet(block) = {}
      BY <2>1 DEF ToSet
    <2> QED BY <2>1, <2>2 DEF WatchInv, SleepersWatched
  <1>2. BoaInv /\ WatchInv /\ [Next]_vars => WatchInv'
    <2> SUFFICES ASSUME BoaInv, WatchInv, [Next]_vars PROVE WatchInv'
      OBVIOUS
    <2>1. CASE Server
      BY <2>1, WatchTop, WatchTake, WatchWorld, WatchDispose, WatchRun DEF Server
    <2>2. CASE World \/ (\E f \in Fds : Age(f)) \/ UNCHANGED vars
      BY <2>2, WatchWorld
    <2> QED BY <2>1, <2>2 DEF Next
  <1> QED BY <1>1, <1>2, Safe, PTL DEF Spec

\* select is never entered, nor is a handler run, without every sleeping request being
\* asked about: fdset_update and block_request (select.c:111-187, queue.c:36-62) put the
\* descriptor it waits for in the sets and below max_fd, and no other request, that wakes,
\* closes or takes over a descriptor, clears the bit.
THEOREM SleepersAreWatched == Spec => []SleepersWatched
  <1>1. WatchInv => SleepersWatched
    BY DEF WatchInv
  <1> QED BY <1>1, Watched, PTL

-----------------------------------------------------------------------------
(* Sizes: buffers stay sequences, and positions and sizes integers.        *)

\* A sequence over any set is one.
LEMMA ListedAny ==
    ASSUME NEW S, NEW s \in Seq(S)
    PROVE  Listed(s)
  <1>1. Len(s) \in Nat /\ DOMAIN s = 1..Len(s) /\ s = [i \in 1..Len(s) |-> s[i]]
    OBVIOUS
  <1>2. \A i \in 1..Len(s) : s[i] \in ToSet(s)
    BY <1>1 DEF ToSet
  <1> QED BY <1>1, <1>2 DEF Listed

\* What is cut out of one, put together from two, or written out, is one again.
LEMMA ListedCut ==
    ASSUME NEW s, NEW m \in Int, NEW n \in Int
    PROVE  Listed(SubSeq(s, m, n))
  <1> DEFINE S == {s[i] : i \in m..n}
  <1>1. \A i \in m..n : s[i] \in S
    OBVIOUS
  <1> HIDE DEF S
  <1>2. SubSeq(s, m, n) \in Seq(S)
    BY <1>1, SubSeqProperties
  <1> QED BY <1>2, ListedAny

\* Every way the handlers have of cutting and joining buffers.
LEMMA ListedParts ==
    ASSUME NEW s, Listed(s)
    PROVE  /\ Len(s) \in Nat /\ (s # <<>> <=> Len(s) > 0)
           /\ \A k \in Int : Listed(Take(s, k)) /\ Listed(Drop(s, k))
           /\ s # <<>> => Listed(Tail(s))
           /\ \A x : Listed(Append(s, x))
           /\ \A t : Listed(t) => Listed(s \o t)
  <1>1. Len(s) \in Nat /\ (s # <<>> <=> Len(s) > 0)
    BY DEF Listed
  <1>2. ASSUME NEW k \in Int PROVE Listed(Take(s, k)) /\ Listed(Drop(s, k))
    <2>1. k + 1 \in Int /\ 1 \in Int /\ Len(s) \in Int
      BY <1>1
    <2> QED BY <2>1, ListedCut DEF Take, Drop
  <1>3. ASSUME s # <<>> PROVE Listed(Tail(s))
    <2>1. Tail(s) \in Seq(ToSet(s))
      BY <1>3 DEF Listed
    <2> QED BY <2>1, ListedAny
  <1>4. ASSUME NEW x PROVE Listed(Append(s, x))
    <2>1. s \in Seq(ToSet(s) \cup {x})
      <3>1. DOMAIN s = 1..Len(s) /\ s = [i \in 1..Len(s) |-> s[i]]
            /\ \A i \in 1..Len(s) : s[i] \in ToSet(s)
        BY DEF Listed
      <3> QED BY <1>1, <3>1
    <2>2. Append(s, x) \in Seq(ToSet(s) \cup {x})
      BY <2>1, AppendProperties
    <2> QED BY <2>2, ListedAny
  <1>5. ASSUME NEW t, Listed(t) PROVE Listed(s \o t)
    <2> DEFINE U == ToSet(s) \cup ToSet(t)
    <2>1. s \in Seq(U)
      <3>1. DOMAIN s = 1..Len(s) /\ s = [i \in 1..Len(s) |-> s[i]]
            /\ \A i \in 1..Len(s) : s[i] \in ToSet(s)
        BY DEF Listed
      <3> QED BY <1>1, <3>1
    <2>2. t \in Seq(U)
      <3>1. /\ Len(t) \in Nat /\ DOMAIN t = 1..Len(t) /\ t = [i \in 1..Len(t) |-> t[i]]
            /\ \A i \in 1..Len(t) : t[i] \in ToSet(t)
        BY <1>5 DEF Listed
      <3> QED BY <3>1
    <2> HIDE DEF U
    <2>3. s \o t \in Seq(U)
      BY <2>1, <2>2, ConcatProperties
    <2> QED BY <2>3, ListedAny
  <1> QED BY <1>1, <1>2, <1>3, <1>4, <1>5

\* The empty buffer, one token, and a piece of a document.
LEMMA ListedNew ==
    /\ Listed(<<>>) /\ Len(<<>>) = 0 /\ \A x : Listed(<<x>>)
    /\ \A m, n \in Int : Listed(Data(m, n))
  <1>1. Listed(<<>>) /\ Len(<<>>) = 0
    <2>1. <<>> \in Seq({})
      OBVIOUS
    <2> QED BY <2>1, ListedAny
  <1>2. ASSUME NEW x PROVE Listed(<<x>>)
    <2>1. <<x>> \in Seq({x})
      OBVIOUS
    <2> QED BY <2>1, ListedAny
  <1>3. ASSUME NEW m \in Int, NEW n \in Int PROVE Listed(Data(m, n))
    <2> DEFINE d == Data(m, n)
               U == {Tok("data", m + k - 1) : k \in 1..(n - m + 1)}
               z == IF n - m + 1 >= 0 THEN n - m + 1 ELSE 0
    <2>1. z \in Nat /\ 1..(n - m + 1) = 1..z
      OBVIOUS
    <2>2. d = [k \in 1..z |-> Tok("data", m + k - 1)]
      BY <2>1 DEF Data
    <2>3. \A k \in 1..z : Tok("data", m + k - 1) \in U
      BY <2>1
    <2>4. d \in [1..z -> U]
      <3> HIDE DEF U, z
      <3> QED BY <2>2, <2>3
    <2> HIDE DEF d, U, z
    <2>5. d \in Seq(U)
      BY <2>1, <2>4, SeqDef
    <2> QED BY <2>5, ListedAny DEF d
  <1> QED BY <1>1, <1>2, <1>3

\* What a handler works on, with (Sized) and without (Talks) the sources.
Talks(w) == {"n", "r", "ret"} \subseteq DOMAIN w /\ SizedRequest(w.r) /\ SizedNet(w.n)
Sized(w) == Talks(w) /\ "src" \in DOMAIN w /\ SizedSources(w.src)

\* A handler that is done for now.
Answered(w) == Sized(w) /\ w.ret \in {0, 1}

SameSources(v, w) == DOMAIN w = DOMAIN v /\ ("src" \in DOMAIN v => w.src = v.src)

\* A request whose words or status change keeps its sizes.
LEMMA SizedWords ==
    ASSUME NEW r, SizedRequest(r)
    PROVE  /\ SizedRequest(SQUASH_KA(r))
           /\ \A x : SizedRequest([r EXCEPT !.response_status = x])
           /\ \A x : SizedRequest([r EXCEPT !.status = x])
           /\ \A x : Listed(x) => SizedRequest([r EXCEPT !.buf = x])
  BY DEF SizedRequest, SQUASH_KA

\* What response.c and req_write put into the buffer.
LEMMA SizedWritten ==
    ASSUME NEW r, SizedRequest(r)
    PROVE  /\ \A toks : Listed(toks) => SizedRequest(req_write(r, toks))
           /\ SizedRequest(print_http_headers(r)) /\ SizedRequest(WithPage(r))
           /\ SizedRequest(send_r_request_ok(r)) /\ SizedRequest(reset_output_buffer(r))
  <1>1. ASSUME NEW q, SizedRequest(q), NEW toks, Listed(toks) PROVE SizedRequest(req_write(q, toks))
    <2> DEFINE long == q.buf \o toks
    <2>1. req_write(q, toks) \in {q, [q EXCEPT !.status = "DEAD"], [q EXCEPT !.buf = long]}
      BY Zenon DEF req_write
    <2>2. Listed(long)
      BY <1>1, ListedParts DEF SizedRequest
    <2> HIDE DEF long
    <2> QED BY <1>1, <2>1, <2>2, SizedWords
  <1>2. ASSUME NEW q, SizedRequest(q) PROVE SizedRequest(print_http_headers(q))
    BY <1>1, <1>2, ListedNew, Zenon DEF print_http_headers
  <1>3. SizedRequest(WithPage(r))
    BY <1>1, ListedNew, Zenon DEF WithPage
  <1>4. SizedRequest(send_r_request_ok(r))
    BY <1>2, SizedWords, Zenon DEF send_r_request_ok
  <1>5. SizedRequest(reset_output_buffer(r))
    BY SizedWords, ListedNew, Zenon DEF reset_output_buffer
  <1> QED BY <1>1, <1>2, <1>3, <1>4, <1>5

\* A handler that replaces its request, or returns.
LEMMA SizedReplaced ==
    ASSUME NEW w, Talks(w), NEW r, SizedRequest(r)
    PROVE  /\ Talks([w EXCEPT !.r = r]) /\ SameSources(w, [w EXCEPT !.r = r])
           /\ \A x : Talks([w EXCEPT !.r = r, !.ret = x]) /\ SameSources(w, [w EXCEPT !.r = r, !.ret = x])
           /\ \A x : Talks([w EXCEPT !.ret = x]) /\ SameSources(w, [w EXCEPT !.ret = x])
           /\ \A x : [w EXCEPT !.r = r, !.ret = x].ret = x /\ [w EXCEPT !.ret = x].ret = x
           /\ \A x : [w EXCEPT !.ret = x].r = w.r
  BY DEF Talks, SameSources

\* req_flush returns -1 only with something to write, and then it has changed nothing.
LEMMA SizedFlush ==
    ASSUME NEW w, Talks(w)
    PROVE  LET v == req_flush(w) IN
           /\ Talks(v) /\ SameSources(w, v)
           /\ v.ret = -1 => v.r = w.r /\ w.r.start < Len(w.r.buf) /\ w.r.status # "DEAD"
  <1> DEFINE r == w.r
             left == Len(r.buf) - r.start
             k == Least(left, w.n.room)
             got == r.got \o Take(Drop(r.buf, r.start), k)
             all == [r EXCEPT !.buf = <<>>, !.start = 0, !.got = got]
             part == [r EXCEPT !.start = r.start + k, !.got = got]
             over == [r EXCEPT !.buf = <<>>, !.start = 0, !.status = "DEAD"]
             room == w.n.room - k
             a == [w EXCEPT !.r = all, !.n.room = room, !.ret = Len(all.buf)]
             b == [w EXCEPT !.r = part, !.n.room = room, !.ret = Len(part.buf)]
             dead == [w EXCEPT !.r = over, !.ret = -2]
             gone == [w EXCEPT !.ret = -2]
             waits == [w EXCEPT !.ret = -1]
             v == req_flush(w)
  <1>1. v \in {gone, dead, a, b} \/ (v = waits /\ left > 0 /\ r.status # "DEAD")
    <2>1. CASE r.start + k = Len(r.buf)
      BY <2>1, Zenon DEF req_flush
    <2>2. CASE r.start + k # Len(r.buf)
      BY <2>2, Zenon DEF req_flush
    <2> QED BY <2>1, <2>2
  <1>2. Len(r.buf) \in Nat /\ r.start \in Int /\ w.n.room \in Nat
    BY ListedParts DEF Talks, SizedRequest, SizedNet
  <1>3. k \in Int /\ room \in Nat
    <2>1. left \in Int
      BY <1>2
    <2> HIDE DEF left
    <2> QED BY <1>2, <2>1 DEF Least
  <1>4. left > 0 => r.start < Len(r.buf)
    BY <1>2
  <1> HIDE DEF left, k, room, got
  <1>5. SizedRequest(all) /\ SizedRequest(part) /\ SizedRequest(over)
    BY <1>2, <1>3, ListedNew DEF Talks, SizedRequest
  <1>6. all.buf = <<>> /\ part.buf = r.buf
    BY DEF Talks, SizedRequest
  <1> HIDE DEF all, part, over
  <1>7. Talks(gone) /\ Talks(dead) /\ Talks(waits) /\ Talks(a) /\ Talks(b)
    BY <1>3, <1>5 DEF Talks, SizedNet
  <1>8. /\ SameSources(w, gone) /\ SameSources(w, dead) /\ SameSources(w, waits)
        /\ SameSources(w, a) /\ SameSources(w, b)
    BY DEF SameSources
  <1>9. waits.r = r /\ gone.ret = -2 /\ dead.ret = -2 /\ a.ret = Len(<<>>) /\ b.ret = Len(r.buf)
    BY <1>6 DEF Talks
  <1>10. a.ret # -1 /\ b.ret # -1
    BY <1>2, <1>9, ListedNew
  <1> HIDE DEF gone, dead, waits, a, b, v
  <1>11. CASE v \in {gone, dead, a, b}
    <2>1. Talks(v) /\ SameSources(w, v) /\ v.ret # -1
      BY <1>7, <1>8, <1>9, <1>10, <1>11
    <2> QED BY <2>1 DEF v
  <1>12. CASE v = waits /\ left > 0 /\ r.status # "DEAD"
    <2>1. Talks(v) /\ SameSources(w, v) /\ v.r = w.r /\ w.r.start < Len(w.r.buf) /\ w.r.status # "DEAD"
      BY <1>4, <1>7, <1>8, <1>9, <1>12
    <2> QED BY <2>1 DEF v
  <1> QED BY <1>1, <1>11, <1>12

\* A step that leaves the sources alone.
LEMMA SizedSame ==
    ASSUME NEW w, NEW v, Sized(w), Talks(v), SameSources(w, v)
    PROVE  Sized(v)
  BY DEF Sized, SameSources

\* The answers of response.c.
LEMMA SizedSent ==
    ASSUME NEW w, Talks(w), NEW code
    PROVE  /\ Talks(send_r(w, code)) /\ SameSources(w, send_r(w, code))
           /\ Talks(send_r_not_modified(w)) /\ SameSources(w, send_r_not_modified(w))
  <1>1. ASSUME NEW x PROVE SizedRequest([SQUASH_KA(w.r) EXCEPT !.response_status = x])
    <2>1. SizedRequest(SQUASH_KA(w.r))
      BY SizedWords DEF Talks
    <2> QED BY <2>1, SizedWords
  <1>2. Talks(send_r(w, code)) /\ SameSources(w, send_r(w, code))
    <2> DEFINE q == [SQUASH_KA(w.r) EXCEPT !.response_status = code]
               p == print_http_headers(q)
               page == WithPage(p)
               u == [w EXCEPT !.r = page]
    <2>1. SizedRequest(q)
      BY <1>1
    <2>2. send_r(w, code) = req_flush(u)
      BY Zenon DEF send_r
    <2> HIDE DEF q
    <2>3. SizedRequest(p)
      BY <2>1, SizedWritten
    <2> HIDE DEF p
    <2>4. SizedRequest(page)
      BY <2>3, SizedWritten
    <2> HIDE DEF page
    <2>5. Talks(u) /\ SameSources(w, u)
      BY <2>4, SizedReplaced
    <2> HIDE DEF u
    <2>6. Talks(req_flush(u)) /\ SameSources(u, req_flush(u))
      BY <2>5, SizedFlush, Zenon
    <2> QED BY <2>2, <2>5, <2>6 DEF SameSources
  <1>3. Talks(send_r_not_modified(w)) /\ SameSources(w, send_r_not_modified(w))
    <2> DEFINE q == [SQUASH_KA(w.r) EXCEPT !.response_status = 304]
               p == req_write(q, <<Tok(KaPhrase(q), 304)>>)
               u == [w EXCEPT !.r = p]
    <2>1. SizedRequest(q)
      BY <1>1
    <2>2. send_r_not_modified(w) = req_flush(u)
      BY Zenon DEF send_r_not_modified
    <2> HIDE DEF q
    <2>3. SizedRequest(p)
      BY <2>1, SizedWritten, ListedNew
    <2> HIDE DEF p
    <2>5. Talks(u) /\ SameSources(w, u)
      BY <2>3, SizedReplaced
    <2> HIDE DEF u
    <2>6. Talks(req_flush(u)) /\ SameSources(u, req_flush(u))
      BY <2>5, SizedFlush, Zenon
    <2> QED BY <2>2, <2>5, <2>6 DEF SameSources
  <1> QED BY <1>2, <1>3

\* Whatever a handler ends with.
LEMMA SizedReturned ==
    ASSUME NEW w, Sized(w), NEW x
    PROVE  Sized([w EXCEPT !.ret = x]) /\ [w EXCEPT !.ret = x].ret = x
  <1>1. Talks(w) /\ SizedRequest(w.r)
    BY DEF Sized, Talks
  <1>2. /\ Talks([w EXCEPT !.ret = x]) /\ SameSources(w, [w EXCEPT !.ret = x])
        /\ [w EXCEPT !.ret = x].ret = x
    BY <1>1, SizedReplaced
  <1> QED BY <1>2, SizedSame

\* An answer of Boa's own.
LEMMA SizedRefused ==
    ASSUME NEW w, Sized(w), NEW code
    PROVE  Sized(send_r(w, code)) /\ Sized(Refuse(w, code)) /\ Refuse(w, code).ret = 0
  <1>1. Sized(send_r(w, code))
    BY SizedSent, SizedSame DEF Sized
  <1> QED BY <1>1, SizedReturned, Zenon DEF Refuse

\* No answer, what is buffered, or a 304.
LEMMA SizedEnded ==
    ASSUME NEW w, Sized(w)
    PROVE  /\ Sized(GiveUp(w)) /\ GiveUp(w).ret = 0
           /\ Sized(req_flush(w)) /\ Sized(send_r_not_modified(w))
  <1>1. Sized(GiveUp(w)) /\ GiveUp(w).ret = 0
    BY SizedReturned, Zenon DEF GiveUp
  <1>2. Sized(send_r_not_modified(w))
    BY SizedSent, SizedSame DEF Sized
  <1>3. Sized(req_flush(w))
    <2>1. Talks(req_flush(w)) /\ SameSources(w, req_flush(w))
      BY SizedFlush, Zenon DEF Sized
    <2> QED BY <2>1, SizedSame
  <1> QED BY <1>1, <1>2, <1>3

\* A request that is replaced.
LEMMA SizedSwap ==
    ASSUME NEW w, Sized(w), NEW r, SizedRequest(r)
    PROVE  Sized([w EXCEPT !.r = r]) /\ [w EXCEPT !.r = r].r = r
  <1>1. Talks(w)
    BY DEF Sized
  <1>2. Talks([w EXCEPT !.r = r]) /\ SameSources(w, [w EXCEPT !.r = r])
    BY <1>1, SizedReplaced
  <1>3. [w EXCEPT !.r = r].r = r
    BY <1>1 DEF Talks
  <1> QED BY <1>2, <1>3, SizedSame

\* One that is replaced by a handler that returns.
LEMMA SizedSwapped ==
    ASSUME NEW w, Sized(w), NEW r, SizedRequest(r), NEW x
    PROVE  /\ Sized([w EXCEPT !.r = r, !.ret = x])
           /\ [w EXCEPT !.r = r, !.ret = x].r = r /\ [w EXCEPT !.r = r, !.ret = x].ret = x
  <1>1. Talks(w)
    BY DEF Sized
  <1>2. /\ Talks([w EXCEPT !.r = r, !.ret = x]) /\ SameSources(w, [w EXCEPT !.r = r, !.ret = x])
        /\ [w EXCEPT !.r = r, !.ret = x].ret = x
    BY <1>1, SizedReplaced
  <1>3. [w EXCEPT !.r = r, !.ret = x].r = r
    BY <1>1 DEF Talks
  <1> QED BY <1>2, <1>3, SizedSame

\* What a handler works on, piece by piece.
LEMMA SizedParts ==
    ASSUME NEW w, Sized(w)
    PROVE  /\ {"n", "r", "ret", "src"} \subseteq DOMAIN w
           /\ SizedRequest(w.r) /\ SizedNet(w.n) /\ SizedSources(w.src)
  BY DEF Sized, Talks

\* init_cgi: a new pipe is empty.
LEMMA SizedCgi ==
    ASSUME NEW w, Sized(w), NEW fault
    PROVE  Answered(init_cgi(w, fault))
  <1> DEFINE r == SQUASH_KA(w.r)
             u == [w EXCEPT !.r = r]
             fd == LowestFree(w.open)
             now == [f \in AllFds |-> IF f = fd THEN "pipe"
                                      ELSE IF f = r.post_data_fd THEN "free" ELSE w.open[f]]
             off == IF r.is_cgi = "CGI" THEN BUFFER_SIZE \div 2 ELSE 0
             cgi == IF r.is_cgi = "CGI" THEN "PARSE" ELSE "BUFFER"
             q == [r EXCEPT !.post_data_fd = -1, !.data_fd = fd, !.status = "PIPE_READ",
                            !.cgi_status = cgi, !.off = off, !.data = <<>>, !.filepos = 0]
             child == Child(r)
             on == [w EXCEPT !.open = now, !.src[fd] = child, !.r = q, !.ret = 1]
  <1>1. init_cgi(w, fault) \in {GiveUp(u), Refuse(u, 500), on}
    BY Zenon DEF init_cgi
  <1>2. SizedRequest(r)
    BY SizedWords DEF Sized, Talks
  <1>3. off \in Int
    BY BoaAssumption
  <1>4. "pipe" \in DOMAIN child /\ Listed(child.pipe)
    BY ListedNew DEF Child
  <1> HIDE DEF r, off, cgi, now, child
  <1>5. SizedRequest(q)
    BY <1>2, <1>3, ListedNew DEF SizedRequest
  <1> HIDE DEF q
  <1>6. Sized(on)
    BY <1>4, <1>5 DEF Sized, Talks, SizedSources
  <1>7. Sized(u)
    BY <1>2, SizedSwap
  <1>8. on.ret = 1
    BY SizedParts
  <1> HIDE DEF u, on
  <1>9. Answered(GiveUp(u)) /\ Answered(Refuse(u, 500))
    BY <1>7, SizedRefused, SizedEnded DEF Answered
  <1> QED BY <1>1, <1>6, <1>8, <1>9 DEF Answered

\* What of a mapped document fits into the buffer.
LEMMA SizedMapped ==
    ASSUME NEW m, Sized(m), NEW fault
    PROVE  Answered(GetMapped(m, fault))
  <1> DEFINE r == send_r_request_ok(m.r)
             k == Least(BUFFER_SIZE - Len(r.buf), r.filesize)
             long == r.buf \o Data(1, k)
             full == [r EXCEPT !.buf = long, !.filepos = k]
             mw == [m EXCEPT !.r = full, !.ret = 1]
             f0 == [m EXCEPT !.r = full]
             f == req_flush(f0)
             e1 == reset_output_buffer(m.r)
             e2 == reset_output_buffer(r)
             u1 == [m EXCEPT !.r = e1]
             u2 == [m EXCEPT !.r = e2]
             bare == [m EXCEPT !.r = reset_output_buffer(@)]
             mapped == [r EXCEPT !.buf = @ \o Data(1, k), !.filepos = k]
             on == [m EXCEPT !.r = r, !.ret = 1]
             last == [f EXCEPT !.r.status = "DONE", !.ret = 1]
  <1>1. GetMapped(m, fault) \in {Refuse(u1, 400), on, Refuse(u2, 500), mw, last}
    <2>1. bare = u1 /\ [m EXCEPT !.r = reset_output_buffer(r)] = u2 /\ mapped = full
      OBVIOUS
    <2>2. GetMapped(m, fault) \in {Refuse(bare, 400), on, Refuse([m EXCEPT !.r = reset_output_buffer(r)], 500),
                                  [m EXCEPT !.r = mapped, !.ret = 1],
                                  [req_flush([m EXCEPT !.r = mapped]) EXCEPT !.r.status = "DONE", !.ret = 1]}
      BY DEF GetMapped
    <2> QED BY <2>1, <2>2, Zenon
  <1>2. SizedRequest(m.r) /\ SizedRequest(r) /\ SizedRequest(e1)
    BY SizedWritten DEF Sized, Talks
  <1> HIDE DEF r
  <1>3. SizedRequest(e2)
    BY <1>2, SizedWritten
  <1>4. SizedRequest(full)
    <2>1. Len(r.buf) \in Nat /\ r.filesize \in Int /\ Listed(r.buf)
      BY <1>2, ListedParts DEF SizedRequest
    <2>2. k \in Int
      <3>1. BUFFER_SIZE - Len(r.buf) \in Int
        BY <2>1, BoaAssumption
      <3> QED BY <2>1, <3>1, LeastOf
    <2> HIDE DEF k
    <2>3. Listed(long)
      <3>1. Listed(Data(1, k))
        BY <2>2, ListedNew
      <3> QED BY <2>1, <3>1, ListedParts
    <2> HIDE DEF long
    <2> QED BY <1>2, <2>2, <2>3 DEF SizedRequest
  <1> HIDE DEF e1, e2, full
  <1>5. Sized(u1) /\ Sized(u2) /\ Sized(on) /\ Sized(mw) /\ Sized(f0)
    BY <1>2, <1>3, <1>4, SizedSwap, SizedSwapped
  <1> HIDE DEF u1, u2, on, mw, f0
  <1>6. Sized(f)
    BY <1>5, SizedEnded, Zenon
  <1> HIDE DEF f
  <1>7. Sized(last)
    BY <1>6 DEF Sized, Talks, SizedRequest
  <1>9. last.ret = 1
    BY <1>6 DEF Sized, Talks
  <1> HIDE DEF last
  <1>8. Answered(Refuse(u1, 400)) /\ Answered(Refuse(u2, 500))
    BY <1>5, SizedRefused DEF Answered
  <1>10. on.ret = 1 /\ mw.ret = 1
    BY SizedParts DEF on, mw
  <1> QED BY <1>1, <1>5, <1>7, <1>8, <1>9, <1>10 DEF Answered


\* find_mmap does not read the document.
LEMMA SizedFound ==
    ASSUME NEW w, Sized(w), NEW file, NEW fault
    PROVE  Sized(find_mmap(w, file, fault))
  <1> DEFINE first == CHOOSE i \in Probes(w.mm, file) : \A j \in Probes(w.mm, file) : i <= j
             i == (file + first) % MMAP_LIST_SIZE
             more == [w EXCEPT !.mm[i].count = @ + 1, !.r.mmap = i]
             new == [w EXCEPT !.mm[i] = [count |-> 1, file |-> file], !.used = @ + 1, !.r.mmap = i]
  <1>1. find_mmap(w, file, fault) \in {w, more, new}
    BY Zenon DEF find_mmap
  <1> HIDE DEF i
  <1>2. Sized(more)
    BY DEF Sized, Talks, SizedRequest
  <1>3. Sized(new)
    BY DEF Sized, Talks, SizedRequest
  <1> HIDE DEF more, new
  <1> QED BY <1>1, <1>2, <1>3

\* A document that is read through its descriptor.
LEMMA SizedPiped ==
    ASSUME NEW w, Sized(w)
    PROVE  Answered(GetPiped(w))
  <1> DEFINE fd == LowestFree(w.open)
             file == [NoSrc EXCEPT !.pipe = Data(1, w.r.filesize)]
             r == send_r_request_ok(w.r)
             q == [r EXCEPT !.status = "PIPE_READ", !.cgi_status = "BUFFER", !.data_fd = fd,
                            !.off = 0, !.data = <<>>]
             on == [w EXCEPT !.open[fd] = "file", !.src[fd] = file, !.r = q]
             y == req_flush(on)
             v == GetPiped(w)
  <1>1. v = [y EXCEPT !.ret = 1]
    BY DEF GetPiped
  <1>2. SizedRequest(w.r) /\ SizedNet(w.n) /\ SizedSources(w.src) /\ {"n", "r", "ret", "src"} \subseteq DOMAIN w
    BY SizedParts
  <1>3. SizedRequest(r)
    BY <1>2, SizedWritten
  <1>4. "pipe" \in DOMAIN file /\ Listed(file.pipe)
    <2>1. Listed(Data(1, w.r.filesize))
      BY <1>2, ListedNew DEF SizedRequest
    <2> QED BY <2>1 DEF NoSrc
  <1> HIDE DEF r, fd, file
  <1>5. SizedRequest(q)
    BY <1>3, ListedNew DEF SizedRequest
  <1> HIDE DEF q
  <1>6. on.r = q /\ on.n = w.n /\ on.src = [w.src EXCEPT ![fd] = file] /\ DOMAIN on = DOMAIN w
    BY <1>2
  <1> HIDE DEF on
  <1>7. SizedSources(on.src)
    BY <1>2, <1>4, <1>6 DEF SizedSources
  <1>8. Sized(on)
    BY <1>2, <1>5, <1>6, <1>7 DEF Sized, Talks
  <1>9. Sized(y)
    BY <1>8, SizedEnded, Zenon
  <1> HIDE DEF y
  <1>10. Sized(v) /\ v.ret = 1
    BY <1>1, <1>9, SizedReturned
  <1> QED BY <1>10 DEF v, Answered

\* The output of a child after a header of Boa's own.
LEMMA SizedFiltered ==
    ASSUME NEW w, Sized(w), NEW fault
    PROVE  Answered(GetFiltered(w, fault))
  <1> DEFINE r == send_r_request_ok(w.r)
             u == [w EXCEPT !.r = r]
             f == req_flush(u)
  <1>1. GetFiltered(w, fault) \in {GiveUp(f), init_cgi(f, fault)}
    BY Zenon DEF GetFiltered
  <1>2. SizedRequest(r)
    BY SizedParts, SizedWritten
  <1> HIDE DEF r
  <1>3. Sized(u)
    BY <1>2, SizedSwap
  <1> HIDE DEF u
  <1>4. Sized(f)
    BY <1>3, SizedRefused, SizedEnded, SizedReturned, Zenon
  <1> HIDE DEF f
  <1>5. Answered(GiveUp(f)) /\ Answered(init_cgi(f, fault))
    BY <1>4, SizedEnded, SizedCgi DEF Answered
  <1> QED BY <1>1, <1>5

\* init_get, on each of its ways out; the sizes of documents are natural numbers.
LEMMA SizedGet ==
    ASSUME NEW w, Sized(w), w.r.uri \in DOMAIN Site, NEW fault
    PROVE  Answered(init_get(w, fault))
  <1> DEFINE s == Site[w.r.uri]
             sized == [w EXCEPT !.r.filesize = s.size]
             closing == [w EXCEPT !.r = SQUASH_KA(@)]
             same == [send_r_not_modified(w) EXCEPT !.ret = 0]
             head == [sized EXCEPT !.r = send_r_request_ok(@)]
             m == find_mmap(sized, w.r.uri, fault)
             v == init_get(w, fault)
  <1>1. \/ v \in {Refuse(w, 400), Refuse(w, 404), Refuse(w, 403), Refuse(w, 301), same}
        \/ v \in {GetFiltered(w, fault), GetFiltered(closing, fault), GiveUp(head)}
        \/ v \in {GetPiped(sized), GetMapped(m, fault)}
    <2> DEFINE other == IF w.r.method = "HEAD" \/ s.size = 0 THEN GiveUp(head)
                        ELSE IF s.size > MAX_FILE_MMAP THEN GetPiped(sized)
                        ELSE GetMapped(m, fault)
    <2>1. v = IF Free(w.open) = {} THEN Refuse(w, 400) ELSE
              CASE s.kind = "missing"       -> Refuse(w, 404)
                [] s.kind = "forbidden"     -> Refuse(w, 403)
                [] s.kind = "noslash"       -> Refuse(w, 301)
                [] s.kind = "not_modified"  -> same
                [] s.kind = "gz"            -> GetFiltered(w, fault)
                [] s.kind = "dir"           -> GetFiltered(closing, fault)
                [] OTHER                    -> other
      BY Zenon DEF init_get
    <2>2. other \in {GiveUp(head), GetPiped(sized), GetMapped(m, fault)}
      BY Zenon
    <2> HIDE DEF s, sized, closing, same, head, m, v, other
    <2>3. CASE Free(w.open) = {}
      BY <2>1, <2>3
    <2>4. CASE Free(w.open) # {} /\ s.kind \in {"missing", "forbidden", "noslash", "not_modified"}
      BY <2>1, <2>4
    <2>5. CASE Free(w.open) # {} /\ s.kind \in {"gz", "dir"}
      BY <2>1, <2>5
    <2>6. CASE /\ Free(w.open) # {}
               /\ s.kind \notin {"missing", "forbidden", "noslash", "not_modified", "gz", "dir"}
      BY <2>1, <2>2, <2>6
    <2> QED BY <2>3, <2>4, <2>5, <2>6
  <1>2. s.size \in Int
    BY BoaAssumption
  <1>3. SizedRequest(w.r)
    BY SizedParts
  <1> HIDE DEF s
  <1>4. Sized(sized)
    <2>1. SizedRequest([w.r EXCEPT !.filesize = s.size])
      BY <1>2, <1>3 DEF SizedRequest
    <2> QED BY <2>1, SizedSwap
  <1>5. Sized(closing)
    BY <1>3, SizedWords, SizedSwap
  <1> HIDE DEF sized, closing
  <1>6. Sized(head)
    BY <1>4, SizedParts, SizedWritten, SizedSwap
  <1>7. Answered(same)
    BY SizedEnded, SizedReturned DEF Answered
  <1>8. Sized(m)
    BY <1>4, SizedFound
  <1> HIDE DEF head, same, m
  <1>9. ASSUME NEW code PROVE Answered(Refuse(w, code))
    BY SizedRefused DEF Answered
  <1>10. Answered(GetFiltered(w, fault)) /\ Answered(GetFiltered(closing, fault))
    BY <1>5, SizedFiltered
  <1>13. Answered(GiveUp(head))
    BY <1>6, SizedEnded DEF Answered
  <1>11. Answered(GetPiped(sized)) /\ Answered(GetMapped(m, fault))
    BY <1>4, <1>8, SizedPiped, SizedMapped
  <1> HIDE DEF v
  <1>12. Answered(v)
    BY <1>1, <1>7, <1>9, <1>10, <1>11, <1>13, Zenon
  <1> QED BY <1>12 DEF v

\* Nothing else than the request changes, or its request and its socket.
LEMMA SizedMade ==
    ASSUME NEW w, Sized(w), NEW v, DOMAIN v = DOMAIN w, SizedRequest(v.r), SizedNet(v.n),
           SizedSources(v.src)
    PROVE  Sized(v)
  BY DEF Sized, Talks

\* process_get waits only when something of the document is left.
LEMMA SizedWrite ==
    ASSUME NEW w, Sized(w), NEW fault
    PROVE  LET v == process_get(w, fault) IN
           Sized(v) /\ (v.ret = -1 => v.r = w.r /\ w.r.filepos < w.r.filesize)
  <1> DEFINE r == w.r
             k == Least(Least(r.filesize - r.filepos, SOCKETBUF_SIZE), w.n.room)
             dead == [w EXCEPT !.r.status = "DEAD"]
             waits == [w EXCEPT !.ret = -1]
             got == r.got \o Data(r.filepos + 1, r.filepos + k)
             back == IF r.filepos + k = r.filesize THEN 0 ELSE 1
             pos == r.filepos + k
             room == w.n.room - k
             on == [w EXCEPT !.r.filepos = pos, !.r.got = got, !.n.room = room, !.ret = back]
             v == process_get(w, fault)
  <1>1. v \in {GiveUp(dead), on} \/ (v = waits /\ r.filepos < r.filesize)
    BY DEF process_get
  <1>2. SizedRequest(r) /\ SizedNet(w.n) /\ SizedSources(w.src) /\ {"n", "r", "ret", "src"} \subseteq DOMAIN w
    BY SizedParts
  <1>3. pos \in Int /\ room \in Nat
    <2>1. r.filesize \in Int /\ r.filepos \in Int /\ w.n.room \in Nat /\ SOCKETBUF_SIZE \in Int
      BY <1>2, BoaAssumption DEF SizedRequest, SizedNet
    <2>2. r.filesize - r.filepos \in Int
      BY <2>1
    <2>3. Least(r.filesize - r.filepos, SOCKETBUF_SIZE) \in Int
      BY <2>1, <2>2, LeastOf
    <2>4. k \in Int /\ k <= w.n.room
      <3>1. w.n.room \in Int
        BY <2>1
      <3> QED BY <2>3, <3>1, LeastOf
    <2> HIDE DEF k
    <2> QED BY <2>1, <2>4
  <1>4. back # -1
    OBVIOUS
  <1> HIDE DEF k, got, back, pos, room
  <1>5. SizedRequest([r EXCEPT !.status = "DEAD"]) /\ SizedRequest([r EXCEPT !.filepos = pos, !.got = got])
    BY <1>2, <1>3 DEF SizedRequest
  <1>6. SizedNet([w.n EXCEPT !.room = room])
    BY <1>2, <1>3 DEF SizedNet
  <1>7. /\ dead.r = [r EXCEPT !.status = "DEAD"] /\ dead.n = w.n /\ dead.src = w.src
        /\ on.r = [r EXCEPT !.filepos = pos, !.got = got] /\ on.n = [w.n EXCEPT !.room = room]
        /\ on.src = w.src /\ on.ret = back /\ waits.r = r
        /\ DOMAIN dead = DOMAIN w /\ DOMAIN on = DOMAIN w
    BY <1>2
  <1> HIDE DEF dead, on
  <1>8. Sized(dead) /\ Sized(on)
    BY <1>2, <1>5, <1>6, <1>7, SizedMade
  <1>9. Sized(GiveUp(dead)) /\ GiveUp(dead).ret = 0
    BY <1>8, SizedRefused, SizedEnded, SizedReturned, Zenon
  <1>10. Sized(waits)
    BY SizedReturned
  <1> HIDE DEF waits, v
  <1>11. CASE v \in {GiveUp(dead), on}
    <2>1. Sized(v) /\ v.ret # -1
      BY <1>4, <1>7, <1>8, <1>9, <1>11
    <2> QED BY <2>1 DEF v
  <1>12. CASE v = waits /\ r.filepos < r.filesize
    <2>1. Sized(v) /\ v.r = w.r /\ w.r.filepos < w.r.filesize
      BY <1>7, <1>10, <1>12
    <2> QED BY <2>1 DEF v
  <1> QED BY <1>1, <1>11, <1>12

\* process_cgi_header never waits.
LEMMA SizedHeader ==
    ASSUME NEW w0, Sized(w0)
    PROVE  Sized(process_cgi_header(w0)) /\ process_cgi_header(w0).ret \in {0, 1}
  <1> DEFINE status0 == IF w0.r.cgi_status = "DONE" THEN "DONE" ELSE "BUFFER"
             w == [w0 EXCEPT !.r.cgi_status = IF @ = "DONE" THEN @ ELSE "BUFFER"]
             r == w.r
             h == IF r.data = <<>> THEN "none" ELSE Head(r.data).t
             ok == send_r_request_ok(r)
             merged == IF r.method = "HEAD" THEN <<Head(r.data)>> ELSE r.data
             done == IF r.method = "HEAD" THEN "DONE" ELSE r.cgi_status
             simple == [w EXCEPT !.r.data = Tail(@), !.r.off = @ + 1, !.ret = 1]
             code == IF h = "path" THEN 400 ELSE 302
             sent == send_r(w, code)
             gone == [sent EXCEPT !.r.status = "DONE", !.ret = 1]
             full == [w EXCEPT !.r = [ok EXCEPT !.buf = <<>>, !.start = 0, !.cgi_status = done]]
             both == [w EXCEPT !.r = [ok EXCEPT !.buf = @ \o merged, !.off = Len(ok.buf \o merged),
                                                !.data = <<>>, !.cgi_status = done]]
             out == req_flush(both)
             back == IF r.method = "HEAD" THEN 0 ELSE 1
             last == [out EXCEPT !.ret = back]
             on == [w EXCEPT !.ret = 1]
             v == process_cgi_header(w0)
  <1>1. v \in {Refuse(w, 502), on, gone, Refuse(full, 500), last} \/ (v = simple /\ r.data # <<>>)
    <2>1. v = IF h \notin {"type", "status", "url", "path"} THEN Refuse(w, 502)
              ELSE IF r.simple = "yes" THEN simple
              ELSE IF h = "status" THEN on
              ELSE IF h \in {"url", "path"} THEN gone
              ELSE IF Len(ok.buf) + Len(merged) > BUFFER_SIZE THEN Refuse(full, 500)
              ELSE last
      BY Zenon DEF process_cgi_header
    <2>2. h \in {"type", "status", "url", "path"} => r.data # <<>>
      <3> HIDE DEF w
      <3> QED OBVIOUS
    <2> DEFINE next == IF h = "status" THEN on
                       ELSE IF h \in {"url", "path"} THEN gone
                       ELSE IF Len(ok.buf) + Len(merged) > BUFFER_SIZE THEN Refuse(full, 500)
                       ELSE last
    <2>3. next \in {on, gone, Refuse(full, 500), last}
      <3> HIDE DEF w, h, ok, merged, on, gone, full, last
      <3> QED BY Zenon
    <2>4. v = IF h \notin {"type", "status", "url", "path"} THEN Refuse(w, 502)
              ELSE IF r.simple = "yes" THEN simple ELSE next
      BY <2>1, Zenon
    <2> HIDE DEF w, h, simple, on, gone, full, last, v, next
    <2> QED BY <2>2, <2>3, <2>4
  <1>2. Sized(w)
    <2>1. SizedRequest(w0.r)
      BY SizedParts
    <2>2. SizedRequest([w0.r EXCEPT !.cgi_status = IF @ = "DONE" THEN @ ELSE "BUFFER"])
      BY <2>1 DEF SizedRequest
    <2>3. w = [w0 EXCEPT !.r = [w0.r EXCEPT !.cgi_status = IF @ = "DONE" THEN @ ELSE "BUFFER"]]
      OBVIOUS
    <2> QED BY <2>2, <2>3, SizedSwap
  <1> HIDE DEF w
  <1>3. SizedRequest(r) /\ SizedNet(w.n) /\ SizedSources(w.src) /\ {"n", "r", "ret", "src"} \subseteq DOMAIN w
    BY <1>2, SizedParts
  <1>4. ASSUME r.data # <<>> PROVE Sized(simple)
    <2>1. Listed(Tail(r.data)) /\ r.off + 1 \in Int
      BY <1>3, <1>4, ListedParts DEF SizedRequest
    <2> DEFINE q == [r EXCEPT !.data = Tail(r.data), !.off = r.off + 1]
    <2>2. SizedRequest(q)
      BY <1>3, <2>1 DEF SizedRequest
    <2>3. simple = [w EXCEPT !.r = q, !.ret = 1]
      BY <1>3 DEF SizedRequest
    <2> HIDE DEF q, simple
    <2> QED BY <1>2, <2>2, <2>3, SizedSwapped
  <1>5. SizedRequest(ok)
    BY <1>3, SizedWritten
  <1>6. Listed(merged)
    <2>1. Listed(r.data)
      BY <1>3 DEF SizedRequest
    <2> QED BY <2>1, ListedNew
  <1> HIDE DEF ok, merged, done, code
  <1>7. Sized(full)
    <2>1. SizedRequest([ok EXCEPT !.buf = <<>>, !.start = 0, !.cgi_status = done])
      BY <1>5, ListedNew DEF SizedRequest
    <2> QED BY <1>2, <2>1, SizedSwap
  <1>8. Sized(both)
    <2>1. Listed(ok.buf)
      BY <1>5 DEF SizedRequest
    <2>2. Listed(ok.buf \o merged)
      BY <1>6, <2>1, ListedParts
    <2>3. Len(ok.buf \o merged) \in Int
      BY <2>2, ListedParts
    <2>4. SizedRequest([ok EXCEPT !.buf = ok.buf \o merged, !.off = Len(ok.buf \o merged),
                                  !.data = <<>>, !.cgi_status = done])
      BY <1>5, <2>2, <2>3, ListedNew DEF SizedRequest
    <2> QED BY <1>2, <2>4, SizedSwap
  <1> HIDE DEF full, both
  <1>9. Sized(out) /\ Sized(Refuse(full, 500)) /\ Refuse(full, 500).ret = 0
    BY <1>7, <1>8, SizedRefused, SizedEnded, SizedReturned
  <1> HIDE DEF out
  <1>10. Sized(last) /\ last.ret = back
    BY <1>9, SizedReturned
  <1>11. Sized(gone) /\ gone.ret = 1
    <2>1. Sized(sent)
      BY <1>2, SizedRefused, SizedEnded, SizedReturned
    <2> HIDE DEF sent
    <2>2. SizedRequest(sent.r)
      BY <2>1, SizedParts
    <2> DEFINE q == [sent.r EXCEPT !.status = "DONE"]
    <2>3. SizedRequest(q)
      BY <2>2, SizedWords
    <2>4. /\ gone.r = q /\ gone.n = sent.n /\ gone.src = sent.src /\ DOMAIN gone = DOMAIN sent
          /\ gone.ret = 1
      BY <2>1, SizedParts
    <2>5. SizedNet(sent.n) /\ SizedSources(sent.src)
      BY <2>1, SizedParts
    <2> HIDE DEF q, gone
    <2> QED BY <2>1, <2>3, <2>4, <2>5, SizedMade
  <1>12. Sized(Refuse(w, 502)) /\ Refuse(w, 502).ret = 0 /\ Sized(on) /\ on.ret = 1
    BY <1>2, SizedRefused, SizedEnded, SizedReturned
  <1>13. simple.ret = 1 /\ back \in {0, 1}
    BY <1>3
  <1> HIDE DEF simple, on, gone, last, v, back
  <1>14. Sized(v) /\ v.ret \in {0, 1}
    BY <1>1, <1>4, <1>9, <1>10, <1>11, <1>12, <1>13
  <1> QED BY <1>14 DEF v

\* read_from_pipe waits only with room in the buffer.
LEMMA SizedRead ==
    ASSUME NEW w, Sized(w), w.r.data_fd \in AllFds
    PROVE  LET v == read_from_pipe(w) IN
           /\ Sized(v)
           /\ v.ret = -1 => v.r = w.r /\ BUFFER_SIZE - (w.r.off + Len(w.r.data)) # 0
  <1> DEFINE r == w.r
             s == w.src[r.data_fd]
             room == BUFFER_SIZE - (r.off + Len(r.data))
             k == Least(room, Len(s.pipe))
             last == [w EXCEPT !.r.status = "PIPE_WRITE", !.r.cgi_status = "DONE"]
             buffer == [w EXCEPT !.r.cgi_status = "BUFFER"]
             write == [w EXCEPT !.r.status = "PIPE_WRITE", !.ret = 1]
             on == [w EXCEPT !.r.data = @ \o Take(s.pipe, k),
                             !.src[r.data_fd].pipe = Drop(@, k), !.ret = 1]
             waits == [w EXCEPT !.ret = -1]
             end == [last EXCEPT !.ret = 1]
             v == read_from_pipe(w)
  <1>1. \/ v \in {process_cgi_header(buffer), write, on, process_cgi_header(last), end}
        \/ v = waits /\ room # 0
    BY Zenon DEF read_from_pipe
  <1>2. SizedRequest(r) /\ SizedNet(w.n) /\ SizedSources(w.src) /\ {"n", "r", "ret", "src"} \subseteq DOMAIN w
    BY SizedParts
  <1>4. Sized(last) /\ Sized(buffer) /\ Sized(write) /\ write.ret = 1
    <2> DEFINE q1 == [r EXCEPT !.status = "PIPE_WRITE", !.cgi_status = "DONE"]
               q2 == [r EXCEPT !.cgi_status = "BUFFER"]
               q3 == [r EXCEPT !.status = "PIPE_WRITE"]
    <2>2. SizedRequest(q1) /\ SizedRequest(q2) /\ SizedRequest(q3)
      BY <1>2 DEF SizedRequest
    <2>1. /\ last.r = q1 /\ last.n = w.n /\ last.src = w.src /\ DOMAIN last = DOMAIN w
          /\ buffer.r = q2 /\ buffer.n = w.n /\ buffer.src = w.src /\ DOMAIN buffer = DOMAIN w
          /\ write.r = q3 /\ write.n = w.n /\ write.src = w.src /\ DOMAIN write = DOMAIN w
          /\ write.ret = 1
      BY <1>2
    <2> HIDE DEF q1, q2, q3, last, buffer, write
    <2> QED BY <1>2, <2>1, <2>2, SizedMade
  <1>5. Sized(on) /\ on.ret = 1
    <2>1. Listed(s.pipe) /\ "pipe" \in DOMAIN s /\ Listed(r.data)
      BY <1>2 DEF SizedSources, SizedRequest
    <2>2. k \in Int
      <3>1. Len(s.pipe) \in Int /\ Len(r.data) \in Int /\ r.off \in Int
        BY <1>2, <2>1, ListedParts DEF SizedRequest
      <3>2. room \in Int
        BY <3>1, BoaAssumption
      <3> HIDE DEF room, s
      <3> QED BY <3>1, <3>2, LeastOf
    <2> HIDE DEF k, s
    <2>3. Listed(Drop(s.pipe, k)) /\ Listed(r.data \o Take(s.pipe, k))
      BY <2>1, <2>2, ListedParts
    <2> DEFINE pipe == Drop(s.pipe, k)
               data2 == r.data \o Take(s.pipe, k)
    <2>4. /\ on.r = [r EXCEPT !.data = data2] /\ on.n = w.n /\ on.ret = 1 /\ DOMAIN on = DOMAIN w
          /\ on.src = [w.src EXCEPT ![r.data_fd] = [s EXCEPT !.pipe = pipe]]
      BY <1>2 DEF s
    <2> HIDE DEF pipe, data2, on
    <2>5. SizedRequest(on.r)
      BY <1>2, <2>3, <2>4 DEF SizedRequest, data2
    <2>6. SizedSources(on.src)
      <3>1. Listed(pipe)
        BY <2>3 DEF pipe
      <3> QED BY <1>2, <2>1, <2>4, <3>1 DEF SizedSources
    <2> QED BY <1>2, <2>4, <2>5, <2>6, SizedMade
  <1> HIDE DEF last, buffer, write, on
  <1>6. /\ Sized(process_cgi_header(buffer)) /\ process_cgi_header(buffer).ret \in {0, 1}
        /\ Sized(process_cgi_header(last)) /\ process_cgi_header(last).ret \in {0, 1}
    BY <1>4, SizedHeader, Zenon
  <1>7. Sized(end) /\ end.ret = 1 /\ Sized(waits)
    BY <1>4, SizedReturned
  <1>8. waits.r = w.r
    BY <1>2
  <1> HIDE DEF end, waits, v
  <1>9. CASE v \in {process_cgi_header(buffer), write, on, process_cgi_header(last), end}
    <2>1. Sized(v) /\ v.ret \in {0, 1}
      BY <1>4, <1>5, <1>6, <1>7, <1>9
    <2> QED BY <2>1 DEF v
  <1>10. CASE v = waits /\ room # 0
    <2>1. Sized(v) /\ v.r = w.r /\ room # 0
      BY <1>7, <1>8, <1>10
    <2> QED BY <2>1 DEF v
  <1> QED BY <1>1, <1>9, <1>10

\* write_from_pipe waits only with something to write.
LEMMA SizedPass ==
    ASSUME NEW w, Sized(w)
    PROVE  LET v == write_from_pipe(w) IN
           Sized(v) /\ (v.ret = -1 => v.r = w.r /\ w.r.data # <<>>)
  <1> DEFINE r == w.r
             k == Least(Len(r.data), w.n.room)
             empty == [w EXCEPT !.r.status = "PIPE_READ", !.r.off = 0, !.ret = 1]
             dead == [w EXCEPT !.r.status = "DEAD"]
             waits == [w EXCEPT !.ret = -1]
             on == [w EXCEPT !.r.data = Drop(@, k), !.r.off = @ + k, !.r.filepos = @ + k,
                             !.r.got = @ \o Take(r.data, k), !.n.room = @ - k, !.ret = 1]
             v == write_from_pipe(w)
  <1>1. v \in {GiveUp(w), empty, Refuse(dead, 500), on} \/ (v = waits /\ r.data # <<>>)
    BY Zenon DEF write_from_pipe
  <1>2. SizedRequest(r) /\ SizedNet(w.n) /\ SizedSources(w.src) /\ {"n", "r", "ret", "src"} \subseteq DOMAIN w
    BY SizedParts
  <1>4. Sized(empty) /\ empty.ret = 1 /\ Sized(dead)
    <2> DEFINE q1 == [r EXCEPT !.status = "PIPE_READ", !.off = 0]
               q2 == [r EXCEPT !.status = "DEAD"]
    <2>2. SizedRequest(q1) /\ SizedRequest(q2)
      BY <1>2 DEF SizedRequest
    <2>1. /\ empty.r = q1 /\ empty.n = w.n /\ empty.src = w.src /\ DOMAIN empty = DOMAIN w
          /\ dead.r = q2 /\ dead.n = w.n /\ dead.src = w.src /\ DOMAIN dead = DOMAIN w
          /\ empty.ret = 1
      BY <1>2
    <2> HIDE DEF q1, q2, empty, dead
    <2> QED BY <1>2, <2>1, <2>2, SizedMade
  <1>5. Sized(on) /\ on.ret = 1
    <2>1. /\ Listed(r.data) /\ Len(r.data) \in Int /\ w.n.room \in Nat
          /\ r.off \in Int /\ r.filepos \in Int
      BY <1>2, ListedParts DEF SizedRequest, SizedNet
    <2>2. k \in Int /\ k <= w.n.room
      <3>1. w.n.room \in Int
        BY <2>1
      <3> QED BY <2>1, <3>1, LeastOf
    <2> HIDE DEF k
    <2> DEFINE rest == Drop(r.data, k)
               got == r.got \o Take(r.data, k)
               off == r.off + k
               pos == r.filepos + k
               room == w.n.room - k
    <2>3. Listed(rest) /\ off \in Int /\ pos \in Int /\ room \in Nat
      <3>1. Listed(rest)
        BY <2>1, <2>2, ListedParts
      <3> QED BY <2>1, <2>2, <3>1
    <2>4. /\ on.r = [r EXCEPT !.data = rest, !.off = off, !.filepos = pos, !.got = got]
          /\ on.n = [w.n EXCEPT !.room = room] /\ on.src = w.src /\ on.ret = 1
          /\ DOMAIN on = DOMAIN w
      <3>1. {"got", "data", "off", "filepos"} \subseteq DOMAIN r /\ "room" \in DOMAIN w.n
        BY <1>2 DEF SizedRequest, SizedNet
      <3> QED BY <1>2, <3>1
    <2> HIDE DEF rest, got, off, pos, room, on
    <2>5. SizedRequest(on.r) /\ SizedNet(on.n)
      BY <1>2, <2>3, <2>4 DEF SizedRequest, SizedNet
    <2> QED BY <1>2, <2>4, <2>5, SizedMade
  <1> HIDE DEF empty, dead, on
  <1>6. /\ Sized(GiveUp(w)) /\ GiveUp(w).ret = 0 /\ Sized(Refuse(dead, 500)) /\ Refuse(dead, 500).ret = 0
        /\ Sized(waits)
    BY <1>4, SizedRefused, SizedEnded, SizedReturned
  <1>8. waits.r = w.r
    BY <1>2
  <1> HIDE DEF waits, v
  <1>9. CASE v \in {GiveUp(w), empty, Refuse(dead, 500), on}
    <2>1. Sized(v) /\ v.ret \in {0, 1}
      BY <1>4, <1>5, <1>6, <1>9
    <2> QED BY <2>1 DEF v
  <1>10. CASE v = waits /\ r.data # <<>>
    <2>1. Sized(v) /\ v.r = w.r /\ r.data # <<>>
      BY <1>6, <1>8, <1>10
    <2> QED BY <2>1 DEF v
  <1> QED BY <1>1, <1>9, <1>10
\* translate_uri; a request that goes on keeps its uri.
LEMMA SizedTranslate ==
    ASSUME NEW w, Sized(w)
    PROVE  LET v == translate_uri(w) IN
           Answered(v) /\ (v.ret # 0 => v.r.uri = w.r.uri)
  <1> DEFINE s == Site[w.r.uri]
             go == [w EXCEPT !.ret = 1]
             script == [w EXCEPT !.r.is_cgi = IF w.r.simple = "yes" THEN "NPH" ELSE "CGI",
                                 !.ret = 1]
             v == translate_uri(w)
             moved == IF w.r.method = "POST" THEN 400 ELSE 302
  <1>1. v \in {Refuse(w, 404), Refuse(w, 403), Refuse(w, moved), Refuse(w, 400), go, script}
    <2>1. init_script_alias(w) \in {Refuse(w, 404), Refuse(w, 403), script}
      <3>1. init_script_alias(w) = CASE s.kind = "missing"   -> Refuse(w, 404)
                                     [] s.kind = "forbidden" -> Refuse(w, 403)
                                     [] OTHER                -> script
        BY Zenon DEF init_script_alias
      <3> HIDE DEF s, script
      <3>2. CASE s.kind \in {"missing", "forbidden"}
        BY <3>1, <3>2
      <3>3. CASE s.kind \notin {"missing", "forbidden"}
        BY <3>1, <3>3
      <3> QED BY <3>2, <3>3
    <2>2. v = CASE s.via = "script"   -> init_script_alias(w)
                [] s.via = "redirect" -> Refuse(w, moved)
                [] s.via = "alias"    -> go
                [] OTHER              -> IF w.r.method = "POST" THEN Refuse(w, 400) ELSE go
      BY Zenon DEF translate_uri
    <2> HIDE DEF s, script, go, v, moved
    <2>3. CASE s.via = "script"
      BY <2>1, <2>2, <2>3
    <2>4. CASE s.via \in {"redirect", "alias"}
      BY <2>2, <2>4
    <2>5. CASE s.via \notin {"script", "redirect", "alias"}
      BY <2>2, <2>5
    <2> QED BY <2>3, <2>4, <2>5
  <1>2. ASSUME NEW code PROVE Answered(Refuse(w, code)) /\ Refuse(w, code).ret = 0
    BY SizedRefused DEF Answered
  <1>3. Answered(go) /\ go.ret = 1 /\ go.r.uri = w.r.uri
    BY SizedReturned DEF Answered
  <1>4. Answered(script) /\ script.ret = 1 /\ script.r.uri = w.r.uri
    <2> DEFINE kind == IF w.r.simple = "yes" THEN "NPH" ELSE "CGI"
               q == [w.r EXCEPT !.is_cgi = kind]
    <2>1. SizedRequest(q)
      <3>1. SizedRequest(w.r)
        BY SizedParts
      <3> HIDE DEF kind
      <3> QED BY <3>1 DEF SizedRequest
    <2>2. /\ script.r = q /\ script.n = w.n /\ script.src = w.src /\ DOMAIN script = DOMAIN w
          /\ script.ret = 1 /\ q.uri = w.r.uri
      BY SizedParts
    <2> HIDE DEF q, script
    <2> QED BY <2>1, <2>2, SizedParts, SizedMade DEF Answered
  <1> HIDE DEF go, script, v, moved
  <1>5. Answered(v) /\ (v.ret # 0 => v.r.uri = w.r.uri)
    BY <1>1, <1>2, <1>3, <1>4
  <1> QED BY <1>5 DEF v

\* The temporary file of a POST.
LEMMA SizedPost ==
    ASSUME NEW t, Answered(t), NEW fault
    PROVE  Answered(StartPost(t, fault))
  <1> DEFINE p == t.r.post_data_fd
             lost == [f \in AllFds |-> IF f = p THEN "lost" ELSE t.open[f]]
             none == [t EXCEPT !.open = lost, !.r.post_data_fd = -1]
             fd == LowestFree(lost)
             some == [none EXCEPT !.open[fd] = "temp", !.r.post_data_fd = fd, !.r.temp = <<>>]
  <1>1. StartPost(t, fault) \in {GiveUp(none), some}
    BY Zenon DEF StartPost
  <1>2. /\ SizedRequest(t.r) /\ SizedNet(t.n) /\ SizedSources(t.src)
        /\ {"n", "r", "ret", "src"} \subseteq DOMAIN t /\ Sized(t) /\ t.ret \in {0, 1}
    BY SizedParts DEF Answered
  <1> HIDE DEF lost, fd
  <1>3. /\ none.r = [t.r EXCEPT !.post_data_fd = -1] /\ none.n = t.n /\ none.src = t.src
        /\ DOMAIN none = DOMAIN t /\ none.ret = t.ret
    BY <1>2
  <1> HIDE DEF none
  <1>4. SizedRequest(none.r)
    BY <1>2, <1>3 DEF SizedRequest
  <1>5. Sized(none)
    BY <1>2, <1>3, <1>4, SizedMade
  <1>6. /\ some.r = [none.r EXCEPT !.post_data_fd = fd, !.temp = <<>>] /\ some.n = t.n
        /\ some.src = t.src /\ DOMAIN some = DOMAIN t /\ some.ret = t.ret
    BY <1>2, <1>3
  <1> HIDE DEF some
  <1>7. SizedRequest(some.r)
    BY <1>4, <1>6 DEF SizedRequest
  <1>8. Sized(some)
    BY <1>2, <1>6, <1>7, SizedMade
  <1>9. Answered(GiveUp(none)) /\ Answered(some)
    BY <1>2, <1>5, <1>6, <1>8, SizedEnded DEF Answered
  <1> QED BY <1>1, <1>9

\* What the end of the headers starts.
LEMMA SizedStart ==
    ASSUME NEW t, Answered(t), t.ret # 0 => t.r.uri \in DOMAIN Site, NEW fault
    PROVE  Answered(Start(t, fault))
  <1> DEFINE last == [t EXCEPT !.r = SQUASH_KA(@)]
             begun == [t EXCEPT !.r.status = "WRITE"]
             v == Start(t, fault)
  <1>1. Sized(t) /\ SizedRequest(t.r) /\ {"n", "r", "ret", "src"} \subseteq DOMAIN t /\ t.ret \in {0, 1}
    BY SizedParts DEF Answered
  <1>2. \/ v = last \/ v = StartPost(t, fault) \/ v = init_cgi(t, fault)
        \/ v = init_get(begun, fault) /\ t.ret # 0
    <2>1. v = CASE t.ret = 0 -> last
                [] t.ret # 0 /\ t.r.method = "POST" -> StartPost(t, fault)
                [] t.ret # 0 /\ t.r.method # "POST" /\ t.r.is_cgi # "no" -> init_cgi(t, fault)
                [] OTHER -> init_get(begun, fault)
      BY Zenon DEF Start
    <2> HIDE DEF last, begun, v
    <2>2. CASE t.ret = 0
      BY <2>1, <2>2
    <2>3. CASE t.ret # 0 /\ t.r.method = "POST"
      BY <2>1, <2>3
    <2>4. CASE t.ret # 0 /\ t.r.method # "POST" /\ t.r.is_cgi # "no"
      BY <2>1, <2>4
    <2>5. CASE t.ret # 0 /\ t.r.method # "POST" /\ ~(t.r.is_cgi # "no")
      BY <2>1, <2>5
    <2> QED BY <2>2, <2>3, <2>4, <2>5
  <1>3. Answered(last)
    <2> DEFINE q == SQUASH_KA(t.r)
    <2>1. SizedRequest(q)
      BY <1>1, SizedWords
    <2> HIDE DEF q
    <2>2. last = [t EXCEPT !.r = q] /\ last.ret = t.ret
      BY <1>1 DEF q
    <2> QED BY <1>1, <2>1, <2>2, SizedSwap DEF Answered
  <1>4. Answered(StartPost(t, fault)) /\ Answered(init_cgi(t, fault))
    BY <1>1, SizedPost, SizedCgi
  <1>5. ASSUME t.ret # 0 PROVE Answered(init_get(begun, fault))
    <2> DEFINE q == [t.r EXCEPT !.status = "WRITE"]
    <2>1. SizedRequest(q) /\ q.uri = t.r.uri
      BY <1>1, SizedWords
    <2>2. begun.r = q /\ begun = [t EXCEPT !.r = q]
      BY <1>1
    <2> HIDE DEF q, begun
    <2>3. Sized(begun)
      BY <1>1, <2>1, <2>2, SizedSwap
    <2>4. begun.r.uri \in DOMAIN Site
      BY <1>5, <2>1, <2>2
    <2> QED BY <2>3, <2>4, SizedGet
  <1> HIDE DEF last, begun, v
  <1>6. Answered(v)
    BY <1>2, <1>3, <1>4, <1>5
  <1> QED BY <1>6 DEF v

\* process_header_end, on each of its ways out.
LEMMA SizedEnd ==
    ASSUME NEW w, Sized(w), NEW fault
    PROVE  Answered(process_header_end(w, fault))
  <1> DEFINE v == process_header_end(w, fault)
             t == translate_uri(w)
  <1>1. \/ v = Refuse(w, 500) \/ v = Refuse(w, 400)
        \/ v = Start(t, fault) /\ w.r.uri \in DOMAIN Site
    BY DEF process_header_end
  <1>2. Answered(Refuse(w, 500)) /\ Answered(Refuse(w, 400))
    BY SizedRefused DEF Answered
  <1>3. ASSUME w.r.uri \in DOMAIN Site PROVE Answered(Start(t, fault))
    <2>1. Answered(t) /\ (t.ret # 0 => t.r.uri = w.r.uri)
      BY SizedTranslate, Zenon
    <2> HIDE DEF t
    <2> QED BY <1>3, <2>1, SizedStart
  <1> HIDE DEF v, t
  <1>4. Answered(v)
    BY <1>1, <1>2, <1>3
  <1> QED BY <1>4 DEF v

\* A handler that parses: it goes on only with nothing written.
Parsing(w) == /\ Sized(w) /\ w.ret \in {Go, 0, 1}
              /\ w.ret = Go => w.r.status \in Headers /\ w.r.buf = <<>>

\* Header lines and the request line write nothing, or end the request.
LEMMA SizedLines ==
    ASSUME NEW w, Sized(w), NEW line, line.n \in Int
    PROVE  /\ LET v == process_option_line(w, line) IN
              /\ Sized(v) /\ v.ret \in {w.ret, 0}
              /\ v.ret # 0 => v.r.status = w.r.status /\ v.r.buf = w.r.buf
           /\ LET v == process_logline(w, line) IN
              /\ Sized(v) /\ v.ret \in {w.ret, 0}
              /\ v.ret # 0 => v.r.status = w.r.status /\ v.r.buf = w.r.buf
  <1>1. /\ SizedRequest(w.r) /\ SizedNet(w.n) /\ SizedSources(w.src)
        /\ {"n", "r", "ret", "src"} \subseteq DOMAIN w /\ {"buf", "status"} \subseteq DOMAIN w.r
    <2>1. /\ SizedRequest(w.r) /\ SizedNet(w.n) /\ SizedSources(w.src)
          /\ {"n", "r", "ret", "src"} \subseteq DOMAIN w
      BY SizedParts
    <2> QED BY <2>1 DEF SizedRequest
  <1>2. ASSUME NEW v, DOMAIN v = DOMAIN w, SizedRequest(v.r), v.n = w.n, v.src = w.src,
               v.ret = w.ret, v.r.status = w.r.status, v.r.buf = w.r.buf
        PROVE  /\ Sized(v) /\ v.ret \in {w.ret, 0}
               /\ v.ret # 0 => v.r.status = w.r.status /\ v.r.buf = w.r.buf
    BY <1>1, <1>2, SizedMade
  <1>3. LET v == process_option_line(w, line) IN
        /\ Sized(v) /\ v.ret \in {w.ret, 0}
        /\ v.ret # 0 => v.r.status = w.r.status /\ v.r.buf = w.r.buf
    <2> DEFINE r == w.r
               alive == [w EXCEPT !.r.keepalive = IF line.t = "KEEP" THEN "active" ELSE "stopped"]
               more == [w EXCEPT !.r = add_cgi_env(r)]
               long == [w EXCEPT !.r.clen = line.n]
               v == process_option_line(w, line)
    <2>1. v \in {alive, more, long, GiveUp(w)}
      <3> DEFINE other == IF r.envs < CGI_ENV_MAX THEN more ELSE GiveUp(w)
      <3>1. v = CASE line.t \in {"KEEP", "CLOSE"} ->
                       IF ka_max > 0 /\ r.keepalive # "stopped" THEN alive ELSE other
                  [] line.t = "LENGTH" /\ r.clen = -1 -> long
                  [] line.t \in NoColon -> GiveUp(w)
                  [] OTHER -> other
        BY Zenon DEF process_option_line
      <3>2. other \in {more, GiveUp(w)}
        BY Zenon
      <3> HIDE DEF v, alive, more, long, other
      <3>3. CASE line.t \in {"KEEP", "CLOSE"}
        BY <3>1, <3>2, <3>3
      <3>4. CASE line.t \notin {"KEEP", "CLOSE"} /\ (line.t = "LENGTH" \/ line.t \in NoColon)
        BY <3>1, <3>2, <3>4
      <3>5. CASE line.t \notin {"KEEP", "CLOSE", "LENGTH"} \cup NoColon
        BY <3>1, <3>2, <3>5
      <3> QED BY <3>3, <3>4, <3>5
    <2>2. /\ alive.r = [r EXCEPT !.keepalive = IF line.t = "KEEP" THEN "active" ELSE "stopped"]
          /\ more.r = [r EXCEPT !.envs = @ + 1] /\ long.r = [r EXCEPT !.clen = line.n]
          /\ DOMAIN alive = DOMAIN w /\ alive.n = w.n /\ alive.src = w.src /\ alive.ret = w.ret
          /\ DOMAIN more = DOMAIN w /\ more.n = w.n /\ more.src = w.src /\ more.ret = w.ret
          /\ DOMAIN long = DOMAIN w /\ long.n = w.n /\ long.src = w.src /\ long.ret = w.ret
      BY <1>1 DEF add_cgi_env
    <2> HIDE DEF alive, more, long, v
    <2>3. SizedRequest(alive.r) /\ alive.r.status = r.status /\ alive.r.buf = r.buf
      BY <1>1, <2>2 DEF SizedRequest
    <2>4. SizedRequest(more.r) /\ more.r.status = r.status /\ more.r.buf = r.buf
      BY <1>1, <2>2 DEF SizedRequest
    <2>5. SizedRequest(long.r) /\ long.r.status = r.status /\ long.r.buf = r.buf
      BY <1>1, <2>2 DEF SizedRequest
    <2>6. Sized(GiveUp(w)) /\ GiveUp(w).ret = 0
      BY SizedEnded, Zenon
    <2>7. CASE v \in {alive, more, long}
      <3>1. /\ DOMAIN v = DOMAIN w /\ SizedRequest(v.r) /\ v.n = w.n /\ v.src = w.src
            /\ v.ret = w.ret /\ v.r.status = w.r.status /\ v.r.buf = w.r.buf
        BY <2>2, <2>3, <2>4, <2>5, <2>7
      <3>2. /\ Sized(v) /\ v.ret \in {w.ret, 0}
            /\ v.ret # 0 => v.r.status = w.r.status /\ v.r.buf = w.r.buf
        BY <1>2, <3>1
      <3> QED BY <3>2 DEF v
    <2>8. CASE v = GiveUp(w)
      <3>1. Sized(v) /\ v.ret = 0
        BY <2>6, <2>8
      <3> QED BY <3>1 DEF v
    <2> QED BY <2>1, <2>7, <2>8
  <1>4. LET v == process_logline(w, line) IN
        /\ Sized(v) /\ v.ret \in {w.ret, 0}
        /\ v.ret # 0 => v.r.status = w.r.status /\ v.r.buf = w.r.buf
    <2> DEFINE r == [w.r EXCEPT !.logline = "yes"]
               method == CASE line.t \in {"GET", "GET09"}   -> "GET"
                           [] line.t \in {"POST", "POST09"} -> "POST"
                           [] line.t = "HEAD"               -> "HEAD"
                           [] OTHER                         -> "none"
               simple == IF line.t \in {"GET09", "POST09"} THEN "yes" ELSE "no"
               r1 == [r EXCEPT !.method = method, !.uri = line.n, !.simple = simple]
               u == [w EXCEPT !.r = r]
               on == [w EXCEPT !.r = r1]
               v == process_logline(w, line)
    <2>1. v \in {Refuse(u, 501), on}
      BY DEF process_logline
    <2> HIDE DEF method, simple
    <2>2. SizedRequest(r) /\ SizedRequest(r1) /\ r1.status = w.r.status /\ r1.buf = w.r.buf
      BY <1>1 DEF SizedRequest
    <2>3. /\ on.r = r1 /\ DOMAIN on = DOMAIN w /\ on.n = w.n /\ on.src = w.src /\ on.ret = w.ret
      BY <1>1
    <2> HIDE DEF r, r1
    <2>4. Sized(u)
      BY <2>2, SizedSwap
    <2> HIDE DEF u, on, v
    <2>5. Sized(Refuse(u, 501)) /\ Refuse(u, 501).ret = 0
      BY <2>4, SizedRefused
    <2>6. CASE v = on
      <3>1. /\ DOMAIN v = DOMAIN w /\ SizedRequest(v.r) /\ v.n = w.n /\ v.src = w.src
            /\ v.ret = w.ret /\ v.r.status = w.r.status /\ v.r.buf = w.r.buf
        BY <2>2, <2>3, <2>6
      <3>2. /\ Sized(v) /\ v.ret \in {w.ret, 0}
            /\ v.ret # 0 => v.r.status = w.r.status /\ v.r.buf = w.r.buf
        BY <1>2, <3>1
      <3> QED BY <3>2 DEF v
    <2>7. CASE v = Refuse(u, 501)
      <3>1. Sized(v) /\ v.ret = 0
        BY <2>5, <2>7
      <3> QED BY <3>1 DEF v
    <2> QED BY <2>1, <2>6, <2>7
  <1> QED BY <1>3, <1>4, Zenon
\* A POST whose headers are complete.
LEMMA SizedBegin ==
    ASSUME NEW w, Answered(w)
    PROVE  Answered(PostBegin(w)) /\ Answered(AfterEnd(w))
  <1> DEFINE r == [w.r EXCEPT !.status = "BODY_WRITE"]
             come == Drop(r.stream, r.parse_pos)
             part == Take(come, Least(Len(come), r.clen))
             q1 == [r EXCEPT !.data = come]
             q2 == [r EXCEPT !.filesize = r.clen, !.filepos = 0, !.data = part]
             bad == [w EXCEPT !.r = q1]
             on == [w EXCEPT !.r = q2, !.ret = 1]
  <1>1. PostBegin(w) \in {Refuse(bad, 400), on}
    BY Zenon DEF PostBegin
  <1>2. Sized(w)
    BY DEF Answered
  <1>3. SizedRequest(r)
    BY <1>2, SizedParts, SizedWords
  <1> HIDE DEF r
  <1>4. Listed(come)
    BY <1>3, ListedParts DEF SizedRequest
  <1> HIDE DEF come
  <1>5. Listed(part)
    <2>1. Len(come) \in Int /\ r.clen \in Int
      BY <1>3, <1>4, ListedParts DEF SizedRequest
    <2>2. Least(Len(come), r.clen) \in Int
      BY <2>1, LeastOf
    <2> QED BY <1>4, <2>2, ListedParts
  <1> HIDE DEF part
  <1>6. SizedRequest(q1) /\ SizedRequest(q2)
    BY <1>3, <1>4, <1>5 DEF SizedRequest
  <1> HIDE DEF q1, q2
  <1>7. Sized(bad) /\ Sized(on) /\ on.ret = 1
    <2>1. SizedNet(w.n) /\ SizedSources(w.src) /\ {"n", "r", "ret", "src"} \subseteq DOMAIN w
      BY <1>2, SizedParts
    <2>2. /\ on.r = q2 /\ on.n = w.n /\ on.src = w.src /\ DOMAIN on = DOMAIN w /\ on.ret = 1
          /\ bad.r = q1 /\ bad.n = w.n /\ bad.src = w.src /\ DOMAIN bad = DOMAIN w
      BY <2>1
    <2> HIDE DEF bad, on
    <2> QED BY <1>2, <1>6, <2>1, <2>2, SizedMade
  <1> HIDE DEF bad, on
  <1>8. Answered(Refuse(bad, 400)) /\ Answered(on)
    BY <1>7, SizedRefused DEF Answered
  <1>9. Answered(PostBegin(w))
    BY <1>1, <1>8
  <1> QED BY <1>9, Zenon DEF AfterEnd

\* One token of the stream.
LEMMA SizedScan ==
    ASSUME NEW w, Parsing(w), NEW tok \in Token, NEW fault
    PROVE  Parsing(Scan(w, tok, fault))
  <1>1. CASE w.ret # Go
    BY <1>1, Zenon DEF Scan
  <1>2. CASE w.ret = Go
    <2> DEFINE s == HeaderStatus(w.r.status, tok.t)
               line == IF tok.t \in {"CR", "LF"} \/ w.r.line # NoLine THEN w.r.line ELSE tok
               pq == [w.r EXCEPT !.status = s, !.parse_pos = w.r.parse_pos + 1, !.line = line]
               p == [w EXCEPT !.r = pq]
               fq == [pq EXCEPT !.line = NoLine]
               fresh == [p EXCEPT !.r = fq]
               p1 == [p EXCEPT !.ret = 1]
               log == process_logline(fresh, line)
               option == process_option_line(fresh, line)
               end == process_header_end(p1, fault)
               v == Scan(w, tok, fault)
    <2>1. /\ SizedRequest(w.r) /\ {"n", "r", "ret", "src"} \subseteq DOMAIN w /\ Sized(w)
          /\ {"buf", "line", "parse_pos", "status"} \subseteq DOMAIN w.r
          /\ w.r.status \in Headers /\ w.r.buf = <<>>
      <3>1. Sized(w) /\ w.r.status \in Headers /\ w.r.buf = <<>>
        BY <1>2 DEF Parsing
      <3>2. SizedRequest(w.r) /\ {"n", "r", "ret", "src"} \subseteq DOMAIN w
        BY <3>1, SizedParts
      <3> QED BY <3>1, <3>2 DEF SizedRequest
    <2>2. \/ v = p /\ s \notin {"BODY_READ"}
          \/ v = option /\ s = "ONE_LF"
          \/ v = AfterFirst(log, line, fault) /\ s = "ONE_LF"
          \/ v = AfterEnd(end)
      <3> DEFINE p0 == [w EXCEPT !.r.status = s, !.r.parse_pos = @ + 1,
                                 !.r.line = IF tok.t \in {"CR", "LF"} \/ @ # NoLine THEN @ ELSE tok]
                 f0 == [p0 EXCEPT !.r.line = NoLine]
      <3>1. p0 = p /\ f0 = fresh /\ p0.r.line = line
        BY <2>1
      <3>2. v = CASE w.ret # Go -> w
                  [] w.ret = Go /\ s = "ONE_LF" /\ w.r.logline = "yes" -> process_option_line(f0, p0.r.line)
                  [] w.ret = Go /\ s = "ONE_LF" /\ w.r.logline = "no" ->
                       AfterFirst(process_logline(f0, p0.r.line), p0.r.line, fault)
                  [] w.ret = Go /\ s = "BODY_READ" ->
                       AfterEnd(process_header_end([p0 EXCEPT !.ret = 1], fault))
                  [] OTHER -> p0
        BY Zenon DEF Scan
      <3> HIDE DEF p0, f0, p, fresh, s, line, v
      <3>3. v = CASE w.ret # Go -> w
                  [] w.ret = Go /\ s = "ONE_LF" /\ w.r.logline = "yes" -> option
                  [] w.ret = Go /\ s = "ONE_LF" /\ w.r.logline = "no" -> AfterFirst(log, line, fault)
                  [] w.ret = Go /\ s = "BODY_READ" -> AfterEnd(end)
                  [] OTHER -> p
        BY <3>1, <3>2
      <3> HIDE DEF log, option, end
      <3>4. CASE s = "ONE_LF" /\ w.r.logline = "yes"
        BY <1>2, <3>3, <3>4
      <3>5. CASE s = "ONE_LF" /\ w.r.logline = "no"
        BY <1>2, <3>3, <3>5
      <3>6. CASE s = "BODY_READ"
        BY <1>2, <3>3, <3>6
      <3>7. CASE s # "BODY_READ" /\ ~(s = "ONE_LF" /\ w.r.logline \in {"yes", "no"})
        BY <1>2, <3>3, <3>7
      <3> QED BY <3>4, <3>5, <3>6, <3>7
    <2>3. s \in Headers \cup {"BODY_READ"}
      BY <2>1, HeaderStep
    <2>4. line.n \in Int /\ w.r.parse_pos + 1 \in Int /\ NoLine.n \in Int
      BY <2>1 DEF SizedRequest, Token, NoLine, Tok
    <2> HIDE DEF s, line
    <2>5. SizedRequest(pq) /\ SizedRequest(fq) /\ pq.buf = <<>> /\ fq.buf = <<>> /\ pq.status = s /\ fq.status = s
      BY <2>1, <2>4 DEF SizedRequest
    <2> HIDE DEF pq, fq
    <2>6. Sized(p) /\ p.r = pq /\ p.ret = Go
      <3>1. Sized(p) /\ p.r = pq
        BY <2>1, <2>5, SizedSwap
      <3> QED BY <1>2, <3>1
    <2> HIDE DEF p
    <2>7. Sized(fresh) /\ fresh.r = fq /\ fresh.ret = Go
      <3>1. Sized(fresh) /\ fresh.r = fq
        BY <2>5, <2>6, SizedSwap
      <3> QED BY <2>6, <3>1
    <2>8. Sized(p1)
      BY <2>6, SizedReturned
    <2> HIDE DEF fresh, p1
    <2>9. CASE v = p /\ s \notin {"BODY_READ"}
      <3>1. Parsing(p)
        BY <2>3, <2>5, <2>6, <2>9 DEF Parsing
      <3> HIDE DEF v
      <3> QED BY <2>9, <3>1 DEF v
    <2>10. /\ Sized(option) /\ option.ret \in {Go, 0}
           /\ option.ret # 0 => option.r.status = s /\ option.r.buf = <<>>
           /\ Sized(log) /\ log.ret \in {Go, 0}
           /\ log.ret # 0 => log.r.status = s /\ log.r.buf = <<>>
      <3>1. /\ Sized(option) /\ option.ret \in {fresh.ret, 0}
            /\ option.ret # 0 => option.r.status = fresh.r.status /\ option.r.buf = fresh.r.buf
        BY <2>4, <2>7, SizedLines, Zenon
      <3>2. /\ Sized(log) /\ log.ret \in {fresh.ret, 0}
            /\ log.ret # 0 => log.r.status = fresh.r.status /\ log.r.buf = fresh.r.buf
        BY <2>4, <2>7, SizedLines, Zenon
      <3> HIDE DEF option, log
      <3> QED BY <2>5, <2>7, <3>1, <3>2
    <2> HIDE DEF option, log, v
    <2>11. "ONE_LF" \in Headers /\ Go # 0 /\ Go # 1
      BY DEF Headers, Go
    <2>12. CASE v = option /\ s = "ONE_LF"
      <3>1. Parsing(v)
        BY <2>10, <2>11, <2>12 DEF Parsing
      <3> QED BY <3>1 DEF v
    <2>13. CASE v = AfterFirst(log, line, fault) /\ s = "ONE_LF"
      <3> DEFINE same == [log EXCEPT !.r.line = line]
                 l1 == [same EXCEPT !.ret = 1]
      <3>1. v \in {log, process_header_end(l1, fault)}
        BY <2>13, Zenon DEF AfterFirst
      <3>7. Sized(same)
        <4> DEFINE sq == [log.r EXCEPT !.line = line]
        <4>1. SizedRequest(log.r) /\ {"n", "r", "ret", "src"} \subseteq DOMAIN log
          BY <2>10, SizedParts
        <4>2. SizedRequest(sq)
          BY <2>4, <4>1 DEF SizedRequest
        <4>3. same = [log EXCEPT !.r = sq]
          OBVIOUS
        <4> HIDE DEF sq, same
        <4> QED BY <2>10, <4>2, <4>3, SizedSwap
      <3> HIDE DEF same
      <3>2. Sized(l1)
        BY <3>7, SizedReturned
      <3> HIDE DEF l1
      <3>3. Answered(process_header_end(l1, fault))
        BY <3>2, SizedEnd
      <3>4. Parsing(process_header_end(l1, fault))
        BY <2>11, <3>3 DEF Answered, Parsing
      <3>5. Parsing(log)
        BY <2>10, <2>11, <2>13 DEF Parsing
      <3>6. Parsing(v)
        BY <3>1, <3>4, <3>5
      <3> QED BY <3>6 DEF v
    <2>14. CASE v = AfterEnd(end)
      <3>1. Answered(end)
        BY <2>8, SizedEnd
      <3> HIDE DEF end
      <3>2. Answered(v)
        BY <2>14, <3>1, SizedBegin
      <3>3. Parsing(v)
        BY <2>11, <3>2 DEF Answered, Parsing
      <3> QED BY <3>3 DEF v
    <2> QED BY <2>2, <2>9, <2>12, <2>13, <2>14
  <1> QED BY <1>1, <1>2

\* The whole loop, by induction over the tokens.
LEMMA SizedScanned ==
    ASSUME NEW w, Parsing(w), NEW toks \in Seq(Token), NEW fault
    PROVE  Parsing(Scanned(w, toks, fault))
  <1>1. PICK at : /\ Scanned(w, toks, fault) = at[Len(toks)]
                  /\ at[0] = w
                  /\ \A k \in 1..Len(toks) : at[k] = Scan(at[k - 1], toks[k], fault)
    <2>1. Len(toks) \in Nat
      OBVIOUS
    <2>2. ScannedBy(w, toks, fault)
      BY <2>1, ScannedSteps
    <2> QED BY <2>2 DEF ScannedBy
  <1> DEFINE S == {n \in Nat : n <= Len(toks) => Parsing(at[n])}
  <1>2. 0 \in S
    BY <1>1
  <1>3. ASSUME NEW n \in S PROVE n + 1 \in S
    <2> SUFFICES ASSUME n + 1 <= Len(toks) PROVE Parsing(at[n + 1])
      OBVIOUS
    <2>1. n \in Nat /\ n + 1 \in 1..Len(toks) /\ (n + 1) - 1 = n
      OBVIOUS
    <2>2. at[n + 1] = Scan(at[n], toks[n + 1], fault)
      BY <1>1, <2>1
    <2>3. Parsing(at[n])
      BY <2>1
    <2>4. toks[n + 1] \in Token
      BY <2>1
    <2> QED BY <2>2, <2>3, <2>4, SizedScan
  <1>4. Len(toks) \in S
    <2> HIDE DEF S
    <2> QED BY <1>2, <1>3, Induct
  <1> QED BY <1>1, <1>4

\* read waits only with room in the client's buffer.
LEMMA SizedMore ==
    ASSUME NEW w, Sized(w)
    PROVE  LET v == ReadMore(w) IN
           /\ Sized(v)
           /\ v.ret = -1 => v.r = w.r /\ Len(w.r.stream) < CLIENT_STREAM_SIZE
  <1> DEFINE r == w.r
             k == Least(CLIENT_STREAM_SIZE - Len(r.stream), Len(w.n.inq))
             stream == r.stream \o Take(w.n.inq, k)
             inq == Drop(w.n.inq, k)
             dead == [w EXCEPT !.r.status = "DEAD"]
             waits == [w EXCEPT !.ret = -1]
             on == [w EXCEPT !.r.stream = stream, !.n.inq = inq, !.ret = 1]
             v == ReadMore(w)
  <1>1. \/ v \in {GiveUp(dead), GiveUp(w), on}
        \/ v = waits /\ ~(Len(r.stream) >= CLIENT_STREAM_SIZE)
    BY Zenon DEF ReadMore
  <1>2. SizedRequest(r) /\ SizedNet(w.n) /\ SizedSources(w.src) /\ {"n", "r", "ret", "src"} \subseteq DOMAIN w
    BY SizedParts
  <1>3. Listed(r.stream) /\ Listed(w.n.inq) /\ Len(r.stream) \in Nat /\ Len(w.n.inq) \in Nat
    BY <1>2, ListedParts DEF SizedRequest, SizedNet
  <1>4. k \in Int
    <2>1. CLIENT_STREAM_SIZE - Len(r.stream) \in Int /\ Len(w.n.inq) \in Int
      BY <1>3, BoaAssumption
    <2> QED BY <2>1, LeastOf
  <1> HIDE DEF k
  <1>5. Listed(stream) /\ Listed(inq)
    BY <1>3, <1>4, ListedParts
  <1> HIDE DEF stream, inq
  <1>6. /\ on.r = [r EXCEPT !.stream = stream] /\ on.n = [w.n EXCEPT !.inq = inq]
        /\ on.src = w.src /\ DOMAIN on = DOMAIN w /\ on.ret = 1
        /\ dead.r = [r EXCEPT !.status = "DEAD"] /\ dead.n = w.n /\ dead.src = w.src
        /\ DOMAIN dead = DOMAIN w /\ waits.r = r
    BY <1>2
  <1> HIDE DEF on, dead
  <1>7. SizedRequest(on.r) /\ SizedNet(on.n) /\ SizedRequest(dead.r)
    BY <1>2, <1>5, <1>6 DEF SizedRequest, SizedNet
  <1>8. Sized(on) /\ Sized(dead)
    BY <1>2, <1>6, <1>7, SizedMade
  <1>9. Answered(GiveUp(dead)) /\ Answered(GiveUp(w)) /\ Answered(on) /\ Sized(waits)
    BY <1>6, <1>8, SizedEnded, SizedReturned DEF Answered
  <1>10. ~(Len(r.stream) >= CLIENT_STREAM_SIZE) => Len(r.stream) < CLIENT_STREAM_SIZE
    BY <1>3, BoaAssumption
  <1> HIDE DEF waits, v
  <1>11. CASE v \in {GiveUp(dead), GiveUp(w), on}
    <2>1. Sized(v) /\ v.ret # -1
      BY <1>9, <1>11 DEF Answered
    <2> QED BY <2>1 DEF v
  <1>12. CASE v = waits /\ ~(Len(r.stream) >= CLIENT_STREAM_SIZE)
    <2>1. Sized(v) /\ v.r = w.r /\ Len(w.r.stream) < CLIENT_STREAM_SIZE
      BY <1>6, <1>9, <1>10, <1>12
    <2> QED BY <2>1 DEF v
  <1> QED BY <1>1, <1>11, <1>12

\* read_header waits only for more of the headers, and with room for them.
LEMMA SizedReadHeader ==
    ASSUME NEW w, Sized(w), w.r.status \in Headers, w.r.buf = <<>>,
           Drop(w.r.stream, w.r.parse_pos) \in Seq(Token), NEW fault
    PROVE  LET v == read_header(w, fault) IN
           Sized(v) /\ (v.ret = -1 => Stalled(v.r))
  <1> DEFINE g == [w EXCEPT !.ret = Go]
             toks == Drop(w.r.stream, w.r.parse_pos)
             u == Scanned(g, toks, fault)
             v == read_header(w, fault)
  <1>1. Sized(g) /\ g.ret = Go /\ g.r = w.r
    <2>1. Sized(g) /\ g.ret = Go
      BY SizedReturned
    <2> QED BY <2>1
  <1>2. Parsing(g)
    BY <1>1 DEF Parsing
  <1> HIDE DEF g, toks
  <1>3. Parsing(u)
    BY <1>2, SizedScanned DEF toks
  <1>4. v = IF u.ret = Go THEN ReadMore(u) ELSE u
    BY DEF read_header, AfterScan, g, toks
  <1> HIDE DEF u, v
  <1>5. CASE u.ret # Go
    <2>1. Sized(v) /\ v.ret # -1
      BY <1>3, <1>4, <1>5 DEF Parsing, Go
    <2> QED BY <2>1 DEF v
  <1>6. CASE u.ret = Go
    <2>1. v = ReadMore(u) /\ Sized(u) /\ u.r.status \in Headers /\ u.r.buf = <<>>
      BY <1>3, <1>4, <1>6 DEF Parsing
    <2>2. Sized(v) /\ (v.ret = -1 => v.r = u.r /\ Len(u.r.stream) < CLIENT_STREAM_SIZE)
      BY <2>1, SizedMore, Zenon
    <2>3. Sized(v) /\ (v.ret = -1 => Stalled(v.r))
      BY <2>1, <2>2 DEF Stalled
    <2> QED BY <2>3 DEF v
  <1> QED BY <1>5, <1>6

\* read_body waits only for more of the body, and with room for it.
LEMMA SizedBody ==
    ASSUME NEW w, Sized(w)
    PROVE  LET v == read_body(w) IN
           /\ Sized(v)
           /\ v.ret = -1 => v.r = w.r /\ w.r.filepos # w.r.filesize /\ Len(w.r.data) # BUFFER_SIZE
  <1> DEFINE r == w.r
             k == Least(Least(r.filesize - r.filepos, BUFFER_SIZE - Len(r.data)), Len(w.n.inq))
             q == [r EXCEPT !.status = "BODY_WRITE"]
             full == [w EXCEPT !.r = q, !.ret = 1]
             body == r.data \o Take(w.n.inq, k)
             inq == Drop(w.n.inq, k)
             waits == [w EXCEPT !.ret = -1]
             on == [w EXCEPT !.r.status = "BODY_WRITE", !.r.data = body, !.n.inq = inq, !.ret = 1]
             v == read_body(w)
  <1>1. \/ v \in {full, on, Refuse(w, 400), Refuse(w, 500)}
        \/ v = waits /\ r.filesize # r.filepos /\ Len(r.data) # BUFFER_SIZE
    <2> DEFINE rest == CASE w.n.peer = "open"  -> waits
                         [] w.n.peer = "fin"   -> Refuse(w, 400)
                         [] OTHER              -> Refuse(w, 500)
    <2>1. rest \in {waits, Refuse(w, 400), Refuse(w, 500)}
      <3>1. CASE w.n.peer = "open"
        BY <3>1
      <3>2. CASE w.n.peer = "fin"
        BY <3>2
      <3>3. CASE w.n.peer \notin {"open", "fin"}
        BY <3>3
      <3> QED BY <3>1, <3>2, <3>3
    <2>2. \/ v \in {full, on}
          \/ v = rest /\ r.filesize # r.filepos /\ Len(r.data) # BUFFER_SIZE
      BY Zenon DEF read_body
    <2> HIDE DEF rest, full, on, k, waits, v
    <2> QED BY <2>1, <2>2
  <1>2. SizedRequest(r) /\ SizedNet(w.n) /\ SizedSources(w.src) /\ {"n", "r", "ret", "src"} \subseteq DOMAIN w
    BY SizedParts
  <1>3. Listed(r.data) /\ Listed(w.n.inq) /\ Len(r.data) \in Nat /\ Len(w.n.inq) \in Nat
        /\ r.filesize \in Int /\ r.filepos \in Int
    BY <1>2, ListedParts DEF SizedRequest, SizedNet
  <1>4. k \in Int
    <2>1. r.filesize - r.filepos \in Int /\ BUFFER_SIZE - Len(r.data) \in Int /\ Len(w.n.inq) \in Int
      BY <1>3, BoaAssumption
    <2>2. Least(r.filesize - r.filepos, BUFFER_SIZE - Len(r.data)) \in Int
      BY <2>1, LeastOf
    <2> QED BY <2>1, <2>2, LeastOf
  <1> HIDE DEF k
  <1>5. Listed(body) /\ Listed(inq)
    BY <1>3, <1>4, ListedParts
  <1> HIDE DEF body, inq
  <1>6. /\ on.r = [r EXCEPT !.status = "BODY_WRITE", !.data = body] /\ on.n = [w.n EXCEPT !.inq = inq]
        /\ on.src = w.src /\ DOMAIN on = DOMAIN w /\ on.ret = 1 /\ waits.r = r
    BY <1>2
  <1> HIDE DEF on
  <1>7. SizedRequest(on.r) /\ SizedNet(on.n)
    BY <1>2, <1>5, <1>6 DEF SizedRequest, SizedNet
  <1>8. Sized(on)
    BY <1>2, <1>6, <1>7, SizedMade
  <1>9. Sized(full) /\ full.ret = 1
    <2>1. SizedRequest(q)
      BY <1>2, SizedWords
    <2> HIDE DEF q
    <2>2. full.r = q /\ full.n = w.n /\ full.src = w.src /\ DOMAIN full = DOMAIN w /\ full.ret = 1
      BY <1>2
    <2> HIDE DEF full
    <2> QED BY <1>2, <2>1, <2>2, SizedMade
  <1> HIDE DEF full
  <1>10. Answered(Refuse(w, 400)) /\ Answered(Refuse(w, 500)) /\ Answered(on) /\ Answered(full) /\ Sized(waits)
    BY <1>6, <1>8, <1>9, SizedRefused, SizedReturned DEF Answered
  <1> HIDE DEF waits, v
  <1>11. CASE v \in {full, on, Refuse(w, 400), Refuse(w, 500)}
    <2>1. Sized(v) /\ v.ret # -1
      BY <1>10, <1>11 DEF Answered
    <2> QED BY <2>1 DEF v
  <1>12. CASE v = waits /\ r.filesize # r.filepos /\ Len(r.data) # BUFFER_SIZE
    <2>1. Sized(v) /\ v.r = w.r /\ w.r.filepos # w.r.filesize /\ Len(w.r.data) # BUFFER_SIZE
      BY <1>6, <1>10, <1>12
    <2> QED BY <2>1 DEF v
  <1> QED BY <1>1, <1>11, <1>12

\* write_body never waits.
LEMMA SizedSave ==
    ASSUME NEW w, Sized(w), NEW fault
    PROVE  Answered(write_body(w, fault))
  <1> DEFINE r == w.r
             k == Least(Len(r.data), r.filesize - r.filepos)
             q1 == [r EXCEPT !.data = <<>>]
             q2 == [q1 EXCEPT !.status = "BODY_READ"]
             empty == [w EXCEPT !.r = q1]
             back == [empty EXCEPT !.r = q2, !.ret = 1]
             temp == r.temp \o Take(r.data, k)
             body == Drop(r.data, k)
             pos == r.filepos + k
             q3 == [r EXCEPT !.filepos = pos, !.data = body, !.temp = temp]
             on == [w EXCEPT !.r = q3, !.ret = 1]
             v == write_body(w, fault)
  <1>1. v \in {init_cgi(empty, fault), back, Refuse(w, 500), on}
    <2> DEFINE e0 == [w EXCEPT !.r.data = <<>>]
               b0 == [e0 EXCEPT !.r.status = "BODY_READ", !.ret = 1]
               o0 == [w EXCEPT !.r.filepos = @ + k, !.r.data = Drop(@, k),
                               !.r.temp = @ \o Take(r.data, k), !.ret = 1]
    <2>1. v \in {init_cgi(e0, fault), b0, Refuse(w, 500), o0}
      BY Zenon DEF write_body
    <2>2. {"n", "r", "ret", "src"} \subseteq DOMAIN w /\ {"data", "filepos", "status"} \subseteq DOMAIN r
      <3>1. {"n", "r", "ret", "src"} \subseteq DOMAIN w /\ SizedRequest(r)
        BY SizedParts
      <3> QED BY <3>1 DEF SizedRequest
    <2>3. e0 = empty /\ b0 = back
      BY <2>2
    <2>4. o0 = on
      <3> HIDE DEF k
      <3> QED BY <2>2
    <2> HIDE DEF e0, b0, o0, empty, back, on, v
    <2> QED BY <2>1, <2>3, <2>4
  <1>2. SizedRequest(r) /\ Listed(r.data) /\ Len(r.data) \in Nat /\ r.filesize \in Int /\ r.filepos \in Int
    <2>1. SizedRequest(r)
      BY SizedParts
    <2> QED BY <2>1, ListedParts DEF SizedRequest
  <1>3. k \in Int
    <2>1. Len(r.data) \in Int /\ r.filesize - r.filepos \in Int
      BY <1>2
    <2> QED BY <2>1, LeastOf
  <1> HIDE DEF k
  <1>4. Listed(body) /\ pos \in Int
    BY <1>2, <1>3, ListedParts
  <1> HIDE DEF body, pos, temp
  <1>5. SizedRequest(q1) /\ SizedRequest(q2) /\ SizedRequest(q3)
    BY <1>2, <1>4, ListedNew DEF SizedRequest
  <1> HIDE DEF q1, q2, q3
  <1>6. Sized(empty) /\ Sized(on) /\ on.ret = 1 /\ Sized(back) /\ back.ret = 1
    <2>1. SizedNet(w.n) /\ SizedSources(w.src) /\ {"n", "r", "ret", "src"} \subseteq DOMAIN w
      BY SizedParts
    <2>2. /\ on.r = q3 /\ on.n = w.n /\ on.src = w.src /\ DOMAIN on = DOMAIN w /\ on.ret = 1
          /\ empty.r = q1 /\ empty.n = w.n /\ empty.src = w.src /\ DOMAIN empty = DOMAIN w
      BY <2>1
    <2> HIDE DEF on, empty
    <2>3. back.r = q2 /\ back.n = w.n /\ back.src = w.src /\ DOMAIN back = DOMAIN w /\ back.ret = 1
      BY <2>1, <2>2
    <2> HIDE DEF back
    <2> QED BY <1>5, <2>1, <2>2, <2>3, SizedMade
  <1> HIDE DEF empty, on, back, v
  <1>8. Answered(init_cgi(empty, fault)) /\ Answered(Refuse(w, 500)) /\ Answered(on) /\ Answered(back)
    BY <1>6, SizedCgi, SizedRefused DEF Answered
  <1>9. Answered(v)
    BY <1>1, <1>8
  <1> QED BY <1>9 DEF v

\* A request that waits for the reason that its handler had.
Rested(w) == w.ret = -1 => Stalled(w.r)

\* Each status of process_requests' switch, and the flush: one that waits has a reason to.
LEMMA RunSized ==
    ASSUME BoaInv, IdleInv,
           \/ ReadHeader \/ ReadBody \/ WriteBody \/ ProcessGet \/ ReadFromPipe \/ WriteFromPipe
           \/ Flush \/ Done \/ Dead
    PROVE  \E f \in Requests : \E v :
              /\ stage = "handle" /\ f = Head(todo) /\ f \in Fds
              /\ Sized(v) /\ Rested(v) /\ Handled(f, v)
  <1>0. stage = "handle"
    BY DEF ReadHeader, ReadBody, WriteBody, ProcessGet, ReadFromPipe, WriteFromPipe, Flush, Done,
           Dead, Running
  <1>1. PICK f \in Fds : f = Head(todo) /\ f \in Requests
    BY <1>0, AtHand
  <1> DEFINE w == Work(f)
  <1>2. w.r = req[f] /\ Sized(w)
    <2>1. SizedRequest(req[f]) /\ SizedNet(net[f]) /\ SizedSources(src)
      BY DEF IdleInv
    <2> QED BY <2>1 DEF Work, Sized, Talks
  <1> SUFFICES \E v : Sized(v) /\ Rested(v) /\ Handled(f, v)
    BY <1>0, <1>1
  <1> HIDE DEF w
  <1>4. CASE ReadHeader
    <2>1. req[f].status \in Headers /\ req[f].buf = <<>>
      <3>1. {"DONE", "DEAD"} \cap Headers = {} /\ "READ_HEADER" \in Headers
        BY DEF Headers
      <3>2. req[f].status \in Headers /\ (req[f].buf # <<>> => Headers \subseteq {"DONE", "DEAD"})
        BY <1>1, <1>4 DEF ReadHeader, Running
      <3> QED BY <3>1, <3>2
    <2>2. PICK fault : \E v \in {read_header(w, fault)} : Handled(f, v)
      BY <1>1, <1>4 DEF ReadHeader, RunWith, w
    <2>3. Drop(req[f].stream, req[f].parse_pos) \in Seq(Token)
      <3>1. RequestTyped(req[f])
        BY <1>1 DEF BoaInv, InputsOK
      <3>2. /\ req[f].stream \in Seq(Token) /\ req[f].parse_pos \in Int
            /\ req[f].parse_pos >= 0
        BY <3>1 DEF RequestTyped
      <3> QED BY <3>2, Pieces
    <2> DEFINE v == read_header(w, fault)
    <2>4. Sized(v) /\ (v.ret = -1 => Stalled(v.r))
      BY <1>2, <2>1, <2>3, SizedReadHeader, Zenon
    <2> HIDE DEF v
    <2>5. Sized(v) /\ Rested(v)
      BY <2>4 DEF Rested
    <2> QED BY <2>2, <2>5 DEF v
  <1>5. CASE ReadBody
    <2>1. req[f].status = "BODY_READ" /\ req[f].buf = <<>>
      BY <1>1, <1>5 DEF ReadBody, Running
    <2>2. \E v \in {read_body(w)} : Handled(f, v)
      BY <1>1, <1>5 DEF ReadBody, Run, w
    <2> DEFINE v == read_body(w)
    <2>3. /\ Sized(v)
          /\ v.ret = -1 => v.r = w.r /\ w.r.filepos # w.r.filesize /\ Len(w.r.data) # BUFFER_SIZE
      BY <1>2, SizedBody, Zenon
    <2> HIDE DEF v
    <2>4. Rested(v)
      BY <1>2, <2>1, <2>3 DEF Rested, Stalled
    <2> QED BY <2>2, <2>3, <2>4 DEF v
  <1>6. CASE WriteBody
    <2>2. PICK fault : \E v \in {write_body(w, fault)} : Handled(f, v)
      BY <1>1, <1>6 DEF WriteBody, RunWith, w
    <2> DEFINE v == write_body(w, fault)
    <2>3. Answered(v)
      BY <1>2, SizedSave
    <2> HIDE DEF v
    <2>4. Sized(v) /\ Rested(v)
      BY <2>3 DEF Rested, Answered
    <2> QED BY <2>2, <2>4 DEF v
  <1>7. CASE ProcessGet
    <2>1. req[f].status = "WRITE" /\ req[f].buf = <<>>
      BY <1>1, <1>7 DEF ProcessGet, Running
    <2>2. PICK fault : \E v \in {process_get(w, fault)} : Handled(f, v)
      BY <1>1, <1>7 DEF ProcessGet, RunWith, w
    <2> DEFINE v == process_get(w, fault)
    <2>3. Sized(v) /\ (v.ret = -1 => v.r = w.r /\ w.r.filepos < w.r.filesize)
      BY <1>2, SizedWrite, Zenon
    <2> HIDE DEF v
    <2>4. Rested(v)
      BY <1>2, <2>1, <2>3 DEF Rested, Stalled
    <2> QED BY <2>2, <2>3, <2>4 DEF v
  <1>8. CASE ReadFromPipe
    <2>1. req[f].status = "PIPE_READ" /\ req[f].buf = <<>>
      BY <1>1, <1>8 DEF ReadFromPipe, Running
    <2>2. \E v \in {read_from_pipe(w)} : Handled(f, v)
      BY <1>1, <1>8 DEF ReadFromPipe, Run, w
    <2>3. req[f].data_fd \in AllFds
      <3>1. RequestOK(req[f], open)
        BY <1>1 DEF BoaInv
      <3> QED BY <2>1, <3>1 DEF RequestOK, Pipes
    <2> DEFINE v == read_from_pipe(w)
    <2>4. /\ Sized(v)
          /\ v.ret = -1 => v.r = w.r /\ BUFFER_SIZE - (w.r.off + Len(w.r.data)) # 0
      BY <1>2, <2>3, SizedRead, Zenon
    <2> HIDE DEF v
    <2>5. Rested(v)
      BY <1>2, <2>1, <2>4 DEF Rested, Stalled
    <2> QED BY <2>2, <2>4, <2>5 DEF v
  <1>9. CASE WriteFromPipe
    <2>1. req[f].status = "PIPE_WRITE" /\ req[f].buf = <<>>
      BY <1>1, <1>9 DEF WriteFromPipe, Running
    <2>2. \E v \in {write_from_pipe(w)} : Handled(f, v)
      BY <1>1, <1>9 DEF WriteFromPipe, Run, w
    <2> DEFINE v == write_from_pipe(w)
    <2>3. Sized(v) /\ (v.ret = -1 => v.r = w.r /\ w.r.data # <<>>)
      BY <1>2, SizedPass, Zenon
    <2> HIDE DEF v
    <2>4. Rested(v)
      BY <1>2, <2>1, <2>3 DEF Rested, Stalled
    <2> QED BY <2>2, <2>3, <2>4 DEF v
  <1>10. CASE Flush \/ Done
    <2> DEFINE u == req_flush(w)
               q == [u.r EXCEPT !.status = "DEAD"]
               dead == [u EXCEPT !.r.status = "DEAD", !.ret = 0]
               on == [u EXCEPT !.ret = 1]
    <2>1. \E v \in {dead, on, u} : Handled(f, v)
      BY <1>1, <1>10, Zenon DEF Flush, Done, Run, w
    <2>2. Sized(u) /\ (u.ret = -1 => u.r = w.r /\ w.r.start < Len(w.r.buf) /\ w.r.status # "DEAD")
      <3>1. Talks(w)
        BY <1>2 DEF Sized
      <3>2. u.ret = -1 => u.r = w.r /\ w.r.start < Len(w.r.buf) /\ w.r.status # "DEAD"
        BY <3>1, SizedFlush, Zenon
      <3>3. Sized(u)
        BY <1>2, SizedEnded
      <3> QED BY <3>2, <3>3
    <2>3. req[f].buf # <<>> \/ req[f].status = "DONE"
      BY <1>1, <1>10 DEF Flush, Done, Running
    <2> HIDE DEF u
    <2>4. Rested(u)
      BY <1>2, <2>2, <2>3 DEF Rested, Stalled
    <2>5. /\ SizedRequest(u.r) /\ SizedNet(u.n) /\ SizedSources(u.src)
          /\ {"n", "r", "ret", "src"} \subseteq DOMAIN u
      BY <2>2, SizedParts
    <2>6. SizedRequest(q)
      BY <2>5, SizedWords
    <2>7. /\ dead.r = q /\ dead.n = u.n /\ dead.src = u.src /\ DOMAIN dead = DOMAIN u
          /\ dead.ret = 0
      BY <2>5
    <2> HIDE DEF q, dead
    <2>8. Sized(dead)
      BY <2>2, <2>5, <2>6, <2>7, SizedMade
    <2>9. Sized(on) /\ on.ret = 1
      BY <2>2, SizedReturned
    <2> HIDE DEF on
    <2>10. Rested(dead) /\ Rested(on)
      BY <2>7, <2>9 DEF Rested
    <2> QED BY <2>1, <2>2, <2>4, <2>8, <2>9, <2>10
  <1>11. CASE Dead
    <2> DEFINE s == SQUASH_KA(req[f])
               q == [s EXCEPT !.buf = <<>>, !.start = 0]
               v == [w EXCEPT !.r = q, !.ret = 0]
    <2>1. Handled(f, v)
      BY <1>1, <1>2, <1>11 DEF Dead, Run, w
    <2>2. SizedRequest(s)
      BY <1>2, SizedWords, SizedParts
    <2> HIDE DEF s
    <2>3. SizedRequest(q)
      BY <2>2, ListedNew DEF SizedRequest
    <2>4. SizedNet(w.n) /\ SizedSources(w.src) /\ {"n", "r", "ret", "src"} \subseteq DOMAIN w
      BY <1>2, SizedParts
    <2> HIDE DEF q
    <2>5. v.r = q /\ v.n = w.n /\ v.src = w.src /\ DOMAIN v = DOMAIN w /\ v.ret = 0
      BY <2>4
    <2> HIDE DEF v
    <2>6. Sized(v) /\ Rested(v)
      BY <1>2, <2>3, <2>4, <2>5, SizedMade DEF Rested
    <2> QED BY <2>1, <2>6
  <1> QED BY <1>4, <1>5, <1>6, <1>7, <1>8, <1>9, <1>10, <1>11

\* A new connection, or the next request on an old one; words, time, and a new socket.
LEMMA SizedFresh ==
    /\ \A n, s : Listed(s) => SizedRequest(NewRequest(n, s))
    /\ SizedNet(NoNet) /\ \A x : SizedNet([NoNet EXCEPT !.more = x])
  BY ListedNew, BoaAssumption DEF NewRequest, NoLine, Tok, SizedRequest, SizedNet, NoNet

\* fdset_update leaves the sizes alone: q has the lists and req.
Fit(q) ==
    /\ {"bits", "block", "max_fd", "ready", "req"} \subseteq DOMAIN q
    /\ DOMAIN q.req = Fds /\ \A g \in Fds : SizedRequest(q.req[g])

\* One turn of its loop.
LEMMA WakeSized ==
    ASSUME NEW q, Fit(q), NEW f \in Fds
    PROVE  Fit(Wake(q, f))
  <1> DEFINE s == IF TimedOut(q.req[f]) THEN "DEAD" ELSE q.req[f].status
             r == [q.req[f] EXCEPT !.status = s]
             a == Awaits(f, r)
             bits1 == q.bits \ {a}
             block1 == dequeue(q.block, f)
             ready1 == <<f>> \o q.ready
             bits2 == q.bits \cup {a}
             max2 == IF a[2] > q.max_fd THEN a[2] ELSE q.max_fd
             woken == [q EXCEPT !.req[f] = r, !.bits = bits1, !.block = block1, !.ready = ready1]
             asleep == [q EXCEPT !.bits = bits2, !.max_fd = max2]
  <1>1. Wake(q, f) \in {woken, asleep}
    BY Zenon DEF Wake
  <1>2. SizedRequest(r)
    <2>1. SizedRequest(q.req[f])
      BY DEF Fit
    <2> HIDE DEF s
    <2> QED BY <2>1, SizedWords
  <1> HIDE DEF r, bits1, bits2, block1, ready1, max2
  <1>3. /\ DOMAIN asleep = DOMAIN q /\ asleep.req = q.req
        /\ DOMAIN woken = DOMAIN q /\ woken.req = [q.req EXCEPT ![f] = r]
    BY DEF Fit
  <1> HIDE DEF woken, asleep
  <1>4. Fit(woken) /\ Fit(asleep)
    BY <1>2, <1>3 DEF Fit
  <1> QED BY <1>1, <1>4

\* The whole loop, by induction over the blocked requests.
LEMMA WokenSized ==
    ASSUME NEW q0, Fit(q0), NEW list \in Seq(Fds)
    PROVE  Fit(Woken(q0, list))
  <1>1. PICK q : /\ Woken(q0, list) = q[Len(list)]
                 /\ q[0] = q0
                 /\ \A k \in 1..Len(list) : q[k] = Wake(q[k - 1], list[k])
    <2>1. Len(list) \in Nat
      OBVIOUS
    <2> DEFINE Steps(x, u) == \E q : /\ Woken(x, u) = q[Len(u)]
                                     /\ q[0] = x
                                     /\ \A k \in 1..Len(u) : q[k] = Wake(q[k - 1], u[k])
    <2>2. \A x, u : Len(u) \in Nat => Steps(x, u)
      BY WokenSteps
    <2> HIDE DEF Steps
    <2>3. Steps(q0, list)
      BY <2>1, <2>2
    <2> QED BY <2>3 DEF Steps
  <1> DEFINE S == {n \in Nat : n <= Len(list) => Fit(q[n])}
  <1>2. 0 \in S
    BY <1>1
  <1>3. ASSUME NEW n \in S PROVE n + 1 \in S
    <2> SUFFICES ASSUME n + 1 <= Len(list) PROVE Fit(q[n + 1])
      OBVIOUS
    <2>1. n \in Nat /\ n + 1 \in 1..Len(list) /\ (n + 1) - 1 = n
      OBVIOUS
    <2>2. q[n + 1] = Wake(q[n], list[n + 1])
      BY <1>1, <2>1
    <2>3. Fit(q[n]) /\ list[n + 1] \in Fds
      BY <2>1
    <2> QED BY <2>2, <2>3, WakeSized
  <1>4. Len(list) \in S
    <2> HIDE DEF S
    <2> QED BY <1>2, <1>3, Induct
  <1> QED BY <1>1, <1>4

\* The parts of IdleInv, for a step that leaves the sleeping requests alone.
LEMMA IdleKept ==
    ASSUME IdleInv, \A f \in Fds : SizedRequest(req'[f]) /\ SizedNet(net'[f]), SizedSources(src'),
           ToSet(block') \subseteq ToSet(block), \A f \in ToSet(block') : req'[f] = req[f],
           stage' \in {"accept", "dispose"} /\ ret' = -1 => Stalled(req'[Head(todo')])
    PROVE  IdleInv'
  BY DEF IdleInv

\* The top of the loop, and fdset_update.
LEMMA IdleTop ==
    ASSUME BoaInv, WatchInv, IdleInv, Signals \/ fdset_update
    PROVE  IdleInv'
  <1>1. CASE Signals
    <2>1. UNCHANGED <<block, req, net, src>> /\ stage' \notin {"accept", "dispose"}
      BY <1>1 DEF Signals
    <2> QED BY <2>1 DEF IdleInv
  <1>2. CASE fdset_update
    <2> DEFINE q0 == [bits |-> bits, block |-> block, max_fd |-> max_fd,
                      ready |-> ready, req |-> req]
               q == Woken(q0, block)
    <2>1. block' = q.block /\ req' = q.req /\ stage' = "first" /\ UNCHANGED <<net, src>>
      BY <1>2, Zenon DEF fdset_update
    <2>2. Fit(q0)
      BY DEF Fit, IdleInv, BoaInv, TablesOK
    <2>3. Watching(q, Len(block))
      BY WokenSound, Zenon
    <2> HIDE DEF q0
    <2>4. Fit(q)
      BY <2>2, WokenSized DEF BoaInv, ListsOK
    <2> HIDE DEF q
    <2>5. ToSet(q.block) \subseteq ToSet(block) /\ \A g \in ToSet(q.block) : q.req[g] = req[g]
      BY <2>3 DEF Watching, WatchInv
    <2>6. \A f \in Fds : SizedRequest(req'[f])
      BY <2>1, <2>4 DEF Fit
    <2>7. (\A f \in Fds : SizedNet(net'[f])) /\ SizedSources(src')
      BY <2>1 DEF IdleInv
    <2> QED BY <2>1, <2>5, <2>6, <2>7, IdleKept
  <1> QED BY <1>1, <1>2

\* process_requests up to its loop, and the connections taken between two requests.
LEMMA IdleTake ==
    ASSUME BoaInv, IdleInv, First \/ Accept
    PROVE  IdleInv'
  <1>1. /\ UNCHANGED <<block, ret, src>>
        /\ \/ stage = "first" /\ stage' \in {"poll", "handle"}
           \/ stage = "accept" /\ stage' = "dispose" /\ UNCHANGED todo
    BY DEF First, Accept, Round
  <1>2. /\ \A f \in Fds : SizedRequest(req'[f]) /\ SizedNet(net'[f])
        /\ \A f \in Requests : req'[f] = req[f]
    <2>1. CASE UNCHANGED <<req, net>>
      BY <2>1 DEF IdleInv
    <2>2. CASE ~UNCHANGED <<req, net>>
      <3>1. get_request /\ UNCHANGED block
        BY <1>1, <2>2 DEF First, Accept
      <3>2. PICK fd \in Fds : fd = LowestFree(open) /\ fd \notin Requests
        BY <2>2, <3>1, GotLists
      <3> DEFINE conn == NewRequest(ka_max, <<>>)
                 nw == [NoNet EXCEPT !.more = Head(backlog)]
                 w0 == [r |-> conn, n |-> nw, ret |-> 0]
                 w == send_r(w0, 503)
                 late == [w.r EXCEPT !.status = "DONE"]
                 tooMany == fd > max_connections
                 r1 == IF tooMany THEN late ELSE conn
                 n1 == IF tooMany THEN w.n ELSE nw
      <3>3. req' = [req EXCEPT ![fd] = r1] /\ net' = [net EXCEPT ![fd] = n1]
        BY <2>2, <3>1, <3>2, Zenon DEF get_request
      <3>4. SizedRequest(conn) /\ SizedNet(nw)
        BY SizedFresh, ListedNew
      <3> HIDE DEF conn, nw
      <3>5. Talks(w0)
        BY <3>4 DEF Talks
      <3> HIDE DEF w0
      <3>6. SizedRequest(w.r) /\ SizedNet(w.n)
        <4>1. Talks(w)
          BY <3>5, SizedSent
        <4> HIDE DEF w
        <4> QED BY <4>1 DEF Talks
      <3> HIDE DEF w
      <3>7. SizedRequest(late)
        BY <3>6, SizedWords
      <3> HIDE DEF late, tooMany
      <3>8. SizedRequest(r1) /\ SizedNet(n1)
        BY <3>4, <3>6, <3>7
      <3> HIDE DEF r1, n1
      <3>9. DOMAIN req = Fds /\ DOMAIN net = Fds /\ Requests \subseteq Fds
        BY RequestsFinite DEF BoaInv, TablesOK, InputsOK
      <3> QED BY <3>2, <3>3, <3>8, <3>9 DEF IdleInv
    <2> QED BY <2>1, <2>2
  <1>3. stage = "accept" => Head(todo) \in Requests
    BY AtHand
  <1>4. stage' \in {"accept", "dispose"} /\ ret' = -1 => Stalled(req'[Head(todo')])
    BY <1>1, <1>2, <1>3 DEF IdleInv
  <1>5. \A f \in ToSet(block') : req'[f] = req[f]
    BY <1>1, <1>2 DEF Requests
  <1>6. SizedSources(src') /\ ToSet(block') \subseteq ToSet(block)
    BY <1>1 DEF IdleInv
  <1> QED BY <1>2, <1>4, <1>5, <1>6, IdleKept
\* SIGTERM, which ends the persistent connections, leaves a sleeping request its reason.
LEMMA StalledSquash ==
    ASSUME NEW r, SizedRequest(r), Stalled(r)
    PROVE  Stalled(SQUASH_KA(r))
  <1>1. /\ SQUASH_KA(r).buf = r.buf /\ SQUASH_KA(r).start = r.start /\ SQUASH_KA(r).status = r.status
        /\ SQUASH_KA(r).parse_pos = r.parse_pos /\ SQUASH_KA(r).stream = r.stream
        /\ SQUASH_KA(r).filepos = r.filepos /\ SQUASH_KA(r).filesize = r.filesize
        /\ SQUASH_KA(r).data = r.data /\ SQUASH_KA(r).off = r.off
    BY DEF SQUASH_KA, SizedRequest
  <1> DEFINE q == SQUASH_KA(r)
  <1> HIDE DEF q
  <1>2. Stalled(q)
    BY <1>1 DEF Stalled, q
  <1> QED BY <1>2 DEF q

\* The handlers.
LEMMA IdleRun ==
    ASSUME BoaInv, IdleInv,
           \/ ReadHeader \/ ReadBody \/ WriteBody \/ ProcessGet \/ ReadFromPipe \/ WriteFromPipe
           \/ Flush \/ Done \/ Dead
    PROVE  IdleInv'
  <1>1. PICK f \in Requests : \E v :
              /\ stage = "handle" /\ f = Head(todo) /\ f \in Fds
              /\ Sized(v) /\ Rested(v) /\ Handled(f, v)
    BY RunSized
  <1>2. PICK v : /\ stage = "handle" /\ f = Head(todo) /\ f \in Fds
                 /\ Sized(v) /\ Rested(v) /\ Handled(f, v)
    BY <1>1
  <1> DEFINE q == IF sigterm_flag # 0 THEN SQUASH_KA(v.r) ELSE v.r
  <1>3. /\ req' = [req EXCEPT ![f] = q] /\ net' = [net EXCEPT ![f] = v.n] /\ src' = v.src
        /\ ret' = v.ret /\ UNCHANGED <<todo, block>>
    BY <1>2 DEF Handled
  <1>4. SizedRequest(v.r) /\ SizedNet(v.n) /\ SizedSources(v.src)
    BY <1>2, SizedParts
  <1>5. SizedRequest(q)
    BY <1>4, SizedWords
  <1>6. v.ret = -1 => Stalled(q)
    BY <1>2, <1>4, StalledSquash DEF Rested
  <1> HIDE DEF q
  <1>7. DOMAIN req = Fds /\ DOMAIN net = Fds /\ ToSet(block) \subseteq Fds /\ f \notin ToSet(block)
    <2>1. f \in ToSet(ready)
      BY <1>2, AtHand
    <2>2. /\ DOMAIN req = Fds /\ DOMAIN net = Fds /\ block \in Seq(Fds)
          /\ ToSet(ready) \cap ToSet(block) = {}
      BY DEF BoaInv, TablesOK, ListsOK, InputsOK
    <2>3. ToSet(block) \subseteq Fds
      BY <2>2 DEF ToSet
    <2> QED BY <2>1, <2>2, <2>3
  <1>8. req'[f] = q /\ net'[f] = v.n /\ \A g \in Fds \ {f} : req'[g] = req[g] /\ net'[g] = net[g]
    BY <1>2, <1>3, <1>7
  <1>9. \A g \in Fds : SizedRequest(req'[g]) /\ SizedNet(net'[g])
    BY <1>4, <1>5, <1>8 DEF IdleInv
  <1>10. \A g \in ToSet(block) : req'[g] = req[g]
    BY <1>7, <1>8
  <1>11. ret' = -1 => Stalled(req'[Head(todo')])
    BY <1>2, <1>3, <1>6, <1>8
  <1>12. ToSet(block') \subseteq ToSet(block) /\ ToSet(block') = ToSet(block) /\ SizedSources(src')
    BY <1>3, <1>4
  <1> QED BY <1>9, <1>10, <1>11, <1>12, IdleKept

\* What is done with a request that has been run: one that sleeps has the reason its
\* handler had, and the next one on a connection has read nothing yet.
LEMMA IdleDispose ==
    ASSUME BoaInv, IdleInv, Dispose
    PROVE  IdleInv'
  <1>1. PICK f \in Fds : f = Head(todo) /\ f \in ToSet(ready)
    BY AtHand DEF Dispose
  <1>2. stage = "dispose" /\ stage' \in {"poll", "handle"} /\ f \notin ToSet(block)
    BY <1>1 DEF Dispose, Round, BoaInv, ListsOK
  <1>3. /\ DOMAIN req = Fds /\ DOMAIN net = Fds /\ block \in Seq(Fds) /\ IsInjective(block)
        /\ ToSet(block) \subseteq Fds
    BY DEF BoaInv, TablesOK, InputsOK, ListsOK, ToSet
  <1>4. SizedRequest(req[f])
    BY DEF IdleInv
  <1>5. ASSUME NEW r, SizedRequest(r), \A g \in Fds \ {f} : req'[g] = req[g], req'[f] = r,
               \A g \in Fds : SizedNet(net'[g]), SizedSources(src'),
               UNCHANGED block \/ (block' = <<f>> \o block /\ Stalled(r))
        PROVE  IdleInv'
    <2>1. \A g \in Fds : SizedRequest(req'[g])
      BY <1>5 DEF IdleInv
    <2>2. \A g \in ToSet(block') : Stalled(req'[g])
      <3>1. \A g \in ToSet(block) : Stalled(req'[g])
        BY <1>2, <1>3, <1>5 DEF IdleInv
      <3>2. CASE UNCHANGED block
        BY <3>1, <3>2
      <3>3. CASE block' = <<f>> \o block /\ Stalled(r)
        <4>1. ToSet(block') = {f} \cup ToSet(block)
          BY <1>2, <1>3, <3>3, Enqueued
        <4> QED BY <1>5, <3>1, <3>3, <4>1
      <3> QED BY <1>5, <3>2, <3>3
    <2> QED BY <1>2, <1>5, <2>1, <2>2 DEF IdleInv
  <1>6. CASE ret = -1
    <2>1. block' = <<f>> \o block /\ UNCHANGED <<req, net, src>>
      BY <1>1, <1>6 DEF Dispose, data, block_request
    <2>2. Stalled(req[f])
      BY <1>1, <1>2, <1>6 DEF IdleInv
    <2>3. (\A g \in Fds : SizedNet(net'[g])) /\ SizedSources(src')
      BY <2>1 DEF IdleInv
    <2> QED BY <1>4, <1>5, <2>1, <2>2, <2>3
  <1>7. CASE ret # -1 /\ free_request(f)
    <2> DEFINE gone == IF Kept(req[f]) THEN Released(f) ELSE {f} \cup Released(f)
    <2>1. src' = [g \in AllFds |-> IF g \in gone THEN NoSrc ELSE src[g]]
      BY <1>7 DEF free_request
    <2>2. SizedSources(src')
      <3>1. "pipe" \in DOMAIN NoSrc /\ Listed(NoSrc.pipe)
        BY ListedNew DEF NoSrc
      <3> HIDE DEF gone
      <3> QED BY <2>1, <3>1 DEF IdleInv, SizedSources
    <2>3. CASE Kept(req[f])
      <3> DEFINE q == NextOn(req[f])
                 s == Drop(req[f].stream, req[f].parse_pos)
      <3>1. req' = [req EXCEPT ![f] = q] /\ block' = <<f>> \o block /\ UNCHANGED net
        BY <1>7, <2>3 DEF free_request
      <3>2. Listed(s)
        BY <1>4, ListedParts DEF SizedRequest
      <3>3. q = NewRequest(req[f].kacount - 1, s)
        BY DEF NextOn
      <3> HIDE DEF s, q
      <3>4. SizedRequest(q)
        BY <3>2, <3>3, SizedFresh
      <3>5. q.buf = <<>> /\ q.status = "READ_HEADER" /\ q.parse_pos = 0 /\ q.stream = s
        BY <3>3 DEF NewRequest
      <3>6. q.parse_pos >= Len(q.stream) => Len(q.stream) < CLIENT_STREAM_SIZE
        <4>1. Len(q.stream) \in Nat
          BY <3>2, <3>5, ListedParts
        <4> QED BY <3>5, <4>1, BoaAssumption
      <3>7. Stalled(q)
        BY <3>5, <3>6 DEF Stalled, Headers
      <3>8. req'[f] = q /\ \A g \in Fds \ {f} : req'[g] = req[g]
        BY <1>3, <3>1
      <3>9. \A g \in Fds : SizedNet(net'[g])
        BY <3>1 DEF IdleInv
      <3> QED BY <1>5, <2>2, <3>1, <3>4, <3>7, <3>8, <3>9
    <2>4. CASE ~Kept(req[f])
      <3>1. /\ req' = [req EXCEPT ![f] = NoReq] /\ net' = [net EXCEPT ![f] = NoNet]
            /\ UNCHANGED block
        BY <1>7, <2>4 DEF free_request
      <3>2. SizedRequest(NoReq) /\ SizedNet(NoNet)
        BY SizedFresh, ListedNew DEF NoReq
      <3>3. req'[f] = NoReq /\ \A g \in Fds \ {f} : req'[g] = req[g]
        BY <1>3, <3>1
      <3>4. \A g \in Fds : SizedNet(net'[g])
        BY <1>3, <3>1, <3>2 DEF IdleInv
      <3> QED BY <1>5, <2>2, <3>1, <3>2, <3>3, <3>4
    <2> QED BY <2>3, <2>4
  <1>8. CASE ret # -1 /\ ~free_request(f)
    <2> DEFINE done == [req[f] EXCEPT !.status = "DONE", !.age = 0]
               on == [req[f] EXCEPT !.age = 0]
    <2>1. /\ UNCHANGED <<block, net, src>>
          /\ \/ req' = [req EXCEPT ![f].status = "DONE", ![f].age = 0]
             \/ req' = [req EXCEPT ![f].age = 0]
      BY <1>1, <1>8 DEF Dispose
    <2>2. SizedRequest(done) /\ SizedRequest(on)
      BY <1>4 DEF SizedRequest
    <2>3. req' = [req EXCEPT ![f] = done] \/ req' = [req EXCEPT ![f] = on]
      BY <1>3, <2>1
    <2> HIDE DEF done, on
    <2>4. PICK r : r \in {done, on} /\ req' = [req EXCEPT ![f] = r]
      BY <2>3
    <2>5. SizedRequest(r) /\ req'[f] = r /\ \A g \in Fds \ {f} : req'[g] = req[g]
      BY <1>3, <2>2, <2>4
    <2>6. (\A g \in Fds : SizedNet(net'[g])) /\ SizedSources(src')
      BY <2>1 DEF IdleInv
    <2> QED BY <1>5, <2>1, <2>5, <2>6
  <1> QED BY <1>6, <1>7, <1>8
\* select, and the world around the server.
LEMMA IdleWorld ==
    ASSUME BoaInv, IdleInv, Poll \/ Select \/ World \/ (\E f \in Fds : Age(f)) \/ UNCHANGED vars
    PROVE  IdleInv'
  <1>1. DOMAIN req = Fds /\ DOMAIN net = Fds /\ \A f \in Fds : NetTyped(net[f])
    BY DEF BoaInv, TablesOK, InputsOK
  <1>2. CASE Poll \/ Select \/ Connect \/ Signal \/ UNCHANGED vars
    <2>1. /\ UNCHANGED <<block, req, net, src, ret, todo>>
          /\ stage' \in {"accept", "dispose"} => stage' = stage
      BY <1>2 DEF Poll, Select, Connect, Signal, vars, server, data
    <2> QED BY <2>1 DEF IdleInv
  <1>3. CASE \E f \in Live : Send(f) \/ Receive(f) \/ Leave(f)
    <2>1. PICK f \in Live : Send(f) \/ Receive(f) \/ Leave(f)
      BY <1>3
    <2>2. f \in Fds /\ SizedNet(net[f]) /\ NetTyped(net[f])
      BY <1>1 DEF Live, IdleInv
    <2>3. \E n : NetStep(f, n) /\ SizedNet(n)
      <3>1. CASE Send(f)
        <4> DEFINE s == net[f].inq \o Head(net[f].more)
                   n == [net[f] EXCEPT !.inq = s, !.more = Tail(net[f].more)]
        <4>1. NetStep(f, n) /\ net[f].more # <<>>
          BY <2>2, <3>1 DEF Send, NetTyped, NoNet
        <4>2. Listed(Head(net[f].more))
          <5>1. Head(net[f].more) \in Seq(Token)
            BY <2>2, <4>1 DEF NetTyped
          <5> QED BY <5>1, ListedAny
        <4>3. Listed(s)
          BY <2>2, <4>2, ListedParts DEF SizedNet
        <4> HIDE DEF s
        <4>4. SizedNet(n)
          BY <2>2, <4>3 DEF SizedNet
        <4> QED BY <4>1, <4>4
      <3>2. CASE Receive(f)
        <4> DEFINE n == [net[f] EXCEPT !.room = SndBuf]
        <4>1. NetStep(f, n)
          BY <3>2 DEF Receive
        <4>2. SizedNet(n)
          BY <2>2, BoaAssumption DEF SizedNet
        <4> QED BY <4>1, <4>2
      <3>3. CASE Leave(f)
        <4>1. PICK how : NetStep(f, [net[f] EXCEPT !.peer = how, !.more = <<>>])
          BY <3>3 DEF Leave
        <4>2. SizedNet([net[f] EXCEPT !.peer = how, !.more = <<>>])
          BY <2>2 DEF SizedNet
        <4> QED BY <4>1, <4>2
      <3> QED BY <2>1, <3>1, <3>2, <3>3
    <2>4. PICK n : NetStep(f, n) /\ SizedNet(n)
      BY <2>3
    <2>5. UNCHANGED <<block, req, src, ret, todo, stage>> /\ net' = [net EXCEPT ![f] = n]
      BY <2>4 DEF NetStep, server
    <2>6. \A g \in Fds : SizedNet(net'[g])
      BY <1>1, <2>4, <2>5 DEF IdleInv
    <2> QED BY <2>5, <2>6 DEF IdleInv
  <1>4. CASE \E f \in AllFds : Produce(f)
    <2>1. PICK f \in AllFds : Produce(f)
      BY <1>4
    <2>2. SizedSources(src) /\ DOMAIN src = AllFds /\ "pipe" \in DOMAIN src[f] /\ Listed(src[f].pipe)
      BY DEF IdleInv, SizedSources
    <2> DEFINE s == Append(src[f].pipe, Head(src[f].left))
               t == Tail(src[f].left)
               a == [src[f] EXCEPT !.pipe = s, !.left = t]
               b == [src[f] EXCEPT !.alive = "no"]
    <2>3. src' = [src EXCEPT ![f] = a] \/ src' = [src EXCEPT ![f] = b]
      <3>1. \/ src' = [src EXCEPT ![f].pipe = Append(@, Head(src[f].left)), ![f].left = Tail(@)]
            \/ src' = [src EXCEPT ![f].alive = "no"]
        BY <2>1 DEF Produce
      <3>2. CASE src' = [src EXCEPT ![f].pipe = Append(@, Head(src[f].left)), ![f].left = Tail(@)]
        BY <2>2, <3>2
      <3>3. CASE src' = [src EXCEPT ![f].alive = "no"]
        BY <2>2, <3>3
      <3> QED BY <3>1, <3>2, <3>3
    <2>4. Listed(s)
      BY <2>2, ListedParts
    <2> HIDE DEF s, t
    <2>5. /\ "pipe" \in DOMAIN a /\ Listed(a.pipe)
          /\ "pipe" \in DOMAIN b /\ Listed(b.pipe)
      BY <2>2, <2>4
    <2> HIDE DEF a, b
    <2>6. SizedSources(src')
      BY <2>2, <2>3, <2>5 DEF SizedSources
    <2>7. UNCHANGED <<block, req, net, ret, todo, stage>>
      BY <2>1 DEF Produce, server
    <2> QED BY <2>6, <2>7 DEF IdleInv
  <1>5. CASE \E f \in Fds : Age(f)
    <2>1. PICK f \in Fds : Age(f)
      BY <1>5
    <2> DEFINE older == req[f].age + 1
               r == [req[f] EXCEPT !.age = older]
    <2>2. UNCHANGED <<block, net, src, ret, todo, stage>> /\ req' = [req EXCEPT ![f].age = @ + 1]
      BY <2>1 DEF Age, server
    <2>3. req' = [req EXCEPT ![f] = r]
      BY <1>1, <2>2
    <2>4. SizedRequest(req[f])
      BY DEF IdleInv
    <2> HIDE DEF older
    <2>5. /\ r.buf = req[f].buf /\ r.start = req[f].start /\ r.status = req[f].status
          /\ r.parse_pos = req[f].parse_pos /\ r.stream = req[f].stream
          /\ r.filepos = req[f].filepos /\ r.filesize = req[f].filesize
          /\ r.data = req[f].data /\ r.off = req[f].off
      BY <2>4 DEF SizedRequest
    <2>6. SizedRequest(r)
      BY <2>4 DEF SizedRequest
    <2> HIDE DEF r
    <2>7. Stalled(req[f]) => Stalled(r)
      BY <2>5 DEF Stalled
    <2>8. req'[f] = r /\ \A g \in Fds \ {f} : req'[g] = req[g]
      BY <1>1, <2>3
    <2>9. \A g \in Fds : SizedRequest(req'[g])
      BY <2>6, <2>8 DEF IdleInv
    <2>10. ASSUME NEW g \in Fds, Stalled(req[g]) PROVE Stalled(req'[g])
      BY <2>7, <2>8, <2>10
    <2>11. ToSet(block) \subseteq Fds
      BY DEF BoaInv, ListsOK, ToSet
    <2>12. stage \in {"accept", "dispose"} => Head(todo) \in Fds
      BY AtHand
    <2>13. \A g \in ToSet(block) : Stalled(req'[g])
      BY <2>10, <2>11 DEF IdleInv
    <2>14. stage \in {"accept", "dispose"} /\ ret = -1 => Stalled(req'[Head(todo)])
      BY <2>10, <2>12 DEF IdleInv
    <2> QED BY <2>2, <2>9, <2>13, <2>14 DEF IdleInv
  <1> QED BY <1>2, <1>3, <1>4, <1>5 DEF World
\* Nothing to parse.
LEMMA ScannedNone ==
    ASSUME NEW w, NEW fault
    PROVE  Scanned(w, <<>>, fault) = w
  <1>1. ScannedBy(w, <<>>, fault)
    BY ScannedSteps
  <1> QED BY <1>1 DEF ScannedBy

\* A sleeping request whose descriptor is not ready: its handler, run once more, would wait
\* again.  What the handler waits for is what select is asked about.
LEMMA AsleepWaits ==
    ASSUME BoaInv, IdleInv, NEW f \in ToSet(block), ~SentAhead(req[f]),
           ~Available(Awaits(f, req[f]))
    PROVE  Pending(f).ret = -1
  <1> DEFINE r == req[f]
             w == Work(f)
  <1>1. f \in Requests /\ f \in Fds /\ RequestOK(r, open) /\ open[f] = "socket"
    <2>1. f \in Requests
      BY DEF Requests
    <2>2. Requests \subseteq Fds
      BY RequestsFinite DEF BoaInv
    <2>3. Requests = {g \in AllFds : open[g] = "socket"}
      BY DEF BoaInv, Accounted
    <2> QED BY <2>1, <2>2, <2>3 DEF BoaInv
  <1>2. SizedRequest(r) /\ SizedNet(net[f]) /\ Stalled(r)
    BY <1>1 DEF IdleInv
  <1>3. w.r = r /\ w.n = net[f] /\ w.ret = 1 /\ w.src = src /\ {"n", "r", "ret", "src"} \subseteq DOMAIN w
    BY DEF Work
  <1>4. [w EXCEPT !.ret = -1].ret = -1
    BY <1>3
  <1>5. /\ net[f].room \in Nat /\ Listed(net[f].inq) /\ Len(net[f].inq) \in Nat
        /\ r.start \in Int /\ Len(r.buf) \in Nat /\ Len(r.data) \in Nat /\ (r.data # <<>> => Len(r.data) > 0)
        /\ Len(r.stream) \in Nat /\ r.filesize \in Int /\ r.filepos \in Int /\ r.off \in Int
    BY <1>2, ListedParts DEF SizedRequest, SizedNet
  <1>6. SOCKETBUF_SIZE \in Nat \ {0} /\ CLIENT_STREAM_SIZE \in Nat /\ BUFFER_SIZE \in Nat
    BY BoaAssumption
  <1>7. ASSUME Awaits(f, r) = <<"w", f>>
        PROVE  net[f].room = 0 /\ net[f].peer # "reset"
    <2>1. ~CanWrite(f)
      BY <1>7 DEF Available
    <2> QED BY <1>5, <2>1 DEF CanWrite
  <1>8. ASSUME Awaits(f, r) = <<"r", f>>
        PROVE  net[f].inq = <<>> /\ net[f].peer = "open" /\ Len(net[f].inq) = 0
    <2>1. ~CanRead(f)
      BY <1>8 DEF Available
    <2> QED BY <1>1, <2>1 DEF CanRead
  <1>9. CASE (r.buf # <<>> \/ r.status = "DONE") /\ r.start < Len(r.buf) /\ r.status # "DEAD"
    <2>1. Awaits(f, r) = <<"w", f>>
      BY <1>9 DEF Awaits
    <2>2. Pending(f) = req_flush(w)
      BY <1>9 DEF Pending, Headers
    <2>3. Len(r.buf) - r.start > 0
      BY <1>5, <1>9
    <2>4. req_flush(w) = [w EXCEPT !.ret = -1]
      <3>1. w.r.status # "DEAD" /\ Len(w.r.buf) - w.r.start > 0 /\ w.n.peer # "reset" /\ w.n.room = 0
        BY <1>3, <1>7, <1>9, <2>1, <2>3
      <3> HIDE DEF w
      <3> QED BY <3>1 DEF req_flush
    <2> QED BY <1>4, <2>2, <2>4
  <1>10. CASE r.buf = <<>> /\ r.status \in Headers
    <2>1. Awaits(f, r) = <<"r", f>> /\ r.status # "DONE"
      BY <1>10 DEF Awaits, Headers
    <2>2. Pending(f) = read_header(w, "none")
      BY <1>10, <2>1 DEF Pending, Headers
    <2> DEFINE g == [w EXCEPT !.ret = Go]
               toks == Drop(r.stream, r.parse_pos)
    <2>11. r.parse_pos >= Len(r.stream)
      BY <1>2, <1>5, <1>10 DEF SentAhead, SizedRequest
    <2>3. toks = <<>>
      BY <1>2, <2>11 DEF Drop, SizedRequest, Listed
    <2>4. g.ret = Go /\ g.r = r /\ g.n = net[f] /\ {"n", "r", "ret", "src"} \subseteq DOMAIN g
          /\ [g EXCEPT !.ret = -1].ret = -1
      BY <1>3
    <2>5. read_header(w, "none") = AfterScan(Scanned(g, toks, "none"))
      BY <1>3 DEF read_header
    <2> HIDE DEF g, toks
    <2>6. Scanned(g, toks, "none") = g
      BY <2>3, ScannedNone
    <2>7. read_header(w, "none") = ReadMore(g)
      BY <2>4, <2>5, <2>6 DEF AfterScan
    <2>8. Len(r.stream) < CLIENT_STREAM_SIZE
      <3>1. "READ_HEADER" \in Headers /\ {"WRITE", "BODY_READ", "PIPE_READ", "PIPE_WRITE"} \cap Headers = {}
        BY DEF Headers
      <3> QED BY <1>2, <1>10, <2>1, <2>11, <3>1 DEF Stalled
    <2>9. ~(Len(r.stream) >= CLIENT_STREAM_SIZE)
          /\ ~(Least(CLIENT_STREAM_SIZE - Len(r.stream), Len(net[f].inq)) > 0)
      BY <1>5, <1>6, <1>8, <2>1, <2>8 DEF Least
    <2>10. ReadMore(g) = [g EXCEPT !.ret = -1]
      BY <1>8, <2>1, <2>4, <2>9 DEF ReadMore
    <2> QED BY <2>2, <2>4, <2>7, <2>10
  <1>11. CASE r.buf = <<>> /\ r.status = "BODY_READ" /\ r.filepos # r.filesize /\ Len(r.data) # BUFFER_SIZE
    <2>1. Awaits(f, r) = <<"r", f>>
      BY <1>11 DEF Awaits
    <2>2. Pending(f) = read_body(w)
      BY <1>11 DEF Pending, Headers
    <2> DEFINE k == Least(Least(r.filesize - r.filepos, BUFFER_SIZE - Len(r.data)), Len(net[f].inq))
    <2>3. ~(k > 0)
      <3> DEFINE n == Len(r.data)
      <3>3. r.filesize \in Int /\ r.filepos \in Int /\ n \in Int /\ BUFFER_SIZE \in Int
        BY <1>5, <1>6
      <3> HIDE DEF r, n
      <3>1. r.filesize - r.filepos \in Int /\ BUFFER_SIZE - n \in Int
        BY <3>3
      <3> USE DEF r, n
      <3>2. Least(r.filesize - r.filepos, BUFFER_SIZE - Len(r.data)) \in Int
        BY <3>1, LeastOf
      <3> QED BY <1>8, <2>1, <3>2 DEF Least
    <2>4. read_body(w) = [w EXCEPT !.ret = -1]
      <3> HIDE DEF w
      <3> QED BY <1>3, <1>8, <1>11, <2>1, <2>3 DEF read_body
    <2> QED BY <1>4, <2>2, <2>4
  <1>12. CASE r.buf = <<>> /\ r.status = "WRITE" /\ r.filepos < r.filesize
    <2>1. Awaits(f, r) = <<"w", f>>
      BY <1>12 DEF Awaits
    <2>2. Pending(f) = process_get(w, "none")
      BY <1>12 DEF Pending, Headers
    <2> DEFINE k == Least(Least(r.filesize - r.filepos, SOCKETBUF_SIZE), net[f].room)
    <2>3. k = 0
      BY <1>5, <1>6, <1>7, <1>12, <2>1 DEF Least
    <2>4. process_get(w, "none") = [w EXCEPT !.ret = -1]
      <3> HIDE DEF w
      <3> QED BY <1>3, <1>7, <1>12, <2>1, <2>3 DEF process_get
    <2> QED BY <1>4, <2>2, <2>4
  <1>13. CASE r.buf = <<>> /\ r.status = "PIPE_READ" /\ BUFFER_SIZE - (r.off + Len(r.data)) # 0
    <2>1. Awaits(f, r) = <<"r", r.data_fd>>
      BY <1>13 DEF Awaits
    <2>2. Pending(f) = read_from_pipe(w)
      BY <1>13 DEF Pending, Headers
    <2>3. ~CanRead(r.data_fd)
      BY <2>1 DEF Available
    <2>4. r.data_fd \in AllFds /\ open[r.data_fd] \in {"pipe", "file"}
      BY <1>1, <1>13 DEF RequestOK, Pipes
    <2>5. src[r.data_fd].pipe = <<>> /\ src[r.data_fd].alive = "yes"
      BY <2>3, <2>4 DEF CanRead
    <2> DEFINE room == BUFFER_SIZE - (r.off + Len(r.data))
               k == Least(room, Len(src[r.data_fd].pipe))
    <2>6. ~(k > 0)
      <3>1. Len(src[r.data_fd].pipe) = 0 /\ room \in Int
        BY <1>5, <1>6, <2>5
      <3> HIDE DEF room
      <3> QED BY <3>1 DEF Least
    <2>7. read_from_pipe(w) = [w EXCEPT !.ret = -1]
      <3> HIDE DEF w
      <3> QED BY <1>3, <1>13, <2>5, <2>6 DEF read_from_pipe
    <2> QED BY <1>4, <2>2, <2>7
  <1>14. CASE r.buf = <<>> /\ r.status = "PIPE_WRITE" /\ r.data # <<>>
    <2>1. Awaits(f, r) = <<"w", f>>
      BY <1>14 DEF Awaits
    <2>2. Pending(f) = write_from_pipe(w)
      BY <1>14 DEF Pending, Headers
    <2> DEFINE k == Least(Len(r.data), net[f].room)
    <2>3. k = 0
      BY <1>5, <1>7, <1>14, <2>1 DEF Least
    <2>4. write_from_pipe(w) = [w EXCEPT !.ret = -1]
      <3> HIDE DEF w
      <3> QED BY <1>3, <1>7, <1>14, <2>1, <2>3 DEF write_from_pipe
    <2> QED BY <1>4, <2>2, <2>4
  <1> QED BY <1>2, <1>9, <1>10, <1>11, <1>12, <1>13, <1>14 DEF Stalled

\* The sizes, and the reasons of the requests that sleep, stay so.
LEMMA Idles == Spec => []IdleInv
  <1>1. Init => IdleInv
    <2> SUFFICES ASSUME Init PROVE IdleInv
      OBVIOUS
    <2>1. /\ stage = "signals" /\ block = <<>>
          /\ req = [f \in Fds |-> NoReq] /\ net = [f \in Fds |-> NoNet]
          /\ src = [f \in AllFds |-> NoSrc]
      BY DEF Init
    <2>2. ToSet(block) = {}
      BY <2>1 DEF ToSet
    <2>3. SizedRequest(NoReq) /\ SizedNet(NoNet)
      BY SizedFresh, ListedNew DEF NoReq
    <2>4. SizedSources(src)
      BY <2>1, ListedNew DEF SizedSources, NoSrc
    <2> QED BY <2>1, <2>2, <2>3, <2>4 DEF IdleInv
  <1>2. BoaInv /\ WatchInv /\ IdleInv /\ [Next]_vars => IdleInv'
    <2> SUFFICES ASSUME BoaInv, WatchInv, IdleInv, [Next]_vars PROVE IdleInv'
      OBVIOUS
    <2>1. CASE Server
      BY <2>1, IdleTop, IdleTake, IdleWorld, IdleDispose, IdleRun DEF Server
    <2>2. CASE World \/ (\E f \in Fds : Age(f)) \/ UNCHANGED vars
      BY <2>2, IdleWorld
    <2> QED BY <2>1, <2>2 DEF Next
  <1> QED BY <1>1, <1>2, Safe, Watched, PTL DEF Spec

\* The server does not sleep while a blocked request could go on: each handler returns -1
\* only for a reason of its own (read.c, pipe.c, get.c, buffer.c), block_request and
\* fdset_update ask about the descriptor that would end it, and nothing that happens to
\* the request, the sets or the other requests in between parts the two. Excepted is a
\* request whose bytes were SentAhead, before the answer to the last one was done.
THEOREM SleepIsIdle == Spec => []SleepsOnlyIdle
  <1>1. BoaInv /\ WatchInv /\ IdleInv => SleepsOnlyIdle
    <2> SUFFICES ASSUME BoaInv, WatchInv, IdleInv, stage = "select", NEW f \in ToSet(block),
                        Pending(f).ret # -1, ~SentAhead(req[f])
                 PROVE  \E b \in bits : Available(b) /\ b[2] <= max_fd
      BY DEF SleepsOnlyIdle
    <2>1. Available(Awaits(f, req[f]))
      BY AsleepWaits
    <2>2. Awaits(f, req[f]) \in bits /\ Awaits(f, req[f])[2] <= max_fd
      BY DEF WatchInv, SleepersWatched
    <2> QED BY <2>1, <2>2
  <1> QED BY <1>1, Idles, Safe, Watched, PTL
-----------------------------------------------------------------------------
(* Sequences of tokens, and the shape of an answer.                        *)

\* Two sequences put together.
LEMMA ListedJoin ==
    ASSUME NEW s, NEW t, Listed(s), Listed(t)
    PROVE  /\ Listed(s \o t) /\ Len(s \o t) = Len(s) + Len(t)
           /\ Len(s) \in Nat /\ Len(t) \in Nat
           /\ \A i \in 1..Len(s) : (s \o t)[i] = s[i]
           /\ \A i \in 1..Len(t) : (s \o t)[Len(s) + i] = t[i]
  <1> DEFINE U == ToSet(s) \cup ToSet(t)
  <1>1. s \in Seq(U) /\ t \in Seq(U)
    BY SeqMonotonic DEF Listed
  <1> HIDE DEF U
  <1>2. /\ s \o t \in Seq(U) /\ Len(s \o t) = Len(s) + Len(t)
        /\ Len(s) \in Nat /\ Len(t) \in Nat
        /\ \A i \in 1..(Len(s) + Len(t)) :
              (s \o t)[i] = IF i <= Len(s) THEN s[i] ELSE t[i - Len(s)]
    BY <1>1, ConcatProperties, LenProperties
  <1>3. ASSUME NEW i \in 1..Len(s) PROVE (s \o t)[i] = s[i]
    BY <1>2
  <1>4. ASSUME NEW i \in 1..Len(t) PROVE (s \o t)[Len(s) + i] = t[i]
    <2>1. Len(s) + i \in 1..(Len(s) + Len(t)) /\ ~(Len(s) + i <= Len(s)) /\ Len(s) + i - Len(s) = i
      BY <1>2
    <2> QED BY <1>2, <2>1
  <1>5. Listed(s \o t)
    BY <1>2, ListedAny
  <1> QED BY <1>2, <1>3, <1>4, <1>5

\* Sequences with the same tokens are the same.
LEMMA ListedEqual ==
    ASSUME NEW s, NEW t, Listed(s), Listed(t), Len(s) = Len(t), \A i \in 1..Len(s) : s[i] = t[i]
    PROVE  s = t
  <1> DEFINE U == ToSet(s) \cup ToSet(t)
  <1>1. s \in Seq(U) /\ t \in Seq(U)
    BY SeqMonotonic DEF Listed
  <1> HIDE DEF U
  <1> QED BY <1>1, SeqEqual

\* In whatever order they are put together.
LEMMA ListedThree ==
    ASSUME NEW s, NEW t, NEW u, Listed(s), Listed(t), Listed(u)
    PROVE  (s \o t) \o u = s \o (t \o u)
  <1> DEFINE U == ToSet(s) \cup ToSet(t) \cup ToSet(u)
  <1>1. s \in Seq(U) /\ t \in Seq(U) /\ u \in Seq(U)
    BY SeqMonotonic DEF Listed
  <1> HIDE DEF U
  <1> QED BY <1>1, ConcatAssociative

\* Nothing, put in front or at the end.
LEMMA ListedNone ==
    ASSUME NEW s, Listed(s)
    PROVE  s \o <<>> = s /\ <<>> \o s = s
  <1>1. s \in Seq(ToSet(s))
    BY DEF Listed
  <1> QED BY <1>1, ConcatEmptySeq

\* A sequence cut in two.
LEMMA ListedHalves ==
    ASSUME NEW s, Listed(s), NEW k \in 0..Len(s)
    PROVE  /\ Listed(Take(s, k)) /\ Len(Take(s, k)) = k
           /\ Listed(Drop(s, k)) /\ Len(Drop(s, k)) = Len(s) - k
           /\ \A i \in 1..k : Take(s, k)[i] = s[i]
           /\ \A i \in 1..(Len(s) - k) : Drop(s, k)[i] = s[k + i]
           /\ Take(s, k) \o Drop(s, k) = s
  <1>1. Len(s) \in Nat /\ s \in Seq(ToSet(s))
    BY ListedParts DEF Listed
  <1>2. \A i \in 1..Len(s) : s[i] \in ToSet(s)
    BY <1>1
  <1>3. /\ Listed(Take(s, k)) /\ Len(Take(s, k)) = k
        /\ \A i \in 1..k : Take(s, k)[i] = s[i]
    <2>1. \A i \in 1..k : s[i] \in ToSet(s)
      BY <1>1, <1>2
    <2>2. /\ Len(SubSeq(s, 1, k)) = IF 1 <= k THEN k - 1 + 1 ELSE 0
          /\ \A i \in 1..(k - 1 + 1) : SubSeq(s, 1, k)[i] = s[1 + i - 1]
      BY <1>1, <2>1, SubSeqProperties
    <2>3. Listed(Take(s, k))
      BY <1>1, ListedParts
    <2> QED BY <1>1, <2>2, <2>3 DEF Take
  <1>4. /\ Listed(Drop(s, k)) /\ Len(Drop(s, k)) = Len(s) - k
        /\ \A i \in 1..(Len(s) - k) : Drop(s, k)[i] = s[k + i]
    <2>1. \A i \in (k + 1)..Len(s) : s[i] \in ToSet(s)
      BY <1>1, <1>2
    <2>2. /\ Len(SubSeq(s, k + 1, Len(s))) = IF k + 1 <= Len(s) THEN Len(s) - (k + 1) + 1 ELSE 0
          /\ \A i \in 1..(Len(s) - (k + 1) + 1) : SubSeq(s, k + 1, Len(s))[i] = s[k + 1 + i - 1]
      BY <1>1, <2>1, SubSeqProperties
    <2>3. Listed(Drop(s, k))
      BY <1>1, ListedParts
    <2> QED BY <1>1, <2>2, <2>3 DEF Drop
  <1>5. Take(s, k) \o Drop(s, k) = s
    <2> DEFINE a == Take(s, k)
               b == Drop(s, k)
    <2>1. /\ Listed(a) /\ Listed(b) /\ Len(a) = k /\ Len(b) = Len(s) - k
          /\ \A i \in 1..k : a[i] = s[i]
          /\ \A i \in 1..(Len(s) - k) : b[i] = s[k + i]
      BY <1>3, <1>4
    <2> HIDE DEF a, b
    <2>2. /\ Listed(a \o b) /\ Len(a \o b) = Len(a) + Len(b)
          /\ \A i \in 1..Len(a) : (a \o b)[i] = a[i]
          /\ \A i \in 1..Len(b) : (a \o b)[Len(a) + i] = b[i]
      BY <2>1, ListedJoin
    <2>3. Len(a \o b) = Len(s)
      BY <1>1, <2>1, <2>2
    <2>4. ASSUME NEW i \in 1..k PROVE (a \o b)[i] = s[i]
      BY <2>1, <2>2
    <2>5. ASSUME NEW i \in 1..(Len(s) - k) PROVE (a \o b)[k + i] = s[k + i]
      <3>1. (a \o b)[Len(a) + i] = b[i] /\ b[i] = s[k + i]
        BY <2>1, <2>2
      <3> QED BY <2>1, <3>1
    <2>6. ASSUME NEW i \in 1..Len(s) PROVE (a \o b)[i] = s[i]
      <3>1. CASE i <= k
        <4>1. i \in 1..k
          BY <1>1, <3>1
        <4> QED BY <2>4, <4>1
      <3>2. CASE i > k
        <4>1. PICK j \in 1..(Len(s) - k) : i = k + j
          <5>1. i - k \in 1..(Len(s) - k) /\ i = k + (i - k)
            BY <1>1, <3>2
          <5> QED BY <5>1
        <4> QED BY <2>5, <4>1
      <3>3. i <= k \/ i > k
        BY <1>1
      <3> QED BY <3>1, <3>2, <3>3, Zenon
    <2>7. Listed(a \o b)
      BY <2>2
    <2>8. a \o b = s
      BY <2>3, <2>6, <2>7, ListedEqual
    <2> QED BY <2>8 DEF a, b
  <1> QED BY <1>3, <1>4, <1>5

\* Where a cut may be made.
LEMMA ListedDrops ==
    ASSUME NEW s, Listed(s)
    PROVE  /\ Drop(s, 0) = s /\ Drop(s, Len(s)) = <<>> /\ Take(s, Len(s)) = s /\ Take(s, 0) = <<>>
           /\ \A k \in Nat : Drop(<<>>, k) = <<>>
  <1>1. Len(s) \in Nat /\ s \in Seq(ToSet(s))
    BY ListedParts DEF Listed
  <1>2. Drop(s, 0) = s /\ Take(s, Len(s)) = s
    BY <1>1, SubSeqFull DEF Drop, Take
  <1>3. Drop(s, Len(s)) = <<>> /\ Take(s, 0) = <<>>
    BY <1>1, SubSeqEmpty DEF Drop, Take
  <1>4. ASSUME NEW k \in Nat PROVE Drop(<<>>, k) = <<>>
    <2>1. Len(<<>>) < k + 1 /\ k + 1 \in Int /\ Len(<<>>) \in Int
      BY ListedNew
    <2> QED BY <2>1, SubSeqEmpty DEF Drop
  <1> QED BY <1>2, <1>3, <1>4

\* Of two cuts.
LEMMA DropTwice ==
    ASSUME NEW s, Listed(s), NEW k \in 0..Len(s), NEW j \in 0..(Len(s) - k)
    PROVE  Drop(Drop(s, k), j) = Drop(s, k + j)
  <1>0. Len(s) \in Nat
    BY ListedParts
  <1> DEFINE a == Drop(s, k)
             b == Drop(a, j)
             c == Drop(s, k + j)
  <1>1. k + j \in 0..Len(s) /\ k \in Nat /\ j \in Nat
    BY <1>0
  <1>2. Listed(a) /\ Len(a) = Len(s) - k /\ \A i \in 1..(Len(s) - k) : a[i] = s[k + i]
    BY ListedHalves
  <1>3. Listed(c) /\ Len(c) = Len(s) - (k + j) /\ \A i \in 1..(Len(s) - (k + j)) : c[i] = s[(k + j) + i]
    BY <1>1, ListedHalves
  <1> HIDE DEF a
  <1>4. j \in 0..Len(a)
    BY <1>2
  <1>5. Listed(b) /\ Len(b) = Len(a) - j /\ \A i \in 1..(Len(a) - j) : b[i] = a[j + i]
    BY <1>2, <1>4, ListedHalves
  <1> HIDE DEF b, c
  <1>6. Len(b) = Len(c)
    BY <1>0, <1>1, <1>2, <1>3, <1>5
  <1>7. ASSUME NEW i \in 1..Len(b) PROVE b[i] = c[i]
    <2>1. /\ i \in 1..(Len(a) - j) /\ i \in 1..(Len(s) - (k + j)) /\ j + i \in 1..(Len(s) - k)
          /\ k + (j + i) = (k + j) + i
      BY <1>0, <1>1, <1>2, <1>3, <1>5
    <2>2. b[i] = a[j + i] /\ a[j + i] = s[k + (j + i)] /\ c[i] = s[(k + j) + i]
      BY <1>2, <1>3, <1>5, <2>1
    <2> QED BY <2>1, <2>2
  <1>8. b = c
    BY <1>3, <1>5, <1>6, <1>7, ListedEqual
  <1> QED BY <1>8 DEF a, b, c

\* What is appended is appended to what is left.
LEMMA DropJoin ==
    ASSUME NEW s, NEW t, NEW k \in 0..Len(s), Listed(s), Listed(t)
    PROVE  Drop(s \o t, k) = Drop(s, k) \o t
  <1>0. Len(s) \in Nat
    BY ListedParts
  <1> DEFINE b == Drop(s, k)
             u == s \o t
             c == Drop(u, k)
             d == b \o t
  <1>1. /\ Listed(b) /\ Len(b) = Len(s) - k
        /\ \A i \in 1..(Len(s) - k) : b[i] = s[k + i]
    BY ListedHalves
  <1>2. /\ Listed(u) /\ Len(u) = Len(s) + Len(t) /\ Len(t) \in Nat
        /\ \A i \in 1..Len(s) : u[i] = s[i]
        /\ \A i \in 1..Len(t) : u[Len(s) + i] = t[i]
    BY ListedJoin
  <1> HIDE DEF b, u
  <1>3. k \in 0..Len(u)
    BY <1>0, <1>2
  <1>4. Listed(c) /\ Len(c) = Len(u) - k /\ \A i \in 1..(Len(u) - k) : c[i] = u[k + i]
    BY <1>2, <1>3, ListedHalves
  <1>5. /\ Listed(d) /\ Len(d) = Len(b) + Len(t)
        /\ \A i \in 1..Len(b) : d[i] = b[i]
        /\ \A i \in 1..Len(t) : d[Len(b) + i] = t[i]
    <2>1. Listed(b) /\ Listed(t)
      BY <1>1
    <2> QED BY <2>1, ListedJoin
  <1> HIDE DEF c, d
  <1>6. Len(c) = Len(d)
    BY <1>0, <1>1, <1>2, <1>4, <1>5
  <1>7. ASSUME NEW i \in 1..Len(c) PROVE c[i] = d[i]
    <2>1. CASE i <= Len(b)
      <3>1. i \in 1..Len(b) /\ i \in 1..(Len(s) - k) /\ k + i \in 1..Len(s) /\ i \in 1..(Len(u) - k)
        BY <1>0, <1>1, <1>2, <1>4, <2>1
      <3>2. c[i] = u[k + i] /\ u[k + i] = s[k + i] /\ d[i] = b[i] /\ b[i] = s[k + i]
        BY <1>1, <1>2, <1>4, <1>5, <3>1
      <3> QED BY <3>2
    <2>2. CASE i > Len(b)
      <3> DEFINE j == i - Len(b)
      <3>1. /\ j \in 1..Len(t) /\ i = Len(b) + j /\ k + i = Len(s) + j /\ i \in 1..(Len(u) - k)
        BY <1>0, <1>1, <1>2, <1>4, <2>2
      <3> HIDE DEF j
      <3>2. c[i] = u[k + i]
        BY <1>4, <3>1
      <3>3. u[Len(s) + j] = t[j] /\ d[Len(b) + j] = t[j]
        BY <1>2, <1>5, <3>1
      <3> QED BY <3>1, <3>2, <3>3
    <2>3. i <= Len(b) \/ i > Len(b)
      BY <1>0, <1>1, <1>4
    <2> QED BY <2>1, <2>2, <2>3, Zenon
  <1>8. c = d
    BY <1>4, <1>5, <1>6, <1>7, ListedEqual
  <1> QED BY <1>8 DEF b, c, d, u

\* A piece of a document.
LEMMA DataTokens ==
    ASSUME NEW m \in Int, NEW n \in Int, n - m + 1 >= 0
    PROVE  /\ Listed(Data(m, n)) /\ Len(Data(m, n)) = n - m + 1
           /\ \A i \in 1..(n - m + 1) : Data(m, n)[i] = Tok("data", m + i - 1)
  <1>1. Listed(Data(m, n))
    BY ListedNew
  <1>2. DOMAIN Data(m, n) = 1..(n - m + 1) /\ n - m + 1 \in Nat
    BY DEF Data
  <1>3. Data(m, n) \in Seq(ToSet(Data(m, n)))
    BY <1>1 DEF Listed
  <1>4. DOMAIN Data(m, n) = 1..Len(Data(m, n)) /\ Len(Data(m, n)) \in Nat
    BY <1>3, LenProperties
  <1>5. Len(Data(m, n)) = n - m + 1
    <2> DEFINE x == Len(Data(m, n))
               y == n - m + 1
    <2>1. 1..x = 1..y /\ x \in Nat /\ y \in Nat
      BY <1>2, <1>4
    <2> HIDE DEF x, y
    <2>2. x = y
      BY <2>1
    <2> QED BY <2>2 DEF x, y
  <1>6. \A i \in 1..(n - m + 1) : Data(m, n)[i] = Tok("data", m + i - 1)
    BY DEF Data
  <1> QED BY <1>1, <1>5, <1>6

\* Tokens, by what they are.
NoData(a) == \A i \in 1..Len(a) : a[i].t # "data"
NoStatus(a) == \A i \in 1..Len(a) : a[i].t \notin {"keep", "close"}

\* What has no document in it is of the right shape.
LEMMA ShapedNone ==
    ASSUME NEW a, Listed(a), NoData(a)
    PROVE  Shaped(a, Len(a)) /\ \E k \in 0..Len(a) : Shaped(a, k)
  <1>1. Len(a) \in Nat
    BY ListedParts
  <1>2. Shaped(a, Len(a))
    BY <1>1 DEF Shaped, NoData
  <1>3. Len(a) \in 0..Len(a)
    BY <1>1
  <1> QED BY <1>2, <1>3

\* Every answer that is right stays so when its end is yet to be said.
LEMMA ShapedFront ==
    ASSUME NEW a, NEW b, Listed(a), Listed(b)
    PROVE  /\ \A k : Shaped(a \o b, k) => \E m \in 0..Len(a) : Shaped(a, m)
           /\ OneStatus(a \o b) => OneStatus(a)
           /\ NoData(a \o b) => NoData(a)
           /\ NoStatus(a \o b) => NoStatus(a) /\ NoStatus(b)
  <1> DEFINE c == a \o b
  <1>1. /\ Len(a) \in Nat /\ Len(b) \in Nat /\ Len(c) = Len(a) + Len(b)
        /\ \A i \in 1..Len(a) : c[i] = a[i]
        /\ \A i \in 1..Len(b) : c[Len(a) + i] = b[i]
    BY ListedJoin
  <1> HIDE DEF c
  <1>2. ASSUME NEW k, Shaped(c, k) PROVE \E m \in 0..Len(a) : Shaped(a, m)
    <2> DEFINE m == IF k <= Len(a) THEN k ELSE Len(a)
    <2>1. k \in Nat /\ k <= Len(c)
      BY <1>1, <1>2 DEF Shaped
    <2>2. m \in 0..Len(a) /\ m <= k /\ (m < Len(a) => m = k)
      BY <1>1, <2>1
    <2> HIDE DEF m
    <2>3. \A i \in 1..m : a[i].t # "data"
      BY <1>1, <1>2, <2>1, <2>2 DEF Shaped
    <2>4. ASSUME NEW i \in (m + 1)..Len(a) PROVE a[i] = Tok("data", i - m)
      <3>1. m = k /\ i \in (k + 1)..Len(c) /\ i \in 1..Len(a)
        BY <1>1, <2>1, <2>2
      <3>2. c[i] = Tok("data", i - k) /\ c[i] = a[i]
        BY <1>1, <1>2, <3>1 DEF Shaped
      <3> QED BY <3>1, <3>2
    <2>5. ASSUME m < Len(a), NEW i \in 1..m PROVE a[i].t # "page"
      <3>1. m = k /\ k < Len(c) /\ i \in 1..Len(a)
        BY <1>1, <2>1, <2>2, <2>5
      <3>2. c[i].t # "page" /\ c[i] = a[i]
        BY <1>1, <1>2, <2>5, <3>1 DEF Shaped
      <3> QED BY <3>2
    <2>6. Shaped(a, m)
      BY <2>2, <2>3, <2>4, <2>5 DEF Shaped
    <2> QED BY <2>2, <2>6
  <1>3. OneStatus(c) => OneStatus(a)
    BY <1>1 DEF OneStatus
  <1>4. NoData(c) => NoData(a)
    BY <1>1 DEF NoData
  <1>5. ASSUME NoStatus(c) PROVE NoStatus(a) /\ NoStatus(b)
    <2>1. NoStatus(a)
      BY <1>1, <1>5 DEF NoStatus
    <2>2. ASSUME NEW i \in 1..Len(b) PROVE b[i].t \notin {"keep", "close"}
      <3>1. Len(a) + i \in 1..Len(c)
        BY <1>1
      <3>2. c[Len(a) + i].t \notin {"keep", "close"} /\ c[Len(a) + i] = b[i]
        BY <1>1, <1>5, <3>1 DEF NoStatus
      <3> QED BY <3>2
    <2> QED BY <2>1, <2>2 DEF NoStatus
  <1> QED BY <1>2, <1>3, <1>4, <1>5 DEF c
\* One token.
LEMMA OneToken ==
    ASSUME NEW x
    PROVE  /\ Listed(<<x>>) /\ Len(<<x>>) = 1 /\ <<x>>[1] = x /\ <<x>> # <<>>
           /\ x.t # "data" => NoData(<<x>>)
           /\ NoData(<<>>) /\ OneStatus(<<x>>) /\ OneStatus(<<>>) /\ NoStatus(<<>>)
  <1>1. Listed(<<x>>) /\ Len(<<x>>) = 1 /\ <<x>>[1] = x /\ <<x>> # <<>>
    BY ListedNew
  <1>2. Len(<<>>) = 0
    BY ListedNew
  <1>3. \A i \in 1..1 : i = 1
    OBVIOUS
  <1>4. x.t # "data" => NoData(<<x>>)
    BY <1>1, <1>3 DEF NoData
  <1>5. 1..0 = {} /\ 2..0 = {} /\ 2..1 = {}
    OBVIOUS
  <1>6. NoData(<<>>) /\ NoStatus(<<>>)
    BY <1>2, <1>5 DEF NoData, NoStatus
  <1>7. OneStatus(<<x>>)
    BY <1>1, <1>5 DEF OneStatus
  <1>8. OneStatus(<<>>)
    BY <1>2, <1>5 DEF OneStatus
  <1> QED BY <1>1, <1>4, <1>6, <1>7, <1>8

\* A header in front of what is of the right shape.
LEMMA ShapedCons ==
    ASSUME NEW x, NEW a, Listed(a), x.t \notin {"data", "page"}, NEW k, Shaped(a, k)
    PROVE  Shaped(<<x>> \o a, k + 1)
  <1> DEFINE c == <<x>> \o a
  <1>1. Listed(<<x>>) /\ Len(<<x>>) = 1 /\ <<x>>[1] = x
    BY OneToken
  <1>2. /\ Len(c) = 1 + Len(a) /\ Len(a) \in Nat
        /\ \A i \in 1..1 : c[i] = <<x>>[i]
        /\ \A i \in 1..Len(a) : c[1 + i] = a[i]
    BY <1>1, ListedJoin
  <1> HIDE DEF c
  <1>3. c[1] = x
    <2>1. 1 \in 1..1
      OBVIOUS
    <2> QED BY <1>1, <1>2, <2>1
  <1>4. k \in 0..Len(a) /\ k \in Nat
    BY <1>2 DEF Shaped
  <1>5. ASSUME NEW i \in 2..Len(c) PROVE c[i] = a[i - 1] /\ i - 1 \in 1..Len(a)
    <2> DEFINE j == i - 1
    <2>1. j \in 1..Len(a) /\ i = 1 + j
      BY <1>2
    <2> HIDE DEF j
    <2>2. c[1 + j] = a[j]
      BY <1>2, <2>1
    <2>3. c[i] = a[j] /\ j \in 1..Len(a)
      BY <2>1, <2>2
    <2> QED BY <2>3 DEF j
  <1>6. ASSUME NEW i \in 1..(k + 1) PROVE c[i].t # "data" /\ (k < Len(a) => c[i].t # "page")
    <2>1. CASE i = 1
      BY <1>3, <2>1
    <2>2. CASE i # 1
      <3>1. i \in 2..Len(c) /\ i - 1 \in 1..k
        BY <1>2, <1>4, <2>2
      <3>2. a[i - 1].t # "data" /\ (k < Len(a) => a[i - 1].t # "page")
        BY <3>1 DEF Shaped
      <3>3. c[i] = a[i - 1]
        BY <1>5, <3>1
      <3> QED BY <3>2, <3>3
    <2> QED BY <2>1, <2>2
  <1>7. ASSUME NEW i \in (k + 2)..Len(c) PROVE c[i] = Tok("data", i - (k + 1))
    <2>1. i \in 2..Len(c) /\ i - 1 \in (k + 1)..Len(a) /\ (i - 1) - k = i - (k + 1)
      BY <1>2, <1>4
    <2>2. a[i - 1] = Tok("data", (i - 1) - k)
      BY <2>1 DEF Shaped
    <2>3. c[i] = a[i - 1]
      BY <1>5, <2>1
    <2> QED BY <2>1, <2>2, <2>3
  <1>8. k + 1 \in 0..Len(c) /\ (k + 1 < Len(c) => k < Len(a)) /\ (k + 1) + 1 = k + 2
    BY <1>2, <1>4
  <1>9. /\ \A i \in 1..(k + 1) : c[i].t # "data"
        /\ \A i \in ((k + 1) + 1)..Len(c) : c[i] = Tok("data", i - (k + 1))
        /\ k + 1 < Len(c) => \A i \in 1..(k + 1) : c[i].t # "page"
    BY <1>6, <1>7, <1>8
  <1>10. Shaped(c, k + 1)
    BY <1>8, <1>9 DEF Shaped
  <1> QED BY <1>10 DEF c

\* A status line in front of what has none.
LEMMA ConsStatus ==
    ASSUME NEW x, NEW a, Listed(a), NoStatus(a)
    PROVE  OneStatus(<<x>> \o a)
  <1> DEFINE c == <<x>> \o a
  <1>1. Listed(<<x>>) /\ Len(<<x>>) = 1
    BY OneToken
  <1>2. /\ Len(c) = 1 + Len(a) /\ Len(a) \in Nat
        /\ \A i \in 1..Len(a) : c[1 + i] = a[i]
    BY <1>1, ListedJoin
  <1> HIDE DEF c
  <1>3. ASSUME NEW i \in 2..Len(c) PROVE c[i].t \notin {"keep", "close"}
    <2> DEFINE j == i - 1
    <2>1. j \in 1..Len(a) /\ i = 1 + j
      BY <1>2
    <2> HIDE DEF j
    <2>2. c[1 + j] = a[j] /\ a[j].t \notin {"keep", "close"}
      BY <1>2, <2>1 DEF NoStatus
    <2> QED BY <2>1, <2>2
  <1>4. OneStatus(c)
    BY <1>3 DEF OneStatus
  <1> QED BY <1>4 DEF c

\* Without its first token, if that is not of the document.
LEMMA ShapedRest ==
    ASSUME NEW x, NEW a, Listed(a), x.t # "data", NEW k, Shaped(<<x>> \o a, k)
    PROVE  k >= 1 /\ Shaped(a, k - 1)
  <1> DEFINE c == <<x>> \o a
             m == k - 1
  <1>1. Listed(<<x>>) /\ Len(<<x>>) = 1 /\ <<x>>[1] = x /\ 1 \in 1..1
    BY OneToken
  <1>2. /\ Len(c) = 1 + Len(a) /\ Len(a) \in Nat
        /\ \A i \in 1..1 : c[i] = <<x>>[i]
        /\ \A i \in 1..Len(a) : c[1 + i] = a[i]
    BY <1>1, ListedJoin
  <1>3. Shaped(c, k)
    OBVIOUS
  <1> HIDE DEF c
  <1>4. c[1] = x
    BY <1>1, <1>2
  <1>5. k \in 0..Len(c) /\ k \in Nat
    BY <1>2, <1>3 DEF Shaped
  <1>6. k # 0
    <2>1. SUFFICES ASSUME k = 0 PROVE FALSE
      OBVIOUS
    <2>2. 1 \in (k + 1)..Len(c)
      BY <1>2, <2>1
    <2>3. c[1] = Tok("data", 1 - k)
      BY <1>3, <2>2 DEF Shaped
    <2> QED BY <1>4, <2>3 DEF Tok
  <1>7. m \in 0..Len(a) /\ m \in Nat /\ k = 1 + m
    BY <1>2, <1>5, <1>6
  <1> HIDE DEF m
  <1>8. ASSUME NEW i \in 1..m PROVE a[i].t # "data" /\ (m < Len(a) => a[i].t # "page")
    <2>1. i \in 1..Len(a) /\ 1 + i \in 1..k /\ (m < Len(a) => k < Len(c))
      BY <1>2, <1>7
    <2>2. c[1 + i].t # "data" /\ (k < Len(c) => c[1 + i].t # "page")
      BY <1>3, <2>1 DEF Shaped
    <2>3. c[1 + i] = a[i]
      BY <1>2, <2>1
    <2> QED BY <2>1, <2>2, <2>3
  <1>9. ASSUME NEW i \in (m + 1)..Len(a) PROVE a[i] = Tok("data", i - m)
    <2>1. i \in 1..Len(a) /\ 1 + i \in (k + 1)..Len(c) /\ (1 + i) - k = i - m
      BY <1>2, <1>7
    <2>2. c[1 + i] = Tok("data", (1 + i) - k)
      BY <1>3, <2>1 DEF Shaped
    <2>3. c[1 + i] = a[i]
      BY <1>2, <2>1
    <2> QED BY <2>1, <2>2, <2>3
  <1>10. Shaped(a, m)
    BY <1>7, <1>8, <1>9 DEF Shaped
  <1>11. k >= 1
    BY <1>7
  <1> QED BY <1>10, <1>11 DEF m
\* As many tokens of the document as there are after the header.
LEMMA CountShaped ==
    ASSUME NEW a, Listed(a), NEW k, Shaped(a, k)
    PROVE  DataCount(a) = Len(a) - k
  <1>1. Len(a) \in Nat /\ k \in 0..Len(a)
    BY ListedParts DEF Shaped
  <1>2. ASSUME NEW i \in 1..Len(a) PROVE a[i].t = "data" <=> i \in (k + 1)..Len(a)
    <2>1. CASE i \in 1..k
      <3>1. a[i].t # "data" /\ i \notin (k + 1)..Len(a)
        BY <1>1, <2>1 DEF Shaped
      <3> QED BY <3>1
    <2>2. CASE i \in (k + 1)..Len(a)
      <3>1. a[i] = Tok("data", i - k)
        BY <2>2 DEF Shaped
      <3> QED BY <2>2, <3>1 DEF Tok
    <2>3. i \in 1..k \/ i \in (k + 1)..Len(a)
      BY <1>1
    <2> QED BY <2>1, <2>2, <2>3, Zenon
  <1>3. \A i \in (k + 1)..Len(a) : i \in 1..Len(a)
    BY <1>1
  <1>4. DataIn(a) = (k + 1)..Len(a)
    BY <1>2, <1>3 DEF DataIn
  <1>5. k + 1 \in Int /\ Len(a) \in Int
    BY <1>1
  <1>6. Cardinality((k + 1)..Len(a)) = IF k + 1 > Len(a) THEN 0 ELSE Len(a) - (k + 1) + 1
    BY <1>5, FS_Interval
  <1>7. (IF k + 1 > Len(a) THEN 0 ELSE Len(a) - (k + 1) + 1) = Len(a) - k
    BY <1>1
  <1> QED BY <1>4, <1>6, <1>7 DEF DataCount

\* None where there is no document.
LEMMA CountNone ==
    ASSUME NEW a, Listed(a), NoData(a)
    PROVE  DataCount(a) = 0
  <1>1. Len(a) \in Nat /\ Shaped(a, Len(a))
    BY ListedParts, ShapedNone
  <1>2. DataCount(a) = Len(a) - Len(a)
    BY <1>1, CountShaped
  <1> QED BY <1>1, <1>2

\* The tokens of two sequences are those of the one and of the other.
LEMMA CountJoin ==
    ASSUME NEW a, NEW b, Listed(a), Listed(b)
    PROVE  DataCount(a \o b) = DataCount(a) + DataCount(b) /\ DataCount(a) \in Nat /\ DataCount(b) \in Nat
  <1> DEFINE c == a \o b
             n == Len(a)
             A == DataIn(a)
             B == DataIn(b)
             M == {n + i : i \in B}
  <1>1. /\ n \in Nat /\ Len(b) \in Nat /\ Len(c) = n + Len(b)
        /\ \A i \in 1..n : c[i] = a[i]
        /\ \A i \in 1..Len(b) : c[n + i] = b[i]
    BY ListedJoin
  <1>2. A \subseteq 1..n /\ B \subseteq 1..Len(b)
    BY DEF DataIn
  <1>3. IsFiniteSet(A) /\ IsFiniteSet(B)
    <2>1. IsFiniteSet(1..n) /\ IsFiniteSet(1..Len(b))
      BY <1>1, FS_Interval
    <2> QED BY <1>2, <2>1, FS_Subset
  <1>4. IsFiniteSet(M) /\ Cardinality(M) = Cardinality(B)
    <2> DEFINE g == [i \in B |-> n + i]
    <2>1. g \in Bijection(B, M)
      <3>1. g \in [B -> M]
        OBVIOUS
      <3>2. \A i, j \in B : g[i] = g[j] => i = j
        BY <1>1, <1>2
      <3>3. \A t \in M : \E i \in B : g[i] = t
        OBVIOUS
      <3> HIDE DEF g, M, B
      <3> QED BY <3>1, <3>2, <3>3 DEF Bijection, Injection, Surjection, IsInjective
    <2>2. ExistsBijection(B, M)
      BY <2>1 DEF ExistsBijection
    <2> HIDE DEF B, M
    <2> QED BY <1>3, <2>2, FS_Bijection
  <1>5. A \cap M = {}
    <2>1. ASSUME NEW x \in A, NEW i \in B PROVE x # n + i
      <3>1. x \in 1..n /\ i \in 1..Len(b)
        BY <1>2
      <3> QED BY <1>1, <3>1
    <2> HIDE DEF A, B
    <2> QED BY <2>1
  <1>6. DataIn(c) = A \cup M
    <2>1. ASSUME NEW x \in DataIn(c) PROVE x \in A \cup M
      <3>1. x \in 1..Len(c) /\ c[x].t = "data"
        BY <2>1 DEF DataIn
      <3>2. CASE x \in 1..n
        <4>1. c[x] = a[x]
          BY <1>1, <3>2
        <4> QED BY <3>1, <3>2, <4>1 DEF DataIn
      <3>3. CASE x \notin 1..n
        <4> DEFINE j == x - n
        <4>1. j \in 1..Len(b) /\ x = n + j
          BY <1>1, <3>1, <3>3
        <4> HIDE DEF j
        <4>2. c[n + j] = b[j]
          BY <1>1, <4>1
        <4>3. j \in B
          BY <3>1, <4>1, <4>2 DEF DataIn
        <4> QED BY <4>1, <4>3
      <3> QED BY <3>2, <3>3
    <2>2. ASSUME NEW x \in A PROVE x \in DataIn(c)
      <3>1. x \in 1..n /\ a[x].t = "data"
        BY DEF DataIn
      <3>2. x \in 1..Len(c) /\ c[x] = a[x]
        BY <1>1, <3>1
      <3> QED BY <3>1, <3>2 DEF DataIn
    <2>3. ASSUME NEW i \in B PROVE n + i \in DataIn(c)
      <3>1. i \in 1..Len(b) /\ b[i].t = "data"
        BY DEF DataIn
      <3>2. n + i \in 1..Len(c) /\ c[n + i] = b[i]
        BY <1>1, <3>1
      <3> QED BY <3>1, <3>2 DEF DataIn
    <2> HIDE DEF A, B, c
    <2> QED BY <2>1, <2>2, <2>3
  <1>7. Cardinality(A) \in Nat /\ Cardinality(B) \in Nat
    BY <1>3, FS_CardinalityType
  <1>8. Cardinality(A \cup M) = Cardinality(A) + Cardinality(M) - Cardinality(A \cap M)
    <2> HIDE DEF A, M
    <2> QED BY <1>3, <1>4, FS_Union
  <1>9. Cardinality(A \cap M) = 0
    BY <1>5, FS_EmptySet
  <1>10. Cardinality(DataIn(c)) = Cardinality(A) + Cardinality(B)
    <2>1. Cardinality(DataIn(c)) = Cardinality(A) + Cardinality(B) - 0
      BY <1>4, <1>6, <1>8, <1>9, Zenon
    <2> HIDE DEF A, B
    <2> QED BY <1>7, <2>1
  <1> QED BY <1>7, <1>10 DEF DataCount

\* k tokens that are not of the document, and its first p.
Extends(a, k, p) ==
    /\ Listed(a) /\ Shaped(a, k) /\ p \in Nat /\ Len(a) = k + p
    /\ \A i \in 1..k : a[i].t # "page"

\* The next tokens of the document at the end of what has been said of it.
LEMMA ShapedData ==
    ASSUME NEW a, NEW k, NEW p, Extends(a, k, p), NEW j \in Nat, NEW d, d = Data(p + 1, p + j)
    PROVE  Extends(a \o d, k, p + j)
  <1> DEFINE c == a \o d
  <1>0. /\ Listed(a) /\ Shaped(a, k) /\ p \in Nat /\ Len(a) = k + p
        /\ \A i \in 1..k : a[i].t # "page"
    BY DEF Extends
  <1>1. /\ Listed(d) /\ Len(d) = j
        /\ \A i \in 1..j : d[i] = Tok("data", p + i)
    <2>1. p + 1 \in Int /\ p + j \in Int /\ (p + j) - (p + 1) + 1 = j /\ (p + j) - (p + 1) + 1 >= 0
      BY <1>0
    <2>2. /\ Listed(d) /\ Len(d) = (p + j) - (p + 1) + 1
          /\ \A i \in 1..((p + j) - (p + 1) + 1) : d[i] = Tok("data", (p + 1) + i - 1)
      <3> DEFINE x == p + 1
                 y == p + j
      <3>1. x \in Int /\ y \in Int /\ y - x + 1 >= 0
        BY <2>1
      <3> HIDE DEF x, y
      <3>2. /\ Listed(Data(x, y)) /\ Len(Data(x, y)) = y - x + 1
            /\ \A i \in 1..(y - x + 1) : Data(x, y)[i] = Tok("data", x + i - 1)
        BY <3>1, DataTokens
      <3> QED BY <3>2 DEF x, y
    <2>3. \A i \in 1..j : (p + 1) + i - 1 = p + i
      BY <1>0
    <2> QED BY <2>1, <2>2, <2>3
  <1>2. /\ Len(c) = Len(a) + j /\ Len(a) \in Nat
        /\ \A i \in 1..Len(a) : c[i] = a[i]
        /\ \A i \in 1..j : c[Len(a) + i] = d[i]
    <2>1. /\ Len(c) = Len(a) + Len(d) /\ Len(a) \in Nat
          /\ \A i \in 1..Len(a) : c[i] = a[i]
          /\ \A i \in 1..Len(d) : c[Len(a) + i] = d[i]
      <3>1. Listed(a) /\ Listed(d)
        BY <1>0, <1>1
      <3> QED BY <3>1, ListedJoin
    <2> QED BY <1>1, <2>1
  <1> HIDE DEF c
  <1>3. k \in 0..Len(a) /\ Len(c) = k + (p + j)
    BY <1>0, <1>2 DEF Shaped
  <1>4. ASSUME NEW i \in 1..k PROVE c[i].t # "data" /\ c[i].t # "page"
    <2>1. i \in 1..Len(a)
      BY <1>2, <1>3
    <2>2. c[i] = a[i] /\ a[i].t # "data"
      BY <1>0, <1>2, <2>1 DEF Shaped
    <2> QED BY <1>0, <2>2
  <1>5. ASSUME NEW i \in (k + 1)..Len(c) PROVE c[i] = Tok("data", i - k)
    <2>1. CASE i <= Len(a)
      <3>1. i \in (k + 1)..Len(a) /\ i \in 1..Len(a)
        BY <1>2, <1>3, <2>1
      <3>2. c[i] = a[i] /\ a[i] = Tok("data", i - k)
        BY <1>0, <1>2, <3>1 DEF Shaped
      <3> QED BY <3>2
    <2>2. CASE i > Len(a)
      <3> DEFINE m == i - Len(a)
      <3>1. m \in 1..j /\ i = Len(a) + m /\ p + m = i - k
        BY <1>0, <1>2, <1>3, <2>2
      <3> HIDE DEF m
      <3>2. c[Len(a) + m] = d[m] /\ d[m] = Tok("data", p + m)
        BY <1>1, <1>2, <3>1
      <3> QED BY <3>1, <3>2
    <2>3. i <= Len(a) \/ i > Len(a)
      BY <1>2, <1>3
    <2> QED BY <2>1, <2>2, <2>3, Zenon
  <1>6. k \in 0..Len(c)
    BY <1>2, <1>3
  <1>7. Shaped(c, k)
    BY <1>4, <1>5, <1>6 DEF Shaped
  <1>8. Listed(c)
    BY <1>0, <1>1, ListedJoin DEF c
  <1>9. p + j \in Nat /\ \A i \in 1..k : c[i].t # "page"
    BY <1>0, <1>4
  <1> QED BY <1>3, <1>7, <1>8, <1>9 DEF c, Extends

\* No document in two parts, none in the whole.
LEMMA NoDataJoin ==
    ASSUME NEW a, NEW b, Listed(a), Listed(b), NoData(a), NoData(b)
    PROVE  NoData(a \o b)
  <1> DEFINE c == a \o b
  <1>1. /\ Len(a) \in Nat /\ Len(b) \in Nat /\ Len(c) = Len(a) + Len(b)
        /\ \A i \in 1..Len(a) : c[i] = a[i]
        /\ \A i \in 1..Len(b) : c[Len(a) + i] = b[i]
    BY ListedJoin
  <1> HIDE DEF c
  <1>2. ASSUME NEW i \in 1..Len(c) PROVE c[i].t # "data"
    <2>1. CASE i <= Len(a)
      <3>1. i \in 1..Len(a)
        BY <1>1, <2>1
      <3>2. c[i] = a[i] /\ a[i].t # "data"
        BY <1>1, <3>1 DEF NoData
      <3> QED BY <3>2
    <2>2. CASE i > Len(a)
      <3> DEFINE m == i - Len(a)
      <3>1. m \in 1..Len(b) /\ i = Len(a) + m
        BY <1>1, <2>2
      <3> HIDE DEF m
      <3>2. c[Len(a) + m] = b[m] /\ b[m].t # "data"
        BY <1>1, <3>1 DEF NoData
      <3> QED BY <3>1, <3>2
    <2>3. i <= Len(a) \/ i > Len(a)
      BY <1>1
    <2> QED BY <2>1, <2>2, <2>3, Zenon
  <1>3. NoData(c)
    BY <1>2 DEF NoData
  <1> QED BY <1>3 DEF c

\* What a pipe still holds follows what is said.
LEMMA StatusJoin ==
    ASSUME NEW a, NEW b, Listed(a), Listed(b), NoStatus(b), NEW x, a = <<>> \/ a = <<x>>
    PROVE  OneStatus(a \o b)
  <1>1. CASE a = <<>>
    <2>1. a \o b = b
      BY <1>1, ListedNone
    <2>2. Len(b) \in Nat
      BY ListedParts
    <2> QED BY <2>1, <2>2 DEF NoStatus, OneStatus
  <1>2. CASE a = <<x>>
    BY <1>2, ConsStatus
  <1> QED BY <1>1, <1>2

-----------------------------------------------------------------------------
(* Bodies: what a client has announced, and what is yet to come of it.      *)

\* FlattenSeq: one piece after the other.
LEMMA FlatSteps ==
    ASSUME NEW s, Len(s) \in Nat, Len(s) > 0
    PROVE  \E g : /\ FlattenSeq(s) = g[Len(s)]
                  /\ \A i \in 1..Len(s) : g[i] = IF i = 1 THEN s[i] ELSE g[i - 1] \o s[i]
  <1> DEFINE G(n, g) == g = [i \in 1..n |-> IF i = 1 THEN s[i] ELSE g[i - 1] \o s[i]]
             Numbers == {n \in Nat : \E g : G(n, g)}
  <1>1. 0 \in Numbers
    <2>1. G(0, [i \in 1..0 |-> s])
      OBVIOUS
    <2> QED BY <2>1, Zenon
  <1>2. ASSUME NEW n \in Numbers PROVE n + 1 \in Numbers
    <2>1. PICK g : G(n, g)
      OBVIOUS
    <2> DEFINE h == [i \in 1..(n + 1) |->
                        IF i = n + 1 THEN (IF i = 1 THEN s[i] ELSE g[i - 1] \o s[i]) ELSE g[i]]
    <2>2. ASSUME NEW i \in 1..(n + 1)
          PROVE  h[i] = IF i = 1 THEN s[i] ELSE h[i - 1] \o s[i]
      <3>1. n \in Nat /\ (i = 1 \/ i - 1 \in 1..n) /\ (i = n + 1 \/ i \in 1..n) /\ i - 1 # n + 1
        OBVIOUS
      <3>2. \A k \in 1..n : h[k] = g[k]
        OBVIOUS
      <3>3. \A k \in 1..n : g[k] = IF k = 1 THEN s[k] ELSE g[k - 1] \o s[k]
        BY <2>1
      <3>4. CASE i = n + 1
        <4>1. h[i] = IF i = 1 THEN s[i] ELSE g[i - 1] \o s[i]
          BY <3>4
        <4> HIDE DEF h
        <4> QED BY <3>1, <3>2, <4>1
      <3>5. CASE i \in 1..n
        <4> HIDE DEF h
        <4> QED BY <3>1, <3>2, <3>3, <3>5
      <3> QED BY <3>1, <3>4, <3>5
    <2>3. G(n + 1, h)
      BY <2>2
    <2>4. n + 1 \in Nat
      OBVIOUS
    <2> HIDE DEF h, G
    <2> QED BY <2>3, <2>4
  <1>3. Len(s) \in Numbers
    <2> HIDE DEF Numbers
    <2> QED BY <1>1, <1>2, Induct
  <1> DEFINE at == CHOOSE g : G(Len(s), g)
  <1>4. G(Len(s), at)
    <2>1. \E g : G(Len(s), g)
      BY <1>3
    <2> HIDE DEF G
    <2> QED BY <2>1, Zenon
  <1>5. FlattenSeq(s) = at[Len(s)]
    BY DEF FlattenSeq
  <1> HIDE DEF at
  <1> WITNESS at
  <1> QED BY <1>4, <1>5

\* What it gives is a sequence, and its first piece is in front.
LEMMA FlatParts ==
    ASSUME NEW S, NEW s \in Seq(Seq(S))
    PROVE  /\ FlattenSeq(s) \in Seq(S)
           /\ s = <<>> => FlattenSeq(s) = <<>>
           /\ s # <<>> => FlattenSeq(s) = Head(s) \o FlattenSeq(Tail(s))
  <1>1. Len(s) \in Nat /\ (s = <<>> <=> Len(s) = 0)
    OBVIOUS
  <1>2. CASE s = <<>>
    <2>1. FlattenSeq(s) = s
      BY <1>1, <1>2 DEF FlattenSeq
    <2>2. <<>> \in Seq(S)
      OBVIOUS
    <2> QED BY <1>2, <2>1, <2>2
  <1>3. CASE s # <<>>
    <2> DEFINE t == Tail(s)
               Steps(u) == \E g : /\ FlattenSeq(u) = g[Len(u)]
                                  /\ \A i \in 1..Len(u) : g[i] = IF i = 1 THEN u[i] ELSE g[i - 1] \o u[i]
    <2>1. /\ t \in Seq(Seq(S)) /\ Len(t) \in Nat /\ Len(s) = Len(t) + 1
          /\ Head(s) = s[1] /\ \A i \in 1..Len(t) : t[i] = s[i + 1]
      BY <1>1, <1>3
    <2>2. \A i \in 1..Len(s) : s[i] \in Seq(S)
      OBVIOUS
    <2>3. \A u : Len(u) \in Nat /\ Len(u) > 0 => Steps(u)
      BY FlatSteps
    <2>4. Steps(s) /\ (Len(t) > 0 => Steps(t))
      <3> HIDE DEF Steps, t
      <3> QED BY <1>1, <2>1, <2>3
    <2>5. PICK g : /\ FlattenSeq(s) = g[Len(s)]
                   /\ \A i \in 1..Len(s) : g[i] = IF i = 1 THEN s[i] ELSE g[i - 1] \o s[i]
      BY <2>4
    <2>10. g[1] = s[1]
      <3>1. 1 \in 1..Len(s)
        BY <2>1
      <3> QED BY <2>5, <3>1
    <2>11. ASSUME NEW n \in Nat, n + 2 <= Len(s) PROVE g[n + 2] = g[n + 1] \o s[n + 2]
      <3>1. PICK i \in 1..Len(s) : i = n + 2 /\ i # 1 /\ i - 1 = n + 1
        <4>1. n + 2 \in 1..Len(s) /\ n + 2 # 1 /\ n + 2 - 1 = n + 1
          BY <1>1, <2>11
        <4> QED BY <4>1
      <3>2. g[i] = g[i - 1] \o s[i]
        BY <2>5, <3>1
      <3> QED BY <3>1, <3>2
    <2> DEFINE P(n) == n + 1 <= Len(s) => g[n + 1] \in Seq(S)
    <2>6. \A n \in Nat : P(n)
      <3> DEFINE T == {n \in Nat : P(n)}
      <3>1. 0 \in T
        BY <1>1, <2>1, <2>2, <2>10
      <3>2. ASSUME NEW n \in T PROVE n + 1 \in T
        <4>1. n \in Nat /\ n + 1 \in Nat /\ P(n) /\ (n + 1) + 1 = n + 2
          OBVIOUS
        <4>2. ASSUME n + 2 <= Len(s) PROVE g[n + 2] \in Seq(S)
          <5>1. g[n + 1] \in Seq(S) /\ s[n + 2] \in Seq(S)
            BY <1>1, <2>2, <4>1, <4>2
          <5>2. g[n + 2] = g[n + 1] \o s[n + 2]
            BY <2>11, <4>1, <4>2
          <5> QED BY <5>1, <5>2, ConcatProperties
        <4>3. P(n + 1)
          BY <4>1, <4>2
        <4> HIDE DEF P
        <4> QED BY <4>1, <4>3
      <3>3. Nat \subseteq T
        <4> HIDE DEF T
        <4> QED BY <3>1, <3>2, Induct
      <3> QED BY <3>3
    <2>7. FlattenSeq(s) \in Seq(S)
      <3>1. Len(t) + 1 <= Len(s)
        BY <2>1
      <3> HIDE DEF t
      <3> QED BY <2>1, <2>5, <2>6, <3>1
    <2>8. CASE t = <<>>
      <3>1. Len(s) = 1 /\ FlattenSeq(t) = <<>>
        <4>1. Len(t) = 0
          BY <2>8, ListedNew
        <4>2. FlattenSeq(t) = t
          BY <4>1 DEF FlattenSeq
        <4> HIDE DEF t
        <4> QED BY <2>1, <2>8, <4>1, <4>2
      <3>2. FlattenSeq(s) = s[1] /\ s[1] \in Seq(S)
        BY <2>2, <2>5, <3>1
      <3>3. s[1] \o <<>> = s[1]
        BY <3>2, ConcatEmptySeq
      <3> QED BY <2>1, <2>7, <3>1, <3>2, <3>3
    <2>9. CASE t # <<>>
      <3>0. Len(t) > 0
        <4> HIDE DEF t
        <4> QED BY <2>1, <2>9
      <3>1. PICK h : /\ FlattenSeq(t) = h[Len(t)]
                     /\ \A i \in 1..Len(t) : h[i] = IF i = 1 THEN t[i] ELSE h[i - 1] \o t[i]
        BY <2>4, <3>0
      <3> HIDE DEF t
      <3>10. h[1] = t[1]
        <4>1. 1 \in 1..Len(t)
          BY <2>1, <3>0
        <4> QED BY <3>1, <4>1
      <3>11. ASSUME NEW n \in Nat, n + 2 <= Len(t) PROVE h[n + 2] = h[n + 1] \o t[n + 2]
        <4>1. PICK i \in 1..Len(t) : i = n + 2 /\ i # 1 /\ i - 1 = n + 1
          <5>1. n + 2 \in 1..Len(t) /\ n + 2 # 1 /\ n + 2 - 1 = n + 1
            BY <2>1, <3>11
          <5> QED BY <5>1
        <4>2. h[i] = h[i - 1] \o t[i]
          BY <3>1, <4>1
        <4> QED BY <4>1, <4>2
      <3> DEFINE Q(n) == n + 1 <= Len(t) => h[n + 1] \in Seq(S) /\ g[n + 2] = s[1] \o h[n + 1]
      <3>2. \A n \in Nat : Q(n)
        <4> DEFINE T == {n \in Nat : Q(n)}
        <4>1. 0 \in T
          <5>1. 1 \in 1..Len(t) /\ 2 \in 1..Len(s) /\ 0 + 2 <= Len(s) /\ 0 + 1 = 1 /\ 0 + 2 = 2 /\ 0 \in Nat
            BY <2>1, <3>0
          <5>2. h[1] = s[2] /\ s[2] \in Seq(S)
            BY <2>1, <2>2, <3>10, <5>1
          <5>3. g[2] = g[1] \o s[2]
            BY <2>11, <5>1
          <5>4. Q(0)
            BY <2>10, <5>1, <5>2, <5>3
          <5> HIDE DEF Q
          <5> QED BY <5>4
        <4>2. ASSUME NEW n \in T PROVE n + 1 \in T
          <5>1. n \in Nat /\ n + 1 \in Nat /\ Q(n) /\ (n + 1) + 1 = n + 2 /\ (n + 1) + 2 = n + 3
            <6>1. n \in Nat /\ Q(n)
              <7> HIDE DEF Q
              <7> QED OBVIOUS
            <6>2. n + 1 \in Nat /\ (n + 1) + 1 = n + 2 /\ (n + 1) + 2 = n + 3
              <7> HIDE DEF Q, T
              <7> QED BY <6>1
            <6> HIDE DEF Q
            <6> QED BY <6>1, <6>2
          <5>2. ASSUME n + 2 <= Len(t) PROVE h[n + 2] \in Seq(S) /\ g[n + 3] = s[1] \o h[n + 2]
            <6>1. h[n + 1] \in Seq(S) /\ g[n + 2] = s[1] \o h[n + 1]
              <7>1. n + 1 <= Len(t)
                BY <2>1, <5>1, <5>2
              <7> QED BY <5>1, <7>1
            <6>2. h[n + 2] = h[n + 1] \o t[n + 2]
              BY <3>11, <5>1, <5>2
            <6>3. t[n + 2] = s[n + 3]
              <7>1. n + 2 \in 1..Len(t) /\ (n + 2) + 1 = n + 3
                BY <2>1, <5>1, <5>2
              <7> QED BY <2>1, <7>1
            <6>4. g[n + 3] = g[n + 2] \o s[n + 3]
              <7>1. (n + 1) + 2 <= Len(s)
                BY <2>1, <5>1, <5>2
              <7>2. g[(n + 1) + 2] = g[(n + 1) + 1] \o s[(n + 1) + 2]
                BY <2>11, <5>1, <7>1
              <7> QED BY <5>1, <7>2
            <6>5. s[n + 3] \in Seq(S) /\ s[1] \in Seq(S)
              <7>1. n + 3 \in 1..Len(s) /\ 1 \in 1..Len(s)
                BY <2>1, <5>1, <5>2
              <7> QED BY <2>2, <7>1
            <6>6. (s[1] \o h[n + 1]) \o s[n + 3] = s[1] \o (h[n + 1] \o s[n + 3])
              <7> DEFINE a == s[1]
                         b == h[n + 1]
                         c == s[n + 3]
              <7>1. a \in Seq(S) /\ b \in Seq(S) /\ c \in Seq(S)
                BY <6>1, <6>5
              <7> HIDE DEF a, b, c
              <7>2. (a \o b) \o c = a \o (b \o c)
                BY <7>1, ConcatAssociative
              <7> QED BY <7>2 DEF a, b, c
            <6>7. h[n + 1] \o s[n + 3] \in Seq(S)
              BY <6>1, <6>5, ConcatProperties
            <6> QED BY <6>1, <6>2, <6>3, <6>4, <6>6, <6>7
          <5>3. Q(n + 1)
            BY <5>1, <5>2
          <5> HIDE DEF Q
          <5> QED BY <5>1, <5>3
        <4>3. Nat \subseteq T
          <5> HIDE DEF T
          <5> QED BY <4>1, <4>2, Induct
        <4> QED BY <4>3
      <3>3. PICK m \in Nat : m + 1 = Len(t) /\ m + 2 = Len(s)
        <4>1. Len(t) - 1 \in Nat /\ Len(t) - 1 + 1 = Len(t) /\ Len(t) - 1 + 2 = Len(s)
          BY <2>1, <3>0
        <4> QED BY <4>1
      <3>4. g[m + 2] = s[1] \o h[m + 1]
        <4>1. Q(m)
          <5> HIDE DEF Q
          <5> QED BY <3>2
        <4>2. m + 1 <= Len(t)
          BY <2>1, <3>3
        <4> QED BY <4>1, <4>2
      <3>5. FlattenSeq(s) = s[1] \o FlattenSeq(t)
        BY <2>5, <3>1, <3>3, <3>4
      <3> QED BY <1>3, <2>1, <2>7, <3>5 DEF t
    <2> QED BY <2>8, <2>9
  <1> QED BY <1>2, <1>3

\* A piece of what follows, and what follows that.
LEMMA BodyParts ==
    ASSUME NEW s, Listed(s), NEW p \in Int, NEW m \in Int, BodyFrom(s, p, m), NEW k \in 0..Len(s)
    PROVE  BodyFrom(Take(s, k), p, m) /\ BodyFrom(Drop(s, k), p + k, m)
  <1>1. /\ Len(Take(s, k)) = k /\ Len(Drop(s, k)) = Len(s) - k /\ Len(s) \in Nat
        /\ \A i \in 1..k : Take(s, k)[i] = s[i]
        /\ \A i \in 1..(Len(s) - k) : Drop(s, k)[i] = s[k + i]
    BY ListedHalves, ListedParts
  <1>2. \A i \in 1..Len(s) : p + i <= m => s[i] = Tok("body", p + i)
    BY DEF BodyFrom
  <1>3. ASSUME NEW i \in 1..k, p + i <= m PROVE Take(s, k)[i] = Tok("body", p + i)
    BY <1>1, <1>2, <1>3
  <1>4. ASSUME NEW i \in 1..(Len(s) - k), (p + k) + i <= m
        PROVE  Drop(s, k)[i] = Tok("body", (p + k) + i)
    <2>1. PICK j \in 1..Len(s) : j = k + i /\ p + j = (p + k) + i
      BY <1>1
    <2>2. s[j] = Tok("body", p + j)
      BY <1>2, <1>4, <2>1
    <2> QED BY <1>1, <2>1, <2>2
  <1> QED BY <1>1, <1>3, <1>4 DEF BodyFrom

\* What comes first of it.
LEMMA BodyFront ==
    ASSUME NEW s, NEW t, Listed(s), Listed(t), NEW p, NEW m, BodyFrom(s \o t, p, m)
    PROVE  BodyFrom(s, p, m)
  <1>1. /\ Len(s \o t) = Len(s) + Len(t) /\ Len(s) \in Nat /\ Len(t) \in Nat
        /\ \A i \in 1..Len(s) : (s \o t)[i] = s[i]
    BY ListedJoin
  <1>2. \A i \in 1..Len(s \o t) : p + i <= m => (s \o t)[i] = Tok("body", p + i)
    BY DEF BodyFrom
  <1> DEFINE st == s \o t
  <1> HIDE DEF st
  <1>3. \A i \in 1..Len(s) : i \in 1..Len(st)
    BY <1>1 DEF st
  <1> QED BY <1>1, <1>2, <1>3 DEF BodyFrom, st

\* Where the headers end depends on what comes before.
LEMMA CloseFront ==
    ASSUME NEW s, NEW t, Listed(s), Listed(t), NEW status, NEW j \in 1..Len(s)
    PROVE  Closes(status, s \o t, j) <=> Closes(status, s, j)
  <1>1. Len(s) \in Nat /\ \A i \in 1..Len(s) : (s \o t)[i] = s[i]
    BY ListedJoin
  <1> DEFINE st == s \o t
  <1> HIDE DEF st
  <1>2. st[j] = s[j] /\ \A i \in 1..j : st[i] = s[i]
    BY <1>1 DEF st
  <1>3. \A i \in 0..(j - 1) : i = 0 \/ i \in 1..j
    BY <1>1
  <1>4. \A i \in 0..(j - 1) : \A k \in (i + 1)..(j - 1) : k \in 1..j
    BY <1>1
  <1>5. Closes(status, st, j) <=> Closes(status, s, j)
    BY <1>2, <1>3, <1>4 DEF Closes
  <1> QED BY <1>5 DEF st

\* What is announced for all that follows is announced for the first part of it.
LEMMA AnnouncesFront ==
    ASSUME NEW s, NEW t, Listed(s), Listed(t), NEW status, NEW m, Announces(status, s \o t, m)
    PROVE  Announces(status, s, m)
  <1> SUFFICES ASSUME NEW j \in 1..Len(s), Closes(status, s, j),
                      \A i \in 1..(j - 1) : ~Closes(status, s, i)
               PROVE  BodyFrom(Drop(s, j), 0, m)
    BY DEF Announces
  <1>1. Len(s \o t) = Len(s) + Len(t) /\ Len(s) \in Nat /\ Len(t) \in Nat
    BY ListedJoin
  <1>2. j \in 1..Len(s \o t) /\ j \in 0..Len(s) /\ \A i \in 1..(j - 1) : i \in 1..Len(s)
    BY <1>1
  <1>3. Closes(status, s \o t, j) /\ \A i \in 1..(j - 1) : ~Closes(status, s \o t, i)
    BY <1>2, CloseFront
  <1>4. BodyFrom(Drop(s \o t, j), 0, m)
    BY <1>2, <1>3 DEF Announces
  <1>5. Drop(s \o t, j) = Drop(s, j) \o t /\ Listed(Drop(s, j))
    BY <1>2, DropJoin, ListedParts
  <1> QED BY <1>4, <1>5, BodyFront

\* So it is for every length.
LEMMA AnnouncedFront ==
    ASSUME NEW s, NEW t, Listed(s), Listed(t), Announced(s \o t)
    PROVE  Announced(s)
  <1> SUFFICES ASSUME NEW i \in 1..Len(s), s[i].t = "LENGTH"
               PROVE  Announces("READ_HEADER", Drop(s, i), s[i].n)
    BY DEF Announced
  <1>1. /\ Len(s \o t) = Len(s) + Len(t) /\ Len(s) \in Nat /\ Len(t) \in Nat
        /\ (s \o t)[i] = s[i]
    BY ListedJoin
  <1>2. i \in 1..Len(s \o t) /\ i \in 0..Len(s)
    BY <1>1
  <1>3. Announces("READ_HEADER", Drop(s \o t, i), s[i].n)
    BY <1>1, <1>2 DEF Announced
  <1>4. Drop(s \o t, i) = Drop(s, i) \o t /\ Listed(Drop(s, i))
    BY <1>2, DropJoin, ListedParts
  <1> QED BY <1>3, <1>4, AnnouncesFront

\* A token, and what follows it.
LEMMA OneOn ==
    ASSUME NEW tok, NEW s, Listed(s)
    PROVE  LET a == <<tok>> \o s IN
           /\ Listed(a) /\ Len(s) \in Nat /\ Len(a) = Len(s) + 1 /\ a[1] = tok
           /\ \A i \in 1..Len(s) : a[i + 1] = s[i]
           /\ \A i \in 0..Len(s) : Drop(a, i + 1) = Drop(s, i)
  <1> DEFINE a == <<tok>> \o s
             one == <<tok>>
  <1>1. Listed(one) /\ Len(one) = 1 /\ one[1] = tok
    BY ListedNew
  <1> HIDE DEF one
  <1>2. /\ Listed(one \o s) /\ Len(one \o s) = Len(one) + Len(s) /\ Len(s) \in Nat
        /\ \A i \in 1..Len(one) : (one \o s)[i] = one[i]
        /\ \A i \in 1..Len(s) : (one \o s)[Len(one) + i] = s[i]
    BY <1>1, ListedJoin
  <1>3. a = one \o s
    BY DEF one
  <1> HIDE DEF a
  <1>4. Listed(a) /\ Len(a) = Len(s) + 1 /\ a[1] = tok /\ \A i \in 1..Len(s) : a[i + 1] = s[i]
    <2>1. \A i \in 1..Len(s) : Len(one) + i = i + 1
      BY <1>1, <1>2
    <2> QED BY <1>1, <1>2, <1>3, <2>1
  <1>5. ASSUME NEW i \in 0..Len(s) PROVE Drop(a, i + 1) = Drop(s, i)
    <2>1. 1 \in 0..Len(a) /\ i \in 0..(Len(a) - 1) /\ 1 + i = i + 1
      BY <1>2, <1>4
    <2>2. Drop(Drop(a, 1), i) = Drop(a, i + 1)
      BY <1>4, <2>1, DropTwice
    <2>3. Drop(a, 1) = s
      <3>1. 1 \in 0..Len(one) /\ Len(one) = 1
        BY <1>1
      <3>2. Drop(one \o s, 1) = Drop(one, 1) \o s
        BY <1>1, <3>1, DropJoin
      <3>3. Drop(one, 1) = <<>>
        BY <1>1, ListedDrops
      <3> DEFINE none == <<>>
      <3>4. none \o s = s
        <4>1. Listed(none) /\ Len(none) = 0
          BY ListedNew
        <4> HIDE DEF none
        <4>2. /\ Listed(none \o s) /\ Len(none \o s) = Len(none) + Len(s) /\ Len(s) \in Nat
              /\ \A k \in 1..Len(s) : (none \o s)[Len(none) + k] = s[k]
          BY <4>1, ListedJoin
        <4> DEFINE u == none \o s
        <4> HIDE DEF u
        <4>3. Listed(u) /\ Len(u) = Len(s) /\ \A k \in 1..Len(s) : u[k] = s[k]
          <5>1. \A k \in 1..Len(s) : Len(none) + k = k
            BY <4>1, <4>2
          <5> QED BY <4>1, <4>2, <5>1 DEF u
        <4>4. u = s
          BY <4>3, ListedEqual
        <4> QED BY <4>4 DEF u
      <3> QED BY <1>3, <3>2, <3>3, <3>4
    <2> QED BY <2>2, <2>3
  <1> QED BY <1>2, <1>4, <1>5 DEF a

\* One token later the same is announced; and what the token announces.
LEMMA AnnouncedOn ==
    ASSUME NEW tok, NEW s, Listed(s), Announced(<<tok>> \o s)
    PROVE  Announced(s) /\ (tok.t = "LENGTH" => Announces("READ_HEADER", s, tok.n))
  <1> DEFINE a == <<tok>> \o s
  <1>1. /\ Listed(a) /\ Len(s) \in Nat /\ Len(a) = Len(s) + 1 /\ a[1] = tok
        /\ \A i \in 1..Len(s) : a[i + 1] = s[i]
        /\ \A i \in 0..Len(s) : Drop(a, i + 1) = Drop(s, i)
    BY OneOn, Zenon
  <1>2. Announced(a)
    OBVIOUS
  <1> HIDE DEF a
  <1>3. ASSUME NEW i \in 1..Len(s), s[i].t = "LENGTH"
        PROVE  Announces("READ_HEADER", Drop(s, i), s[i].n)
    <2>1. PICK j \in 1..Len(a) : j = i + 1 /\ i \in 0..Len(s)
      BY <1>1
    <2>2. a[j] = s[i] /\ Drop(a, j) = Drop(s, i)
      BY <1>1, <2>1
    <2>3. a[j].t = "LENGTH" => Announces("READ_HEADER", Drop(a, j), a[j].n)
      BY <1>2 DEF Announced
    <2> QED BY <1>3, <2>2, <2>3
  <1>4. tok.t = "LENGTH" => Announces("READ_HEADER", s, tok.n)
    <2>1. PICK j \in 1..Len(a) : j = 1 /\ 0 \in 0..Len(s) /\ 0 + 1 = 1
      BY <1>1
    <2>2. Drop(a, 1) = Drop(s, 0) /\ Drop(s, 0) = s
      BY <1>1, <2>1, ListedDrops
    <2>3. a[j].t = "LENGTH" => Announces("READ_HEADER", Drop(a, j), a[j].n)
      BY <1>2 DEF Announced
    <2> QED BY <1>1, <2>1, <2>2, <2>3
  <1> QED BY <1>3, <1>4 DEF Announced

\* read_header's machine after a token, as far as the end of the headers is concerned.
LEMMA MachineOn ==
    ASSUME NEW status \in Headers, NEW t
    PROVE  LET on == HeaderStatus(status, t) IN
           /\ on = "BODY_READ" <=> t = "LF" /\ status \in {"ONE_LF", "TWO_CR"}
           /\ on = "ONE_LF" <=> t = "LF" /\ status \notin {"ONE_LF", "TWO_CR"}
           /\ on = "TWO_CR" <=> t = "CR" /\ status \in {"ONE_LF", "TWO_CR"}
           /\ t \notin {"CR", "LF"} => on = "READ_HEADER"
  <1>1. CASE status = "READ_HEADER"
    BY <1>1 DEF HeaderStatus
  <1>2. CASE status = "ONE_CR"
    BY <1>2 DEF HeaderStatus
  <1>3. CASE status = "ONE_LF"
    BY <1>3 DEF HeaderStatus
  <1>4. CASE status = "TWO_CR"
    BY <1>4 DEF HeaderStatus
  <1> QED BY <1>1, <1>2, <1>3, <1>4 DEF Headers

\* Where the headers end does not change by it.
LEMMA CloseOn ==
    ASSUME NEW tok, NEW s, Listed(s), NEW status \in Headers, NEW on,
           on = HeaderStatus(status, tok.t), NEW j \in 1..Len(s)
    PROVE  on # "BODY_READ" => (Closes(status, <<tok>> \o s, j + 1) <=> Closes(on, s, j))
  <1> DEFINE a == <<tok>> \o s
             Ending(u) == u \in {"ONE_LF", "TWO_CR"}
  <1> SUFFICES ASSUME on # "BODY_READ" PROVE Closes(status, a, j + 1) <=> Closes(on, s, j)
    OBVIOUS
  <1>1. /\ Listed(a) /\ Len(s) \in Nat /\ Len(a) = Len(s) + 1 /\ a[1] = tok
        /\ \A i \in 1..Len(s) : a[i + 1] = s[i]
        /\ \A i \in 0..Len(s) : Drop(a, i + 1) = Drop(s, i)
    BY OneOn, Zenon
  <1> HIDE DEF a
  <1>2. Ending(on) <=> tok.t = "LF" \/ (tok.t = "CR" /\ Ending(status))
    <2>1. /\ on = "BODY_READ" <=> tok.t = "LF" /\ Ending(status)
          /\ on = "ONE_LF" <=> tok.t = "LF" /\ ~Ending(status)
          /\ on = "TWO_CR" <=> tok.t = "CR" /\ Ending(status)
      BY MachineOn
    <2> QED BY <2>1
  <1>3. a[j + 1] = s[j]
    BY <1>1
  <1> DEFINE From(u, v, i, k) == /\ IF i = 0 THEN Ending(u) ELSE v[i].t = "LF"
                                 /\ \A m \in (i + 1)..(k - 1) : v[m].t = "CR"
  <1>4. ASSUME NEW i \in 0..j, From(status, a, i, j + 1)
        PROVE  \E h \in 0..(j - 1) : From(on, s, h, j)
    <2>1. CASE i \in {0, 1}
      <3>1. ASSUME NEW m \in 1..(j - 1) PROVE s[m].t = "CR"
        <4>1. m + 1 \in (i + 1)..((j + 1) - 1) /\ m \in 1..Len(s)
          BY <1>1, <2>1
        <4> QED BY <1>1, <1>4, <4>1
      <3>2. Ending(on)
        <4>1. CASE i = 0
          <5>1. 1 \in (0 + 1)..((j + 1) - 1)
            BY <1>1
          <5>2. a[1].t = "CR" /\ Ending(status)
            BY <1>4, <4>1, <5>1
          <5> HIDE DEF Ending
          <5> QED BY <1>1, <1>2, <5>2
        <4>2. CASE i = 1
          <5>1. tok.t = "LF"
            BY <1>1, <1>4, <4>2
          <5> HIDE DEF Ending
          <5> QED BY <1>2, <5>1
        <4> QED BY <2>1, <4>1, <4>2
      <3>3. From(on, s, 0, j) /\ 0 \in 0..(j - 1)
        <4> HIDE DEF Ending
        <4> QED BY <1>1, <3>1, <3>2
      <3> HIDE DEF From
      <3> QED BY <3>3
    <2>2. CASE i \notin {0, 1}
      <3>1. PICK h \in 1..(j - 1) : h + 1 = i /\ h \in 1..Len(s) /\ h # 0
        <4>1. i - 1 \in 1..(j - 1) /\ (i - 1) + 1 = i /\ i - 1 \in 1..Len(s) /\ i - 1 # 0
          BY <1>1, <2>2
        <4> QED BY <4>1
      <3>2. s[h].t = "LF"
        BY <1>1, <1>4, <2>2, <3>1
      <3>3. ASSUME NEW m \in (h + 1)..(j - 1) PROVE s[m].t = "CR"
        <4>1. m + 1 \in (i + 1)..((j + 1) - 1) /\ m \in 1..Len(s)
          BY <1>1, <3>1
        <4> QED BY <1>1, <1>4, <4>1
      <3>4. From(on, s, h, j) /\ h \in 0..(j - 1)
        <4> HIDE DEF Ending
        <4> QED BY <1>1, <3>1, <3>2, <3>3
      <3> HIDE DEF From
      <3> QED BY <3>4
    <2> QED BY <2>1, <2>2
  <1>5. ASSUME NEW h \in 0..(j - 1), From(on, s, h, j)
        PROVE  \E i \in 0..j : From(status, a, i, j + 1)
    <2>1. CASE h = 0
      <3>1. Ending(on) /\ \A m \in 1..(j - 1) : s[m].t = "CR"
        BY <1>5, <2>1
      <3>2. ASSUME NEW m \in 2..j PROVE a[m].t = "CR"
        <4>1. PICK i \in 1..(j - 1) : i + 1 = m /\ i \in 1..Len(s)
          <5>1. m - 1 \in 1..(j - 1) /\ (m - 1) + 1 = m /\ m - 1 \in 1..Len(s)
            BY <1>1
          <5> QED BY <5>1
        <4> QED BY <1>1, <3>1, <4>1
      <3>3. CASE tok.t = "LF"
        <4>1. From(status, a, 1, j + 1) /\ 1 \in 0..j
          BY <1>1, <3>2, <3>3
        <4> HIDE DEF From
        <4> QED BY <4>1
      <3>4. CASE tok.t = "CR" /\ Ending(status)
        <4>1. \A m \in 1..j : m = 1 \/ m \in 2..j
          BY <1>1
        <4>2. \A m \in 1..j : a[m].t = "CR"
          BY <1>1, <3>2, <3>4, <4>1
        <4>3. From(status, a, 0, j + 1) /\ 0 \in 0..j
          <5> HIDE DEF Ending
          <5> QED BY <1>1, <3>4, <4>2
        <4> HIDE DEF From
        <4> QED BY <4>3
      <3> HIDE DEF Ending
      <3> QED BY <1>2, <3>1, <3>3, <3>4
    <2>2. CASE h # 0
      <3>1. PICK i \in 0..j : i = h + 1 /\ i # 0 /\ h \in 1..Len(s)
        <4>1. h + 1 \in 0..j /\ h + 1 # 0 /\ h \in 1..Len(s)
          BY <1>1, <2>2
        <4> QED BY <4>1
      <3>2. a[i].t = "LF"
        BY <1>1, <1>5, <2>2, <3>1
      <3>3. ASSUME NEW m \in (i + 1)..((j + 1) - 1) PROVE a[m].t = "CR"
        <4>1. PICK k \in (h + 1)..(j - 1) : k + 1 = m /\ k \in 1..Len(s)
          <5>1. m - 1 \in (h + 1)..(j - 1) /\ (m - 1) + 1 = m /\ m - 1 \in 1..Len(s)
            BY <1>1, <3>1
          <5> QED BY <5>1
        <4> QED BY <1>1, <1>5, <4>1
      <3>4. From(status, a, i, j + 1)
        <4> HIDE DEF Ending
        <4> QED BY <3>1, <3>2, <3>3
      <3> HIDE DEF From
      <3> QED BY <3>4
    <2> QED BY <2>1, <2>2
  <1>6. Closes(status, a, j + 1) <=> a[j + 1].t = "LF" /\ \E i \in 0..j : From(status, a, i, j + 1)
    <2>1. (j + 1) - 1 = j
      BY <1>1
    <2> QED BY <2>1 DEF Closes
  <1>7. Closes(on, s, j) <=> s[j].t = "LF" /\ \E h \in 0..(j - 1) : From(on, s, h, j)
    BY DEF Closes
  <1> HIDE DEF From
  <1> QED BY <1>3, <1>4, <1>5, <1>6, <1>7

\* A length that is announced stays so while the headers are read; at their end the body
\* is there.
LEMMA AnnouncesOn ==
    ASSUME NEW tok, NEW s, Listed(s), NEW status \in Headers, NEW on,
           on = HeaderStatus(status, tok.t), NEW m, Announces(status, <<tok>> \o s, m)
    PROVE  IF on = "BODY_READ" THEN BodyFrom(s, 0, m) ELSE Announces(on, s, m)
  <1> DEFINE a == <<tok>> \o s
  <1>1. /\ Listed(a) /\ Len(s) \in Nat /\ Len(a) = Len(s) + 1 /\ a[1] = tok
        /\ \A i \in 1..Len(s) : a[i + 1] = s[i]
        /\ \A i \in 0..Len(s) : Drop(a, i + 1) = Drop(s, i)
    BY OneOn, Zenon
  <1>2. \A j \in 1..Len(s) : on # "BODY_READ" => (Closes(status, a, j + 1) <=> Closes(on, s, j))
    BY CloseOn
  <1>3. Announces(status, a, m)
    OBVIOUS
  <1>4. Closes(status, a, 1) <=> on = "BODY_READ"
    <2>1. on = "BODY_READ" <=> tok.t = "LF" /\ status \in {"ONE_LF", "TWO_CR"}
      BY MachineOn
    <2>2. 1 - 1 = 0 /\ 0..0 = {0} /\ (0 + 1)..0 = {}
      OBVIOUS
    <2> HIDE DEF a
    <2> QED BY <1>1, <2>1, <2>2 DEF Closes
  <1> HIDE DEF a
  <1>5. ASSUME on = "BODY_READ" PROVE BodyFrom(s, 0, m)
    <2>1. 1 \in 1..Len(a) /\ 0 \in 0..Len(s) /\ 0 + 1 = 1 /\ 1..(1 - 1) = {}
      BY <1>1
    <2>2. BodyFrom(Drop(a, 1), 0, m)
      BY <1>3, <1>4, <1>5, <2>1 DEF Announces
    <2>3. Drop(a, 1) = s
      BY <1>1, <2>1, ListedDrops
    <2> QED BY <2>2, <2>3
  <1>6. ASSUME on # "BODY_READ", NEW j \in 1..Len(s), Closes(on, s, j),
               \A i \in 1..(j - 1) : ~Closes(on, s, i)
        PROVE  BodyFrom(Drop(s, j), 0, m)
    <2>1. PICK k \in 1..Len(a) : k = j + 1 /\ j \in 0..Len(s)
      BY <1>1
    <2>2. ASSUME NEW i \in 1..(k - 1) PROVE ~Closes(status, a, i)
      <3>1. CASE i = 1
        BY <1>4, <1>6, <3>1
      <3>2. CASE i # 1
        <4>1. PICK h \in 1..(j - 1) : h + 1 = i /\ h \in 1..Len(s)
          <5>1. i - 1 \in 1..(j - 1) /\ (i - 1) + 1 = i /\ i - 1 \in 1..Len(s)
            BY <1>1, <2>1, <3>2
          <5> QED BY <5>1
        <4> QED BY <1>2, <1>6, <4>1
      <3> QED BY <3>1, <3>2
    <2>3. Closes(status, a, k)
      BY <1>2, <1>6, <2>1
    <2>4. BodyFrom(Drop(a, k), 0, m)
      BY <1>3, <2>2, <2>3 DEF Announces
    <2> QED BY <1>1, <2>1, <2>4
  <1> QED BY <1>5, <1>6 DEF Announces

\* What is ahead of a request is made of tokens.
LEMMA AheadTyped ==
    ASSUME NEW r, RequestTyped(r), NEW n, NetTyped(n)
    PROVE  /\ Waiting(n) \in Seq(Token) /\ n.inq \in Seq(Token) /\ FlattenSeq(n.more) \in Seq(Token)
           /\ Ahead(r, n) \in Seq(Token) /\ Drop(r.stream, r.parse_pos) \in Seq(Token)
  <1>1. n.inq \in Seq(Token) /\ n.more \in Seq(Seq(Token))
    BY DEF NetTyped
  <1>2. FlattenSeq(n.more) \in Seq(Token)
    BY <1>1, FlatParts
  <1>3. Waiting(n) \in Seq(Token)
    BY <1>1, <1>2, ConcatProperties DEF Waiting
  <1>4. Drop(r.stream, r.parse_pos) \in Seq(Token)
    <2>1. r.stream \in Seq(Token) /\ r.parse_pos \in Int /\ r.parse_pos >= 0
      BY DEF RequestTyped
    <2> QED BY <2>1, Pieces
  <1>5. Ahead(r, n) \in Seq(Token)
    BY <1>3, <1>4, ConcatProperties DEF Ahead
  <1> QED BY <1>1, <1>2, <1>3, <1>4, <1>5

\* The next token of the stream is in front.
LEMMA AheadOn ==
    ASSUME NEW r, RequestTyped(r), NEW n, NetTyped(n), NEW q, RequestTyped(q), NEW tok,
           r.parse_pos < Len(r.stream), tok = r.stream[r.parse_pos + 1],
           q.stream = r.stream, q.parse_pos = r.parse_pos + 1
    PROVE  Ahead(r, n) = <<tok>> \o Ahead(q, n)
  <1> DEFINE s == r.stream
             p == r.parse_pos
             u == Drop(s, p)
             v == Drop(s, p + 1)
             W == Waiting(n)
             one == <<tok>>
  <1>1. s \in Seq(Token) /\ p \in Nat /\ Len(s) \in Nat /\ p + 1 \in 0..Len(s) /\ p \in 0..Len(s)
        /\ 1 \in 0..(Len(s) - p) /\ p < Len(s)
    BY DEF RequestTyped
  <1>2. Listed(s) /\ Listed(u) /\ Listed(v) /\ Listed(W) /\ Listed(one)
    <2>1. Listed(s) /\ Listed(W)
      BY <1>1, AheadTyped, ListedAny
    <2> QED BY <1>1, <2>1, ListedParts, ListedNew
  <1>3. u = one \o v
    <2>1. Len(u) = Len(s) - p /\ \A i \in 1..(Len(s) - p) : u[i] = s[p + i]
      BY <1>1, <1>2, ListedHalves
    <2>2. 1 \in 0..Len(u) /\ 1 \in 1..(Len(s) - p)
      BY <1>1, <2>1
    <2>3. /\ Listed(Take(u, 1)) /\ Len(Take(u, 1)) = 1 /\ Take(u, 1) \o Drop(u, 1) = u
          /\ \A i \in 1..1 : Take(u, 1)[i] = u[i]
      BY <1>2, <2>2, ListedHalves
    <2>4. Take(u, 1) = one
      <3>1. Len(one) = 1 /\ one[1] = tok
        OBVIOUS
      <3>2. Take(u, 1)[1] = s[p + 1]
        BY <2>1, <2>2, <2>3
      <3> HIDE DEF u, one
      <3>3. \A i \in 1..Len(one) : one[i] = Take(u, 1)[i]
        BY <3>1, <3>2
      <3>4. Len(one) = Len(Take(u, 1))
        BY <2>3, <3>1
      <3> QED BY <1>2, <2>3, <3>3, <3>4, ListedEqual
    <2>5. Drop(u, 1) = v
      BY <1>1, <1>2, DropTwice
    <2> HIDE DEF u, v, one
    <2> QED BY <2>3, <2>4, <2>5
  <1> HIDE DEF u, v, W, one, s, p
  <1>4. (one \o v) \o W = one \o (v \o W)
    BY <1>2, ListedThree
  <1>5. Ahead(r, n) = u \o W /\ Ahead(q, n) = v \o W
    BY DEF Ahead, u, v, W, s, p
  <1> QED BY <1>3, <1>4, <1>5 DEF one

\* What a handler leaves behind: the request it has run is over, or as PostInv has it.
Settled(w) ==
    Fed(w.src) /\ (IF w.ret = 0 THEN Chained(w.r, w.n) ELSE Posted(w.r, w.n))

\* While the headers are read.
Hears(w) == Fed(w.src) /\ w.r.status \in Headers /\ Reading(w.r, w.n)

\* What is ahead of a request, and whether its connection is kept, are left alone.
LEMMA TellsAhead ==
    ASSUME NEW v, NEW w, Tells(v, w)
    PROVE  /\ Ahead(w.r, w.n) = Ahead(v.r, v.n) /\ Waiting(w.n) = Waiting(v.n)
           /\ Chained(v.r, v.n) => Chained(w.r, w.n)
           /\ Reading(v.r, v.n) /\ w.r.status = v.r.status => Reading(w.r, w.n)
  <1>1. Ahead(w.r, w.n) = Ahead(v.r, v.n) /\ Waiting(w.n) = Waiting(v.n)
    BY DEF Tells, Told, Ahead, Waiting
  <1>2. Chained(v.r, v.n) => Chained(w.r, w.n)
    BY <1>1 DEF Tells, Told, Chained
  <1>3. Reading(v.r, v.n) /\ w.r.status = v.r.status => Reading(w.r, w.n)
    BY <1>1 DEF Tells, Told, Reading
  <1> QED BY <1>1, <1>2, <1>3

\* A request that has been read, or is over.
LEMMA LateSettled ==
    ASSUME NEW v, NEW w, Tells(v, w), Fed(v.src), Chained(v.r, v.n),
           w.ret = 0 \/ w.r.status \notin Early
    PROVE  Settled(w)
  <1>1. Chained(w.r, w.n) /\ Fed(w.src)
    BY TellsAhead DEF Tells
  <1> QED BY <1>1, EarlyHeaders DEF Settled, Posted

\* A request that is still being read.
LEMMA HearsSettled ==
    ASSUME NEW w, Hears(w)
    PROVE  Settled(w) /\ Chained(w.r, w.n)
  <1>1. w.r.status \in Early /\ w.r.status \notin {"BODY_READ", "BODY_WRITE"}
    BY EarlyHeaders DEF Hears, Headers
  <1> QED BY <1>1 DEF Hears, Settled, Posted, Reading, Chained

\* A header line.
LEMMA OptionHears ==
    ASSUME NEW w, HasParts(w), Hears(w), NEW line,
           line.t = "LENGTH" => Announces(w.r.status, Ahead(w.r, w.n), line.n)
    PROVE  LET v == process_option_line(w, line) IN
           Hears(v) /\ v.r.stream = w.r.stream /\ v.r.parse_pos = w.r.parse_pos
  <1> DEFINE r == w.r
             word == IF line.t = "KEEP" THEN "active" ELSE "stopped"
             alive == [w EXCEPT !.r.keepalive = word]
             more == [w EXCEPT !.r = add_cgi_env(r)]
             long == [w EXCEPT !.r.clen = line.n]
             v == process_option_line(w, line)
             Same(u) == Hears(u) /\ u.r.stream = w.r.stream /\ u.r.parse_pos = w.r.parse_pos
  <1>1. v \in {alive, more, GiveUp(w)} \/ (v = long /\ line.t = "LENGTH")
    <2> DEFINE other == IF r.envs < CGI_ENV_MAX THEN more ELSE GiveUp(w)
    <2>1. v = CASE line.t \in {"KEEP", "CLOSE"} ->
                     IF ka_max > 0 /\ r.keepalive # "stopped" THEN alive ELSE other
                [] line.t = "LENGTH" /\ r.clen = -1 -> long
                [] line.t \in NoColon -> GiveUp(w)
                [] OTHER -> other
      BY Zenon DEF process_option_line
    <2>2. other \in {more, GiveUp(w)}
      BY Zenon
    <2> HIDE DEF v, alive, more, long, other
    <2>3. CASE line.t \in {"KEEP", "CLOSE"}
      BY <2>1, <2>2, <2>3
    <2>4. CASE line.t \notin {"KEEP", "CLOSE"} /\ (line.t = "LENGTH" \/ line.t \in NoColon)
      BY <2>1, <2>2, <2>4
    <2>5. CASE line.t \notin {"KEEP", "CLOSE", "LENGTH"} \cup NoColon
      BY <2>1, <2>2, <2>5
    <2> QED BY <2>3, <2>4, <2>5
  <1>2. HasFields(r)
    BY DEF HasParts
  <1>3. ASSUME NEW q, NEW u, u.r = q, u.n = w.n, u.src = w.src,
               q.status = r.status, q.stream = r.stream, q.parse_pos = r.parse_pos,
               q.line = r.line, q.temp = r.temp,
               q.clen = r.clen \/ Announces(r.status, Ahead(r, w.n), q.clen)
        PROVE  Same(u)
    <2>1. Ahead(q, w.n) = Ahead(r, w.n)
      BY <1>3 DEF Ahead
    <2>2. Announces(r.status, Ahead(r, w.n), q.clen)
      BY <1>3 DEF Hears, Reading
    <2>3. Reading(q, w.n)
      BY <1>3, <2>1, <2>2 DEF Hears, Reading
    <2> QED BY <1>3, <2>3 DEF Hears
  <1>4. Same(alive)
    <2> DEFINE q == [r EXCEPT !.keepalive = word]
    <2> HIDE DEF word
    <2>1. /\ q.status = r.status /\ q.stream = r.stream /\ q.parse_pos = r.parse_pos
          /\ q.line = r.line /\ q.temp = r.temp /\ q.clen = r.clen
      BY <1>2 DEF HasFields
    <2>2. alive.r = q /\ alive.n = w.n /\ alive.src = w.src
      BY DEF HasParts
    <2> HIDE DEF q, alive, Same
    <2> QED BY <1>3, <2>1, <2>2
  <1>5. Same(more)
    <2> DEFINE q == add_cgi_env(r)
    <2>1. /\ q.status = r.status /\ q.stream = r.stream /\ q.parse_pos = r.parse_pos
          /\ q.line = r.line /\ q.temp = r.temp /\ q.clen = r.clen
      BY <1>2 DEF HasFields, add_cgi_env
    <2> HIDE DEF q
    <2>2. more.r = q /\ more.n = w.n /\ more.src = w.src
      BY DEF HasParts, q
    <2> HIDE DEF more, Same
    <2> QED BY <1>3, <2>1, <2>2
  <1>6. line.t = "LENGTH" => Same(long)
    <2> DEFINE q == [r EXCEPT !.clen = line.n]
    <2>1. /\ q.status = r.status /\ q.stream = r.stream /\ q.parse_pos = r.parse_pos
          /\ q.line = r.line /\ q.temp = r.temp /\ q.clen = line.n
      BY <1>2 DEF HasFields
    <2>2. long.r = q /\ long.n = w.n /\ long.src = w.src
      BY DEF HasParts
    <2> HIDE DEF q, long, Same
    <2> QED BY <1>3, <2>1, <2>2
  <1>7. Same(GiveUp(w))
    <2>1. GiveUp(w).r = r /\ GiveUp(w).n = w.n /\ GiveUp(w).src = w.src
      BY DEF GiveUp, HasParts
    <2> HIDE DEF Same
    <2> QED BY <1>3, <2>1
  <1> HIDE DEF v, alive, more, long, Same
  <1>8. Same(v)
    BY <1>1, <1>4, <1>5, <1>6, <1>7
  <1> QED BY <1>8 DEF v, Same

\* The request line.
LEMMA LogTells ==
    ASSUME NEW w, HasParts(w), NEW line
    PROVE  Tells(w, process_logline(w, line))
  <1> DEFINE r == [w.r EXCEPT !.logline = "yes"]
             method == CASE line.t \in {"GET", "GET09"}   -> "GET"
                         [] line.t \in {"POST", "POST09"} -> "POST"
                         [] line.t = "HEAD"               -> "HEAD"
                         [] OTHER                         -> "none"
             simple == IF line.t \in {"GET09", "POST09"} THEN "yes" ELSE "no"
             r1 == [r EXCEPT !.method = method, !.uri = line.n, !.simple = simple]
             on == [w EXCEPT !.r = r1]
             bad == [w EXCEPT !.r = r]
             v == process_logline(w, line)
  <1>1. v \in {Refuse(bad, 501), on}
    BY Zenon DEF process_logline
  <1>2. HasFields(w.r)
    BY DEF HasParts
  <1>3. Told(w.r, r1) /\ r1.status = w.r.status
    <2> HIDE DEF method, simple
    <2> QED BY <1>2 DEF Told, HasFields
  <1>4. Like(w, bad)
    <2>1. Kin(w.r, r)
      BY <1>2 DEF Kin, SameHold, Told, HasFields, RequestTyped
    <2> QED BY <2>1, Replaced
  <1> HIDE DEF r1, bad
  <1>5. Tells(w, on)
    BY <1>3 DEF Tells, HasParts
  <1>6. Tells(w, Refuse(bad, 501))
    BY <1>4, LikeHas, LikeTrans, Refused, LikeTells
  <1> HIDE DEF on, v
  <1>7. Tells(w, v)
    BY <1>1, <1>5, <1>6
  <1> QED BY <1>7 DEF v

\* What of a body has come, and what is yet to come, are the body.
LEMMA BodyCut ==
    ASSUME NEW s, NEW t, Listed(s), Listed(t), NEW m \in Int, m > 0, BodyFrom(s \o t, 0, m)
    PROVE  BodyFrom(Take(s, Least(Len(s), m)) \o t, 0, m)
  <1> DEFINE k == Least(Len(s), m)
             a == Take(s, k)
             st == s \o t
             at == a \o t
  <1>1. Len(s) \in Nat /\ k \in 0..Len(s) /\ k <= m /\ (k = Len(s) \/ k = m)
    <2>1. Len(s) \in Nat
      BY ListedParts
    <2> QED BY <2>1 DEF Least
  <1> HIDE DEF k
  <1>2. Listed(a) /\ Len(a) = k /\ \A i \in 1..k : a[i] = s[i]
    BY <1>1, ListedHalves
  <1>3. CASE k = Len(s)
    <2>1. a = s
      BY <1>3, ListedDrops
    <2> QED BY <2>1 DEF k
  <1>4. CASE k = m
    <2> HIDE DEF a
    <2>1. /\ Len(at) = k + Len(t) /\ Len(t) \in Nat
          /\ \A i \in 1..Len(a) : at[i] = a[i]
      BY <1>2, ListedJoin
    <2>2. Len(st) = Len(s) + Len(t) /\ \A i \in 1..Len(s) : st[i] = s[i]
      BY ListedJoin
    <2>3. \A i \in 1..Len(st) : 0 + i <= m => st[i] = Tok("body", 0 + i)
      BY DEF BodyFrom
    <2> HIDE DEF at, st
    <2>4. ASSUME NEW i \in 1..Len(at), 0 + i <= m PROVE at[i] = Tok("body", 0 + i)
      <3>1. i \in 1..k /\ i \in 1..Len(s) /\ i \in 1..Len(st) /\ i \in 1..Len(a)
        BY <1>1, <1>2, <1>4, <2>1, <2>2, <2>4
      <3> QED BY <1>2, <2>1, <2>2, <2>3, <2>4, <3>1
    <2>5. BodyFrom(at, 0, m)
      BY <2>4 DEF BodyFrom
    <2> QED BY <2>5 DEF at, a, k
  <1> QED BY <1>1, <1>3, <1>4

\* A connection that is not kept.
LEMMA StoppedSettled ==
    ASSUME NEW w, Fed(w.src), w.ret = 0, w.r.keepalive # "active"
    PROVE  Settled(w)
  BY DEF Settled, Chained

\* The end of the headers of a POST.
LEMMA BeginSettles ==
    ASSUME NEW w, HasParts(w), RequestTyped(w.r), NetTyped(w.n), Fed(w.src), w.r.temp = <<>>,
           BodyFrom(Ahead(w.r, w.n), 0, w.r.clen)
    PROVE  Settled(PostBegin(w)) /\ PostBegin(w).ret \in {0, 1}
  <1> DEFINE r == [w.r EXCEPT !.status = "BODY_WRITE"]
             come == Drop(r.stream, r.parse_pos)
             part == Take(come, Least(Len(come), r.clen))
             bad == [w EXCEPT !.r = [r EXCEPT !.data = come]]
             on == [w EXCEPT !.r = [r EXCEPT !.filesize = r.clen, !.filepos = 0, !.data = part],
                             !.ret = 1]
             v == PostBegin(w)
  <1>1. v = Refuse(bad, 400) \/ (v = on /\ ~(r.clen <= 0))
    BY Zenon DEF PostBegin
  <1>2. /\ r.clen = w.r.clen /\ r.stream = w.r.stream /\ r.parse_pos = w.r.parse_pos
        /\ r.temp = <<>> /\ r.status = "BODY_WRITE" /\ DOMAIN r = DOMAIN w.r /\ HasFields(r)
    BY DEF HasParts, HasFields
  <1> HIDE DEF r
  <1>3. HasParts(bad) /\ bad.src = w.src
    <2> HIDE DEF come
    <2>1. bad.r = [r EXCEPT !.data = come] /\ bad.n = w.n /\ bad.src = w.src /\ DOMAIN bad = DOMAIN w
      BY DEF HasParts
    <2> HIDE DEF bad
    <2> QED BY <1>2, <2>1 DEF HasParts, HasFields
  <1>4. Settled(Refuse(bad, 400)) /\ Refuse(bad, 400).ret = 0
    <2> HIDE DEF bad
    <2>1. Like(bad, Refuse(bad, 400)) /\ Refuse(bad, 400).ret = 0
      BY <1>3, Refused
    <2>2. Refuse(bad, 400).r.keepalive # "active"
      BY <1>3, SentStops
    <2>3. Fed(Refuse(bad, 400).src)
      BY <1>3, <2>1 DEF Like, SameTables
    <2> QED BY <2>1, <2>2, <2>3, StoppedSettled
  <1>5. ASSUME ~(r.clen <= 0) PROVE Settled(on) /\ on.ret = 1
    <2>1. w.r.clen \in Int /\ w.r.clen > 0
      BY <1>2, <1>5 DEF RequestTyped
    <2>2. Listed(come) /\ Listed(Waiting(w.n)) /\ Ahead(w.r, w.n) = come \o Waiting(w.n)
      <3>1. Drop(w.r.stream, w.r.parse_pos) \in Seq(Token) /\ Waiting(w.n) \in Seq(Token)
        BY AheadTyped
      <3>2. Listed(Drop(w.r.stream, w.r.parse_pos)) /\ Listed(Waiting(w.n))
        BY <3>1, ListedAny
      <3> QED BY <1>2, <3>2 DEF Ahead
    <2>3. BodyFrom(part \o Waiting(w.n), 0, w.r.clen)
      <3>1. BodyFrom(come \o Waiting(w.n), 0, w.r.clen)
        BY <2>2
      <3> HIDE DEF come
      <3>2. BodyFrom(Take(come, Least(Len(come), w.r.clen)) \o Waiting(w.n), 0, w.r.clen)
        BY <2>1, <2>2, <3>1, BodyCut
      <3> QED BY <1>2, <3>2
    <2> HIDE DEF part
    <2> DEFINE q == [r EXCEPT !.filesize = r.clen, !.filepos = 0, !.data = part]
    <2>4. on.r = q /\ on.n = w.n /\ on.src = w.src /\ on.ret = 1
      BY DEF HasParts
    <2>5. q.status = "BODY_WRITE" /\ q.filesize = w.r.clen /\ q.filepos = 0 /\ q.data = part /\ q.temp = <<>>
      BY <1>2 DEF HasFields
    <2> HIDE DEF on, q
    <2>6. <<>> = Bodies(0)
      BY DEF Bodies
    <2>7. Saving(q, w.n)
      BY <2>3, <2>5, <2>6 DEF Saving
    <2>8. Posted(q, w.n)
      BY <2>5, <2>7, EarlyHeaders DEF Posted, Headers
    <2> QED BY <2>4, <2>8 DEF Settled
  <1> HIDE DEF on, bad, v
  <1>6. Settled(v) /\ v.ret \in {0, 1}
    BY <1>1, <1>4, <1>5
  <1> QED BY <1>6 DEF v

\* What the end of the headers starts: the request is over, is being answered, or is a
\* POST whose body is to be read.
LEMMA EndTells ==
    ASSUME NEW w, NEW o0, NEW O, NEW c, Sound(w, o0, O, c), Bare(w.r), Fed(w.src),
           Announced(Ahead(w.r, w.n)), NEW fault
    PROVE  LET v == process_header_end(w, fault) IN
           /\ Sound(v, o0, O, c) /\ Tells(w, v) /\ Fed(v.src) /\ v.ret \in {0, 1}
           /\ v.r.method # "POST" \/ v.ret = 0 => Settled(v)
           /\ v.r.method = "POST" /\ v.ret # 0 => v.r.status = w.r.status
  <1> DEFINE v == process_header_end(w, fault)
  <1>1. /\ Good(w, v, o0, O, c)
        /\ v.r.method = "POST" /\ v.ret # 0 => Bare(v.r) /\ v.r.status = w.r.status
        /\ v.r.method # "POST" /\ v.ret # 0 => v.r.status \notin Early
    BY EndSound, Zenon
  <1> HIDE DEF v
  <1>2. Sound(v, o0, O, c) /\ Tells(w, v) /\ v.ret \in {0, 1}
    BY <1>1 DEF Good
  <1>3. Chained(w.r, w.n)
    BY DEF Chained
  <1>4. Fed(v.src) /\ (v.r.method # "POST" \/ v.ret = 0 => Settled(v))
    <2>1. Fed(v.src)
      BY <1>2 DEF Tells
    <2> QED BY <1>1, <1>2, <1>3, <2>1, LateSettled
  <1> QED BY <1>1, <1>2, <1>4 DEF v

\* An HTTP/0.9 POST goes on as if its headers were still coming.
LEMMA FirstSettles ==
    ASSUME NEW w, NEW o0, NEW O, NEW c, Sound(w, o0, O, c), Bare(w.r), Hears(w), NEW fault
    PROVE  Settled(process_header_end(w, fault))
  <1> DEFINE v == process_header_end(w, fault)
  <1>1. Announced(Ahead(w.r, w.n)) /\ Fed(w.src) /\ Reading(w.r, w.n) /\ w.r.status \in Headers
    BY DEF Hears, Reading
  <1>2. /\ Tells(w, v) /\ Fed(v.src) /\ v.ret \in {0, 1}
        /\ v.r.method # "POST" \/ v.ret = 0 => Settled(v)
        /\ v.r.method = "POST" /\ v.ret # 0 => v.r.status = w.r.status
    BY <1>1, EndTells
  <1> HIDE DEF v
  <1>3. ASSUME v.r.status = w.r.status PROVE Settled(v)
    <2>1. Reading(v.r, v.n)
      BY <1>1, <1>2, <1>3, TellsAhead
    <2>2. Hears(v)
      BY <1>1, <1>2, <1>3, <2>1 DEF Hears
    <2> QED BY <2>2, HearsSettled
  <1>4. Settled(v)
    BY <1>2, <1>3
  <1> QED BY <1>4 DEF v

\* Any other POST finds its body behind them.
LEMMA LastSettles ==
    ASSUME NEW w, NEW o0, NEW O, NEW c, Sound(w, o0, O, c), Bare(w.r), Fed(w.src),
           Announced(Ahead(w.r, w.n)), BodyFrom(Ahead(w.r, w.n), 0, w.r.clen),
           w.r.temp = <<>>, NEW fault
    PROVE  LET v == AfterEnd(process_header_end(w, fault)) IN
           Settled(v) /\ v.ret \in {0, 1}
  <1> DEFINE v == process_header_end(w, fault)
  <1>1. /\ Sound(v, o0, O, c) /\ Tells(w, v) /\ Fed(v.src) /\ v.ret \in {0, 1}
        /\ v.r.method # "POST" \/ v.ret = 0 => Settled(v)
    BY EndTells
  <1> HIDE DEF v
  <1>2. HasParts(v) /\ RequestTyped(v.r) /\ NetTyped(v.n)
    BY <1>1 DEF Sound
  <1>3. Ahead(v.r, v.n) = Ahead(w.r, w.n) /\ v.r.temp = <<>> /\ v.r.clen = w.r.clen
    <2>1. Ahead(v.r, v.n) = Ahead(w.r, w.n)
      BY <1>1, TellsAhead
    <2> QED BY <1>1, <2>1 DEF Tells, Told
  <1>4. BodyFrom(Ahead(v.r, v.n), 0, v.r.clen)
    BY <1>3
  <1>5. Settled(PostBegin(v)) /\ PostBegin(v).ret \in {0, 1}
    BY <1>1, <1>2, <1>3, <1>4, BeginSettles
  <1>6. Settled(AfterEnd(v)) /\ AfterEnd(v).ret \in {0, 1}
    BY <1>1, <1>5 DEF AfterEnd
  <1> QED BY <1>6 DEF v

\* One token of the headers.
LEMMA TokenHears ==
    ASSUME NEW w, HasParts(w), RequestTyped(w.r), NetTyped(w.n), Hears(w), NEW tok,
           w.r.parse_pos < Len(w.r.stream), tok = w.r.stream[w.r.parse_pos + 1],
           NEW p, p.n = w.n, RequestTyped(p.r), p.r.stream = w.r.stream,
           p.r.parse_pos = w.r.parse_pos + 1, p.r.temp = w.r.temp, p.r.clen = w.r.clen,
           p.r.status = HeaderStatus(w.r.status, tok.t),
           p.r.line = w.r.line \/ (p.r.line = tok /\ tok.t \notin {"CR", "LF"})
    PROVE  /\ Announced(Ahead(p.r, p.n)) /\ p.r.temp = <<>> /\ p.r.parse_pos <= Len(p.r.stream)
           /\ IF p.r.status = "BODY_READ" THEN BodyFrom(Ahead(p.r, p.n), 0, p.r.clen)
              ELSE Reading(p.r, p.n)
  <1> DEFINE s == Ahead(p.r, p.n)
             on == p.r.status
  <1>1. Ahead(w.r, w.n) = <<tok>> \o s
    <2>1. Ahead(w.r, p.n) = <<tok>> \o Ahead(p.r, p.n)
      BY AheadOn
    <2> QED BY <2>1
  <1>2. Listed(s)
    <2>1. s \in Seq(Token)
      BY AheadTyped
    <2> QED BY <2>1, ListedAny
  <1>3. /\ w.r.status \in Headers /\ w.r.temp = <<>> /\ Announced(<<tok>> \o s)
        /\ Announces(w.r.status, <<tok>> \o s, w.r.clen)
        /\ w.r.line.t = "LENGTH" => Announces(w.r.status, <<tok>> \o s, w.r.line.n)
    BY <1>1 DEF Hears, Reading
  <1> HIDE DEF s, on
  <1>4. Announced(s) /\ (tok.t = "LENGTH" => Announces("READ_HEADER", s, tok.n))
    BY <1>2, <1>3, AnnouncedOn
  <1>5. on = HeaderStatus(w.r.status, tok.t)
    BY DEF on
  <1>6. IF on = "BODY_READ" THEN BodyFrom(s, 0, w.r.clen) ELSE Announces(on, s, w.r.clen)
    BY <1>2, <1>3, <1>5, AnnouncesOn
  <1>7. w.r.line.t = "LENGTH" =>
          IF on = "BODY_READ" THEN BodyFrom(s, 0, w.r.line.n) ELSE Announces(on, s, w.r.line.n)
    BY <1>2, <1>3, <1>5, AnnouncesOn
  <1>8. tok.t \notin {"CR", "LF"} => on = "READ_HEADER"
    BY <1>3, <1>5, MachineOn
  <1>9. on # "BODY_READ" /\ p.r.line.t = "LENGTH" => Announces(on, s, p.r.line.n)
    <2>1. CASE p.r.line = w.r.line
      BY <1>7, <2>1
    <2>2. CASE p.r.line = tok /\ tok.t \notin {"CR", "LF"}
      BY <1>4, <1>8, <2>2
    <2> QED BY <2>1, <2>2
  <1>10. p.r.parse_pos <= Len(p.r.stream)
    BY DEF RequestTyped
  <1>11. on # "BODY_READ" => Reading(p.r, p.n)
    BY <1>3, <1>4, <1>6, <1>9, <1>10 DEF Reading, s, on
  <1> QED BY <1>3, <1>4, <1>6, <1>10, <1>11 DEF s, on

\* One token of read_header's loop.
LEMMA ScanHears ==
    ASSUME NEW w, NEW o0, NEW O, NEW c, Scanning(w, o0, O, c), w.ret = Go, Hears(w),
           NEW tok \in Token, NEW fault,
           w.r.parse_pos < Len(w.r.stream), tok = w.r.stream[w.r.parse_pos + 1]
    PROVE  LET v == Scan(w, tok, fault) IN
           IF v.ret = Go
           THEN Hears(v) /\ v.r.stream = w.r.stream /\ v.r.parse_pos = w.r.parse_pos + 1
           ELSE Settled(v)
  <1> DEFINE s == HeaderStatus(w.r.status, tok.t)
             line == IF tok.t \in {"CR", "LF"} \/ w.r.line # NoLine THEN w.r.line ELSE tok
             p == [w EXCEPT !.r.status = s, !.r.parse_pos = @ + 1, !.r.line = line]
             fresh == [p EXCEPT !.r.line = NoLine]
             log == process_logline(fresh, p.r.line)
             p1 == [p EXCEPT !.ret = 1]
             end == process_header_end(p1, fault)
             v == Scan(w, tok, fault)
             Fine(u) == IF u.ret = Go
                        THEN Hears(u) /\ u.r.stream = w.r.stream /\ u.r.parse_pos = w.r.parse_pos + 1
                        ELSE Settled(u)
  <1> SUFFICES Fine(v)
    OBVIOUS
  <1>1. s \in Headers \cup {"BODY_READ"}
    BY HeaderStep DEF Scanning
  <1>2. \/ v = p /\ s # "BODY_READ"
        \/ v = process_option_line(fresh, p.r.line) /\ s = "ONE_LF"
        \/ v = AfterFirst(log, p.r.line, fault) /\ s = "ONE_LF"
        \/ v = AfterEnd(end) /\ s = "BODY_READ"
    <2>1. v = CASE w.ret # Go -> w
                [] w.ret = Go /\ s = "ONE_LF" /\ w.r.logline = "yes" ->
                     process_option_line(fresh, p.r.line)
                [] w.ret = Go /\ s = "ONE_LF" /\ w.r.logline = "no" -> AfterFirst(log, p.r.line, fault)
                [] w.ret = Go /\ s = "BODY_READ" -> AfterEnd(end)
                [] OTHER -> p
      BY Zenon DEF Scan
    <2> DEFINE option == process_option_line(fresh, p.r.line)
    <2> HIDE DEF v, s, option, log, end, p, fresh
    <2>2. CASE s = "BODY_READ"
      BY <2>1, <2>2
    <2>3. CASE s = "ONE_LF" /\ w.r.logline \in {"yes", "no"}
      BY <2>1, <2>3
    <2>4. CASE s # "BODY_READ" /\ (s # "ONE_LF" \/ w.r.logline \notin {"yes", "no"})
      BY <2>1, <2>4
    <2> QED BY <2>2, <2>3, <2>4 DEF option
  <1>3. /\ HasParts(w) /\ HasFields(w.r) /\ Sound(w, o0, O, c) /\ Bare(w.r)
        /\ RequestTyped(w.r) /\ NetTyped(w.n) /\ w.r.status \in Early /\ s \in Early
    BY <1>1, SoundBare, EarlyHeaders DEF Scanning, Sound, HasParts
  <1>4. line = w.r.line \/ (line = tok /\ tok.t \notin {"CR", "LF"})
    OBVIOUS
  <1>5. line \in Token /\ NoLine \in Token /\ NoLine.t # "LENGTH"
    <2>1. NoLine \in Token /\ NoLine.t # "LENGTH"
      BY DEF NoLine, Tok, Token
    <2> QED BY <1>3, <2>1 DEF RequestTyped
  <1> HIDE DEF s, line, v
  <1> DEFINE q == [w.r EXCEPT !.status = s, !.parse_pos = @ + 1, !.line = line]
  <1>6. /\ q.stream = w.r.stream /\ q.parse_pos = w.r.parse_pos + 1 /\ q.temp = w.r.temp
        /\ q.clen = w.r.clen /\ q.status = s /\ q.line = line /\ RequestTyped(q)
        /\ SameHold(w.r, q) /\ HasFields(q)
    BY <1>3, <1>5 DEF RequestTyped, HasFields, SameHold
  <1> HIDE DEF q
  <1>7. p.r = q /\ p.n = w.n /\ p.src = w.src /\ p.ret = Go /\ SameTables(w, p) /\ HasParts(p)
    <2>1. p.r = q /\ p.n = w.n /\ p.src = w.src /\ p.ret = Go /\ SameTables(w, p)
      BY <1>3 DEF HasParts, SameTables, q
    <2> HIDE DEF p
    <2> QED BY <1>3, <1>6, <2>1 DEF HasParts, SameTables
  <1> HIDE DEF p
  <1>8. /\ Announced(Ahead(p.r, p.n)) /\ p.r.temp = <<>> /\ p.r.parse_pos <= Len(p.r.stream)
        /\ IF p.r.status = "BODY_READ" THEN BodyFrom(Ahead(p.r, p.n), 0, p.r.clen)
           ELSE Reading(p.r, p.n)
    <2>1. p.r.status = HeaderStatus(w.r.status, tok.t)
      BY <1>6, <1>7 DEF s
    <2> QED BY <1>3, <1>4, <1>6, <1>7, <2>1, TokenHears
  <1>9. Fed(p.src) /\ (s # "BODY_READ" => Hears(p))
    BY <1>1, <1>6, <1>7, <1>8 DEF Hears
  <1>10. Near(w, p) /\ Sound(p, o0, O, c) /\ Bare(p.r)
    <2>1. Near(w, p)
      BY <1>3, <1>6, <1>7, EarlyHeaders DEF Near
    <2> QED BY <1>3, <2>1, EarlyStep
  <1>11. CASE v = p /\ s # "BODY_READ"
    BY <1>6, <1>7, <1>9, <1>11
  <1> DEFINE qf == [p.r EXCEPT !.line = NoLine]
  <1>12. /\ qf.stream = p.r.stream /\ qf.parse_pos = p.r.parse_pos /\ qf.temp = p.r.temp
         /\ qf.clen = p.r.clen /\ qf.status = s /\ qf.line = NoLine /\ RequestTyped(qf)
         /\ SameHold(p.r, qf) /\ HasFields(qf)
    BY <1>5, <1>6, <1>7 DEF RequestTyped, HasFields, SameHold
  <1> HIDE DEF qf
  <1>13. /\ fresh.r = qf /\ fresh.n = p.n /\ fresh.src = p.src /\ fresh.ret = Go
         /\ SameTables(p, fresh) /\ HasParts(fresh)
    <2>1. /\ fresh.r = qf /\ fresh.n = p.n /\ fresh.src = p.src /\ fresh.ret = Go
          /\ SameTables(p, fresh)
      BY <1>7 DEF HasParts, SameTables, qf
    <2> HIDE DEF fresh
    <2> QED BY <1>7, <1>12, <2>1 DEF HasParts, SameTables
  <1> HIDE DEF fresh
  <1>14. Sound(fresh, o0, O, c) /\ Bare(fresh.r)
    <2>1. Near(p, fresh)
      BY <1>3, <1>12, <1>13, EarlyHeaders DEF Near
    <2> QED BY <1>10, <2>1, EarlyStep
  <1>15. ASSUME s = "ONE_LF"
         PROVE  /\ Hears(fresh)
                /\ p.r.line.t = "LENGTH" => Announces(fresh.r.status, Ahead(fresh.r, fresh.n), p.r.line.n)
    <2>1. Reading(p.r, p.n) /\ Ahead(fresh.r, fresh.n) = Ahead(p.r, p.n) /\ p.r.status = s
      BY <1>6, <1>7, <1>8, <1>12, <1>13, <1>15 DEF Ahead
    <2>2. Reading(fresh.r, fresh.n)
      BY <1>5, <1>12, <1>13, <2>1 DEF Reading
    <2>3. fresh.r.status \in Headers
      BY <1>12, <1>13, <1>15 DEF Headers
    <2> QED BY <1>9, <1>12, <1>13, <2>1, <2>2, <2>3 DEF Hears, Reading
  <1>16. CASE v = process_option_line(fresh, p.r.line) /\ s = "ONE_LF"
    <2> DEFINE u == process_option_line(fresh, p.r.line)
    <2>1. u.ret \in {fresh.ret, 0}
      BY <1>5, <1>6, <1>7, <1>13, OptionNear
    <2>2. Hears(u) /\ u.r.stream = fresh.r.stream /\ u.r.parse_pos = fresh.r.parse_pos
      BY <1>13, <1>15, <1>16, OptionHears
    <2> HIDE DEF u
    <2>3. Settled(u)
      BY <2>2, HearsSettled
    <2>4. Fine(u)
      BY <1>6, <1>7, <1>12, <1>13, <2>2, <2>3
    <2> QED BY <1>16, <2>4 DEF u
  <1>17. CASE v = AfterFirst(log, p.r.line, fault) /\ s = "ONE_LF"
    <2>1. Near(fresh, log) /\ log.ret \in {fresh.ret, 0} /\ (log.ret # 0 => log.r.status = fresh.r.status)
      BY <1>13, LogNear, Zenon
    <2>2. Tells(fresh, log)
      BY <1>13, LogTells
    <2> HIDE DEF log
    <2>3. Sound(log, o0, O, c) /\ Bare(log.r) /\ HasParts(log)
      BY <1>14, <2>1, EarlyStep DEF Sound
    <2>4. Fed(log.src) /\ Chained(log.r, log.n)
      <3>1. Chained(fresh.r, fresh.n) /\ Fed(fresh.src)
        BY <1>15, <1>17, HearsSettled DEF Hears
      <3> QED BY <2>2, <3>1, TellsAhead DEF Tells
    <2>5. CASE log.ret # Go
      <3>1. log.ret = 0 /\ AfterFirst(log, p.r.line, fault) = log
        BY <1>13, <2>1, <2>5 DEF AfterFirst
      <3>2. Settled(log)
        BY <2>4, <3>1 DEF Settled
      <3> QED BY <1>17, <2>5, <3>1, <3>2, Zenon
    <2>6. CASE log.ret = Go
      <3>1. log.r.status = fresh.r.status
        BY <2>1, <2>6 DEF Go
      <3>2. Hears(log) /\ log.r.stream = fresh.r.stream /\ log.r.parse_pos = fresh.r.parse_pos
        <4>1. Reading(fresh.r, fresh.n) /\ fresh.r.status \in Headers
          BY <1>15, <1>17 DEF Hears
        <4>2. Reading(log.r, log.n)
          BY <2>2, <3>1, <4>1, TellsAhead
        <4>3. log.r.stream = fresh.r.stream /\ log.r.parse_pos = fresh.r.parse_pos
          BY <2>2 DEF Tells, Told
        <4> QED BY <2>4, <3>1, <4>1, <4>2, <4>3 DEF Hears
      <3>3. Fine(log)
        BY <1>6, <1>7, <1>12, <1>13, <2>6, <3>2
      <3> DEFINE same == [log EXCEPT !.r.line = p.r.line]
                 l1 == [same EXCEPT !.ret = 1]
                 u == process_header_end(l1, fault)
      <3>4. AfterFirst(log, p.r.line, fault) \in {log, u}
        BY Zenon DEF AfterFirst
      <3>9. Near(log, same) /\ Hears(same)
        <4> DEFINE sq == [log.r EXCEPT !.line = p.r.line]
        <4>1. /\ RequestTyped(sq) /\ SameHold(log.r, sq) /\ sq.line = p.r.line
              /\ sq.stream = log.r.stream /\ sq.parse_pos = log.r.parse_pos /\ sq.temp = log.r.temp
              /\ sq.clen = log.r.clen /\ sq.status = log.r.status
          BY <1>5, <1>6, <1>7, <2>3 DEF Sound, HasParts, HasFields, SameHold, RequestTyped
        <4>2. same.r = sq /\ same.n = log.n /\ same.src = log.src /\ SameTables(log, same)
          BY <2>3 DEF HasParts, SameTables
        <4> HIDE DEF sq, same
        <4>3. Near(log, same)
          BY <4>1, <4>2 DEF Near
        <4>4. Ahead(same.r, same.n) = Ahead(log.r, log.n) /\ Ahead(log.r, log.n) = Ahead(fresh.r, fresh.n)
          BY <2>2, <4>1, <4>2, TellsAhead DEF Ahead
        <4>5. p.r.line.t = "LENGTH" => Announces(log.r.status, Ahead(log.r, log.n), p.r.line.n)
          BY <1>15, <1>17, <3>1, <4>4
        <4> QED BY <3>2, <4>1, <4>2, <4>3, <4>4, <4>5 DEF Hears, Reading
      <3> HIDE DEF same
      <3>10. Sound(same, o0, O, c) /\ Bare(same.r) /\ HasParts(same)
        BY <2>3, <3>9, EarlyStep DEF Sound
      <3>5. Like(same, l1) /\ l1.r = same.r /\ l1.n = same.n /\ l1.src = same.src
        BY <3>10, Returned DEF HasParts
      <3> HIDE DEF l1
      <3>6. Sound(l1, o0, O, c) /\ Bare(l1.r) /\ Hears(l1)
        <4>1. Sound(l1, o0, O, c)
          BY <3>10, <3>5, SoundLike
        <4> QED BY <3>10, <3>9, <3>5, <4>1 DEF Hears
      <3>7. Settled(u) /\ u.ret \in {0, 1}
        <4>1. Announced(Ahead(l1.r, l1.n)) /\ Fed(l1.src)
          BY <3>6 DEF Hears, Reading
        <4>2. Settled(u)
          BY <3>6, FirstSettles
        <4>3. u.ret \in {0, 1}
          BY <3>6, <4>1, EndTells
        <4> QED BY <4>2, <4>3
      <3> HIDE DEF u
      <3>8. Fine(u)
        BY <3>7 DEF Go
      <3> HIDE DEF Fine
      <3> QED BY <1>17, <3>3, <3>4, <3>8
    <2> QED BY <2>5, <2>6
  <1>18. CASE v = AfterEnd(end) /\ s = "BODY_READ"
    <2>1. Like(p, p1) /\ p1.r = p.r /\ p1.n = p.n /\ p1.src = p.src
      BY <1>7, Returned DEF HasParts
    <2> HIDE DEF p1
    <2>2. Sound(p1, o0, O, c) /\ Bare(p1.r)
      <3>1. Sound(p1, o0, O, c)
        BY <1>10, <2>1, SoundLike
      <3> QED BY <1>10, <2>1, <3>1
    <2>3. /\ Fed(p1.src) /\ Announced(Ahead(p1.r, p1.n)) /\ BodyFrom(Ahead(p1.r, p1.n), 0, p1.r.clen)
          /\ p1.r.temp = <<>>
      BY <1>6, <1>7, <1>8, <1>9, <1>18, <2>1
    <2>4. Settled(AfterEnd(end)) /\ AfterEnd(end).ret \in {0, 1}
      BY <2>2, <2>3, LastSettles
    <2> DEFINE u == AfterEnd(end)
    <2> HIDE DEF u
    <2>5. Fine(u)
      BY <2>4 DEF Go, u
    <2> QED BY <1>18, <2>5 DEF u
  <1> HIDE DEF Fine
  <1> QED BY <1>2, <1>11, <1>16, <1>17, <1>18

\* The whole loop, by induction over the tokens.
LEMMA ScannedHears ==
    ASSUME NEW w, NEW o0, NEW O, NEW c, Scanning(w, o0, O, c), w.ret = Go, Hears(w), NEW fault,
           NEW toks, toks = Drop(w.r.stream, w.r.parse_pos)
    PROVE  LET v == Scanned(w, toks, fault) IN
           Scanning(v, o0, O, c) /\ (IF v.ret = Go THEN Hears(v) ELSE Settled(v))
  <1> DEFINE s == w.r.stream
             p == w.r.parse_pos
  <1>1. s \in Seq(Token) /\ p \in Nat /\ p <= Len(s) /\ Len(s) \in Nat /\ p \in 0..Len(s)
    <2>1. RequestTyped(w.r) /\ p <= Len(s)
      BY DEF Scanning, Sound, Hears, Reading
    <2> QED BY <2>1 DEF RequestTyped
  <1>2. toks \in Seq(Token) /\ Len(toks) = Len(s) - p /\ \A i \in 1..(Len(s) - p) : toks[i] = s[p + i]
    <2>1. Listed(s)
      BY <1>1, ListedAny
    <2>2. p \in Int /\ p >= 0
      BY <1>1
    <2> QED BY <1>1, <2>1, <2>2, ListedHalves, Pieces
  <1>3. PICK at : /\ Scanned(w, toks, fault) = at[Len(toks)]
                  /\ at[0] = w
                  /\ \A k \in 1..Len(toks) : at[k] = Scan(at[k - 1], toks[k], fault)
    <2>1. Len(toks) \in Nat
      BY <1>2
    <2>2. ScannedBy(w, toks, fault)
      BY <2>1, ScannedSteps
    <2> QED BY <2>2 DEF ScannedBy
  <1> DEFINE Fine(n) == /\ Scanning(at[n], o0, O, c)
                        /\ IF at[n].ret = Go
                           THEN Hears(at[n]) /\ at[n].r.stream = s /\ at[n].r.parse_pos = p + n
                           ELSE Settled(at[n])
             S == {n \in Nat : n <= Len(toks) => Fine(n)}
  <1>4. 0 \in S
    <2>1. p + 0 = p
      BY <1>1
    <2> QED BY <1>3, <2>1
  <1> HIDE DEF s, p
  <1>5. ASSUME NEW n \in S PROVE n + 1 \in S
    <2> SUFFICES ASSUME n + 1 <= Len(toks) PROVE Fine(n + 1)
      <3> HIDE DEF Fine
      <3> QED OBVIOUS
    <2>1. n \in Nat /\ n + 1 \in 1..Len(toks) /\ (n + 1) - 1 = n /\ p + n < Len(s)
          /\ (p + n) + 1 = p + (n + 1) /\ n <= Len(toks)
      <3> HIDE DEF Fine
      <3> QED BY <1>1, <1>2
    <2>2. at[n + 1] = Scan(at[n], toks[n + 1], fault)
      BY <1>3, <2>1
    <2>3. Fine(n)
      <3> HIDE DEF Fine
      <3> QED BY <2>1
    <2>4. toks[n + 1] \in Token /\ toks[n + 1] = s[p + (n + 1)]
      BY <1>2, <2>1
    <2> DEFINE a == at[n]
               tok == toks[n + 1]
               b == at[n + 1]
    <2>5. Scanning(b, o0, O, c)
      BY <2>2, <2>3, <2>4, ScanSound
    <2>6. CASE a.ret # Go
      <3>1. b = a
        BY <2>2, <2>6 DEF Scan
      <3> HIDE DEF a, b
      <3>2. Settled(b) /\ b.ret # Go
        BY <2>3, <2>6, <3>1 DEF a
      <3> QED BY <2>5, <3>2 DEF b
    <2>7. CASE a.ret = Go
      <3>1. /\ Scanning(a, o0, O, c) /\ Hears(a) /\ a.r.parse_pos < Len(a.r.stream)
            /\ tok = a.r.stream[a.r.parse_pos + 1] /\ tok \in Token
            /\ a.r.stream = s /\ a.r.parse_pos = p + n
        BY <2>1, <2>3, <2>4, <2>7
      <3>2. b = Scan(a, tok, fault)
        BY <2>2
      <3> HIDE DEF a, b, tok
      <3>3. IF b.ret = Go
            THEN Hears(b) /\ b.r.stream = a.r.stream /\ b.r.parse_pos = a.r.parse_pos + 1
            ELSE Settled(b)
        BY <2>7, <3>1, <3>2, ScanHears
      <3>4. IF b.ret = Go THEN Hears(b) /\ b.r.stream = s /\ b.r.parse_pos = p + (n + 1)
            ELSE Settled(b)
        BY <2>1, <3>1, <3>3
      <3> QED BY <2>5, <3>4 DEF b
    <2> QED BY <2>6, <2>7
  <1>6. Len(toks) \in S /\ Len(toks) \in Nat
    <2>1. Len(toks) \in Nat
      BY <1>1, <1>2
    <2> HIDE DEF S
    <2> QED BY <1>4, <1>5, <2>1, Induct
  <1>7. Fine(Len(toks))
    <2> HIDE DEF Fine
    <2> QED BY <1>6
  <1> QED BY <1>3, <1>7

\* What is read of the socket's buffer is still ahead.
LEMMA MovedOver ==
    ASSUME NEW a, NEW x, NEW y, NEW t, Listed(a), Listed(x), Listed(y), Listed(t)
    PROVE  (a \o x) \o (y \o t) = a \o ((x \o y) \o t)
  <1>1. (x \o y) \o t = x \o (y \o t)
    BY ListedThree
  <1>2. Listed(y \o t)
    BY ListedJoin
  <1>3. ASSUME NEW u, Listed(u) PROVE (a \o x) \o u = a \o (x \o u)
    BY <1>3, ListedThree
  <1>4. (a \o x) \o (y \o t) = a \o (x \o (y \o t))
    BY <1>2, <1>3, Zenon
  <1> QED BY <1>1, <1>4

\* read, into the client's buffer.
LEMMA MoreSettles ==
    ASSUME NEW w, HasParts(w), RequestTyped(w.r), NetTyped(w.n), Hears(w)
    PROVE  Settled(ReadMore(w))
  <1> DEFINE r == w.r
             k == Least(CLIENT_STREAM_SIZE - Len(r.stream), Len(w.n.inq))
             dead == [w EXCEPT !.r.status = "DEAD"]
             stream == r.stream \o Take(w.n.inq, k)
             inq == Drop(w.n.inq, k)
             on == [w EXCEPT !.r.stream = stream, !.n.inq = inq, !.ret = 1]
             waits == [w EXCEPT !.ret = -1]
  <1>1. ReadMore(w) \in {GiveUp(dead), waits, GiveUp(w)} \/ (ReadMore(w) = on /\ k > 0)
    BY Zenon DEF ReadMore
  <1>2. Fed(w.src) /\ Chained(w.r, w.n)
    BY HearsSettled DEF Hears
  <1>3. Settled(GiveUp(dead))
    <2>1. Like(w, dead)
      BY LateStatus DEF Like, SameTables, HasParts, HasFields, Kin, SameHold, Told, RequestTyped, NetTyped
    <2> HIDE DEF dead
    <2>2. Like(w, GiveUp(dead)) /\ GiveUp(dead).ret = 0
      BY <2>1, LikeHas, LikeTrans, GivenUp
    <2> QED BY <1>2, <2>2, LikeTells, LateSettled
  <1>4. Settled(GiveUp(w))
    BY <1>2, GivenUp, LikeTells, LateSettled
  <1>5. Settled(waits)
    <2>1. waits.r = w.r /\ waits.n = w.n /\ waits.src = w.src
      BY DEF HasParts
    <2> HIDE DEF waits
    <2>2. Hears(waits)
      BY <2>1 DEF Hears
    <2> QED BY <2>2, HearsSettled
  <1>6. ASSUME k > 0 PROVE Settled(on)
    <2>1. /\ r.stream \in Seq(Token) /\ w.n.inq \in Seq(Token) /\ r.parse_pos \in Nat
          /\ r.parse_pos <= Len(r.stream) /\ Len(r.stream) \in Nat /\ r.parse_pos \in 0..Len(r.stream)
      BY DEF RequestTyped, NetTyped, Hears, Reading
    <2>2. k \in 0..Len(w.n.inq)
      <3>1. CLIENT_STREAM_SIZE - Len(r.stream) \in Int /\ Len(w.n.inq) \in Int
        BY <2>1, BoaAssumption
      <3>2. k \in Int /\ k <= Len(w.n.inq)
        BY <3>1, LeastOf
      <3> QED BY <1>6, <3>1, <3>2
    <2> HIDE DEF k
    <2> DEFINE F == FlattenSeq(w.n.more)
               T == Take(w.n.inq, k)
               a == Drop(r.stream, r.parse_pos)
    <2>3. Listed(r.stream) /\ Listed(w.n.inq) /\ Listed(F) /\ Listed(T) /\ Listed(a)
      <3>1. F \in Seq(Token)
        BY AheadTyped
      <3>2. Listed(r.stream) /\ Listed(w.n.inq) /\ Listed(F)
        BY <2>1, <3>1, ListedAny
      <3> HIDE DEF F
      <3> QED BY <2>1, <2>2, <3>2, ListedHalves
    <2>4. Drop(stream, r.parse_pos) \o (inq \o F) = a \o (w.n.inq \o F)
      <3>1. Drop(stream, r.parse_pos) = a \o T
        BY <2>1, <2>3, DropJoin
      <3> HIDE DEF stream
      <3>2. (a \o T) \o (inq \o F) = a \o (w.n.inq \o F)
        <4>1. Listed(a) /\ Listed(T) /\ Listed(inq) /\ Listed(F)
          BY <2>2, <2>3, ListedHalves
        <4>2. T \o inq = w.n.inq
          BY <2>2, <2>3, ListedHalves
        <4> HIDE DEF F, a, T, inq
        <4>3. (a \o T) \o (inq \o F) = a \o ((T \o inq) \o F)
          BY ONLY <4>1, MovedOver
        <4> QED BY <4>2, <4>3
      <3> QED BY <3>1, <3>2
    <2>5. Len(stream) >= Len(r.stream)
      <3>1. Len(stream) = Len(r.stream) + Len(T) /\ Len(T) \in Nat
        BY <2>3, ListedJoin
      <3> HIDE DEF stream, T, a, F
      <3> QED BY <2>1, <3>1
    <2> HIDE DEF stream, inq
    <2> DEFINE q == [r EXCEPT !.stream = stream]
               n == [w.n EXCEPT !.inq = inq]
    <2>6. /\ q.stream = stream /\ q.parse_pos = r.parse_pos /\ q.status = r.status
          /\ q.temp = r.temp /\ q.clen = r.clen /\ q.line = r.line
          /\ n.inq = inq /\ n.more = w.n.more
      BY DEF HasParts, HasFields
    <2> HIDE DEF q, n
    <2>7. on.r = q /\ on.n = n /\ on.src = w.src
      BY DEF HasParts, q, n
    <2> HIDE DEF on
    <2>8. Ahead(q, n) = Ahead(w.r, w.n)
      BY <2>4, <2>6 DEF Ahead, Waiting
    <2>9. Reading(q, n)
      <3>1. q.parse_pos <= Len(q.stream)
        <4>1. Len(stream) \in Nat
          <5> HIDE DEF F, a
          <5> QED BY <2>1, <2>3, ListedJoin DEF stream
        <4> QED BY <2>1, <2>5, <2>6, <4>1
      <3> QED BY <2>6, <2>8, <3>1 DEF Hears, Reading
    <2>10. Hears(on)
      BY <2>6, <2>7, <2>9 DEF Hears
    <2> QED BY <2>10, HearsSettled
  <1> HIDE DEF dead, waits, on, k
  <1> QED BY <1>1, <1>3, <1>4, <1>5, <1>6

\* read_header.
LEMMA HeaderSettles ==
    ASSUME NEW w, NEW o0, NEW O, NEW c, Sound(w, o0, O, c), Hears(w), NEW fault
    PROVE  Settled(read_header(w, fault))
  <1> DEFINE g == [w EXCEPT !.ret = Go]
             toks == Drop(g.r.stream, g.r.parse_pos)
             v == Scanned(g, toks, fault)
  <1>1. Like(w, g) /\ g.r = w.r /\ g.n = w.n /\ g.src = w.src /\ g.ret = Go
    BY Returned DEF Sound, HasParts
  <1>2. read_header(w, fault) = IF v.ret = Go THEN ReadMore(v) ELSE v
    BY <1>1 DEF read_header, AfterScan
  <1> HIDE DEF g
  <1>3. Scanning(g, o0, O, c) /\ Hears(g)
    BY <1>1, SoundLike DEF Scanning, Hears
  <1>4. Scanning(v, o0, O, c) /\ (IF v.ret = Go THEN Hears(v) ELSE Settled(v))
    <2> HIDE DEF toks
    <2>1. toks = Drop(g.r.stream, g.r.parse_pos)
      BY DEF toks
    <2> QED BY <1>1, <1>3, <2>1, ScannedHears
  <1> HIDE DEF v
  <1>5. v.ret = Go => Settled(ReadMore(v))
    BY <1>4, MoreSettles DEF Scanning, Sound
  <1> QED BY <1>2, <1>4, <1>5

\* A handler that answers with a page.
LEMMA RefuseSettles ==
    ASSUME NEW w, HasParts(w), Fed(w.src), NEW code
    PROVE  Settled(Refuse(w, code))
  <1>1. Like(w, Refuse(w, code)) /\ Refuse(w, code).ret = 0
    BY Refused
  <1>2. Refuse(w, code).r.keepalive # "active"
    BY SentStops
  <1> QED BY <1>1, <1>2, StoppedSettled DEF Like, SameTables

\* A body that is being saved.
LEMMA SavingSettles ==
    ASSUME NEW w, Fed(w.src), w.r.status \in {"BODY_READ", "BODY_WRITE"}, Saving(w.r, w.n), w.ret # 0
    PROVE  Settled(w)
  BY EarlyHeaders DEF Settled, Posted, Headers
=============================================================================
