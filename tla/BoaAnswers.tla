------------------------------ MODULE BoaAnswers -------------------------------
(***************************************************************************)
(* Proofs about what the Boa web server answers, on top of BoaProofs: the  *)
(* handlers keep what is said, held and to come in order and whole, and so *)
(* does the loop.                                                          *)
(***************************************************************************)
EXTENDS BoaProofs

-----------------------------------------------------------------------------
(* Answers: what a handler does with what is said for its request.         *)

\* What stays of a request when an answer is written and flushed.
Alike(q, r) ==
    /\ DOMAIN q = DOMAIN r
    /\ q.cgi_status = r.cgi_status /\ q.data = r.data /\ q.data_fd = r.data_fd
    /\ q.filepos = r.filepos /\ q.filesize = r.filesize /\ q.is_cgi = r.is_cgi
    /\ q.logline = r.logline /\ q.method = r.method /\ q.off = r.off
    /\ q.simple = r.simple /\ q.uri = r.uri

\* What has been said, in sequences.
LEMMA SaidParts ==
    ASSUME NEW r, Spoken(r)
    PROVE  /\ Listed(Said(r)) /\ Listed(r.got) /\ Listed(r.buf) /\ Listed(Drop(r.buf, r.start))
           /\ Len(r.buf) \in Nat /\ r.start \in Nat
           /\ r.buf = <<>> => Said(r) = r.got
           /\ Said(r) = <<>> => r.got = <<>>
           /\ Silent(r) => Said(r) = <<>>
  <1>1. Listed(r.got) /\ Listed(r.buf) /\ r.start \in 0..Len(r.buf)
    BY DEF Spoken
  <1>2. Len(r.buf) \in Nat /\ r.start \in Int /\ r.start \in Nat
    BY <1>1, ListedParts
  <1>3. Listed(Drop(r.buf, r.start))
    BY <1>1, <1>2, ListedParts
  <1>4. /\ Listed(Said(r)) /\ Len(Said(r)) = Len(r.got) + Len(Drop(r.buf, r.start))
        /\ Len(r.got) \in Nat /\ Len(Drop(r.buf, r.start)) \in Nat
    <2> DEFINE d == Drop(r.buf, r.start)
    <2>1. Listed(d)
      BY <1>3
    <2> HIDE DEF d
    <2>2. Listed(r.got \o d) /\ Len(r.got \o d) = Len(r.got) + Len(d) /\ Len(r.got) \in Nat /\ Len(d) \in Nat
      BY <1>1, <2>1, ListedJoin
    <2> QED BY <2>2 DEF Said, d
  <1>5. ASSUME r.buf = <<>> PROVE Said(r) = r.got
    <2>1. Drop(r.buf, r.start) = <<>>
      BY <1>1, <1>2, <1>5, ListedDrops
    <2>2. r.got \o <<>> = r.got
      BY <1>1, ListedNone
    <2> QED BY <2>1, <2>2 DEF Said
  <1>6. ASSUME Said(r) = <<>> PROVE r.got = <<>>
    <2>1. Len(Said(r)) = 0
      BY <1>6, ListedNew
    <2>2. Len(r.got) = 0
      <3> DEFINE a == Len(r.got)
                 b == Len(Drop(r.buf, r.start))
      <3>1. a \in Nat /\ b \in Nat /\ 0 = a + b
        BY <1>4, <2>1
      <3> HIDE DEF a, b
      <3>2. a = 0
        BY <3>1
      <3> QED BY <3>2 DEF a
    <2>3. r.got # <<>> <=> Len(r.got) > 0
      BY <1>1, ListedParts
    <2> QED BY <2>2, <2>3
  <1>7. ASSUME Silent(r) PROVE Said(r) = <<>>
    <2>1. r.buf = <<>> /\ r.got = <<>>
      BY <1>7 DEF Silent
    <2> QED BY <1>5, <2>1
  <1> QED BY <1>1, <1>2, <1>3, <1>4, <1>5, <1>6, <1>7

\* A request with other words about its answer, or another status.
Reworded(q, r) ==
    Spoken(q) /\ Said(q) = Said(r) /\ Alike(q, r)
    /\ q.got = r.got /\ q.buf = r.buf /\ q.start = r.start

LEMMA SpokenSquash ==
    ASSUME NEW r, Spoken(r)
    PROVE  /\ Reworded(SQUASH_KA(r), r) /\ SQUASH_KA(r).keepalive = "stopped"
           /\ SQUASH_KA(r).response_status = r.response_status /\ SQUASH_KA(r).status = r.status
  <1> DEFINE k == SQUASH_KA(r)
  <1>1. Fields \subseteq DOMAIN r
    BY DEF Spoken
  <1>2. /\ Alike(k, r) /\ k.keepalive = "stopped" /\ k.response_status = r.response_status
        /\ k.status = r.status /\ k.got = r.got /\ k.buf = r.buf /\ k.start = r.start
    BY <1>1 DEF Alike, SQUASH_KA, Fields
  <1> HIDE DEF k
  <1>3. Spoken(k) /\ Said(k) = Said(r)
    BY <1>2 DEF Spoken, Said, Alike
  <1> QED BY <1>2, <1>3 DEF k, Reworded

\* With another response.
LEMMA SpokenCode ==
    ASSUME NEW r, Spoken(r), NEW x
    PROVE  /\ Reworded([r EXCEPT !.response_status = x], r)
           /\ [r EXCEPT !.response_status = x].keepalive = r.keepalive
           /\ [r EXCEPT !.response_status = x].response_status = x
           /\ [r EXCEPT !.response_status = x].status = r.status
  <1> DEFINE c == [r EXCEPT !.response_status = x]
  <1>1. Fields \subseteq DOMAIN r
    BY DEF Spoken
  <1>2. /\ Alike(c, r) /\ c.keepalive = r.keepalive /\ c.response_status = x
        /\ c.status = r.status /\ c.got = r.got /\ c.buf = r.buf /\ c.start = r.start
    BY <1>1 DEF Alike, Fields
  <1> HIDE DEF c
  <1>3. Spoken(c) /\ Said(c) = Said(r)
    BY <1>2 DEF Spoken, Said, Alike
  <1> QED BY <1>2, <1>3 DEF c, Reworded

\* With another status.
LEMMA SpokenStatus ==
    ASSUME NEW r, Spoken(r), NEW x
    PROVE  /\ Reworded([r EXCEPT !.status = x], r)
           /\ [r EXCEPT !.status = x].keepalive = r.keepalive
           /\ [r EXCEPT !.status = x].response_status = r.response_status
           /\ [r EXCEPT !.status = x].status = x
  <1> DEFINE c == [r EXCEPT !.status = x]
  <1>1. Fields \subseteq DOMAIN r
    BY DEF Spoken
  <1>2. /\ Alike(c, r) /\ c.keepalive = r.keepalive /\ c.response_status = r.response_status
        /\ c.status = x /\ c.got = r.got /\ c.buf = r.buf /\ c.start = r.start
    BY <1>1 DEF Alike, Fields
  <1> HIDE DEF c
  <1>3. Spoken(c) /\ Said(c) = Said(r)
    BY <1>2 DEF Spoken, Said, Alike
  <1> QED BY <1>2, <1>3 DEF c, Reworded

\* What req_write (buffer.c) buffers is said, or the request is given up.
LEMMA WrittenSaid ==
    ASSUME NEW r, Spoken(r), NEW toks, Listed(toks), NEW q, q = req_write(r, toks)
    PROVE  /\ Spoken(q) /\ Alike(q, r) /\ q.keepalive = r.keepalive
           /\ q.response_status = r.response_status /\ q.got = r.got /\ q.start = r.start
           /\ \/ q.status = "DEAD" /\ Said(q) = Said(r)
              \/ q.status = r.status /\ Said(q) = Said(r) \o toks
           /\ r.status = "DEAD" => q = r
           /\ r.status # "DEAD" /\ Len(r.buf) + Len(toks) <= BUFFER_SIZE =>
                 q.status = r.status /\ Said(q) = Said(r) \o toks /\ q.buf = r.buf \o toks
  <1>1. /\ Listed(Said(r)) /\ Listed(r.got) /\ Listed(r.buf) /\ Listed(Drop(r.buf, r.start))
        /\ Len(r.buf) \in Nat /\ r.start \in Nat /\ r.start \in 0..Len(r.buf)
        /\ Fields \subseteq DOMAIN r
    BY SaidParts DEF Spoken
  <1>2. Len(toks) \in Nat
    BY ListedParts
  <1>3. CASE toks = <<>> \/ r.status = "DEAD"
    <2>1. q = r
      BY <1>3 DEF req_write
    <2>2. Said(r) \o <<>> = Said(r)
      BY <1>1, ListedNone
    <2>3. r.buf \o <<>> = r.buf
      BY <1>1, ListedNone
    <2>4. Alike(r, r)
      BY DEF Alike
    <2> QED BY <1>3, <2>1, <2>2, <2>3, <2>4
  <1>4. CASE ~(toks = <<>> \/ r.status = "DEAD") /\ Len(r.buf) + Len(toks) > BUFFER_SIZE
    <2>1. q = [r EXCEPT !.status = "DEAD"]
      BY <1>4 DEF req_write
    <2>2. /\ Reworded(q, r) /\ q.keepalive = r.keepalive
          /\ q.response_status = r.response_status /\ q.status = "DEAD"
      BY <2>1, SpokenStatus
    <2>3. ~(Len(r.buf) + Len(toks) <= BUFFER_SIZE)
      BY <1>1, <1>2, <1>4, BoaAssumption
    <2> QED BY <1>4, <2>2, <2>3 DEF Reworded
  <1>5. CASE ~(toks = <<>> \/ r.status = "DEAD") /\ ~(Len(r.buf) + Len(toks) > BUFFER_SIZE)
    <2> DEFINE b == r.buf \o toks
               d == Drop(r.buf, r.start)
    <2>1. q = [r EXCEPT !.buf = b]
      BY <1>5 DEF req_write
    <2>2. /\ Listed(b) /\ Len(b) = Len(r.buf) + Len(toks)
      BY <1>1, ListedJoin
    <2>3. Drop(b, r.start) = d \o toks
      BY <1>1, DropJoin, Zenon
    <2>4. Listed(d)
      BY <1>1
    <2>5. Said(r) = r.got \o d
      BY DEF Said
    <2> HIDE DEF b, d
    <2>6. /\ Alike(q, r) /\ q.keepalive = r.keepalive
          /\ q.response_status = r.response_status /\ q.status = r.status /\ q.got = r.got
          /\ q.start = r.start /\ q.buf = b
      BY <1>1, <2>1 DEF Alike, Fields
    <2>7. q.start \in 0..Len(b)
      BY <1>1, <1>2, <2>2, <2>6
    <2>8. Spoken(q)
      <3>1. /\ Fields \subseteq DOMAIN q /\ Listed(q.got) /\ Listed(q.buf) /\ q.start \in 0..Len(q.buf)
        BY <1>1, <2>2, <2>6, <2>7 DEF Alike
      <3>2. q.logline = r.logline /\ q.simple = r.simple /\ q.method = r.method
        BY <2>6 DEF Alike
      <3> QED BY <2>6, <3>1, <3>2 DEF Spoken
    <2>9. Said(q) = r.got \o (d \o toks)
      BY <2>3, <2>6 DEF Said
    <2>10. (r.got \o d) \o toks = r.got \o (d \o toks)
      <3> DEFINE g == r.got
      <3>1. Listed(g)
        BY <1>1
      <3> HIDE DEF g
      <3>2. (g \o d) \o toks = g \o (d \o toks)
        BY <2>4, <3>1, ListedThree
      <3> QED BY <3>2 DEF g
    <2>11. Said(q) = Said(r) \o toks
      BY <2>5, <2>9, <2>10
    <2> QED BY <1>5, <2>6, <2>8, <2>11 DEF b
  <1> QED BY <1>3, <1>4, <1>5
\* What a handler that answers needs, and what it leaves alone.
Speaks(w) ==
    /\ {"n", "r", "ret"} \subseteq DOMAIN w /\ Spoken(w.r)
    /\ {"peer", "room"} \subseteq DOMAIN w.n /\ w.n.room \in Nat
Around(w, v) ==
    /\ DOMAIN v = DOMAIN w /\ v.n.peer = w.n.peer
    /\ "open" \in DOMAIN w => v.open = w.open
    /\ "src" \in DOMAIN w => v.src = w.src

\* With another request.
LEMMA SpeaksSwap ==
    ASSUME NEW w, Speaks(w), NEW q, Spoken(q), NEW a, a = [w EXCEPT !.r = q]
    PROVE  Speaks(a) /\ Around(w, a) /\ a.r = q /\ a.n = w.n /\ a.ret = w.ret
  <1>1. /\ a.r = q /\ a.n = w.n /\ a.ret = w.ret /\ DOMAIN a = DOMAIN w
        /\ "open" \in DOMAIN w => a.open = w.open
        /\ "src" \in DOMAIN w => a.src = w.src
    BY DEF Speaks
  <1>2. Speaks(a) /\ Around(w, a)
    BY <1>1 DEF Speaks, Around
  <1> QED BY <1>1, <1>2

\* With another return value.
LEMMA SpeaksBack ==
    ASSUME NEW w, Speaks(w), NEW x, NEW b, b = [w EXCEPT !.ret = x]
    PROVE  Speaks(b) /\ Around(w, b) /\ b.r = w.r /\ b.n = w.n /\ b.ret = x
  <1>1. /\ b.r = w.r /\ b.n = w.n /\ b.ret = x /\ DOMAIN b = DOMAIN w
        /\ "open" \in DOMAIN w => b.open = w.open
        /\ "src" \in DOMAIN w => b.src = w.src
    BY DEF Speaks
  <1>2. Speaks(b) /\ Around(w, b)
    BY <1>1 DEF Speaks, Around
  <1> QED BY <1>1, <1>2

\* One change after another.
LEMMA AlikeTrans ==
    ASSUME NEW p, NEW q, NEW r, Alike(q, p), Alike(r, q)
    PROVE  Alike(r, p)
  BY DEF Alike

LEMMA AroundTrans ==
    ASSUME NEW u, NEW v, NEW w, Around(u, v), Around(v, w)
    PROVE  Around(u, w)
  BY DEF Around

\* req_flush (buffer.c) says nothing new and forgets nothing, unless the client is gone:
\* then what was still in the buffer is lost, and the request is dead.
LEMMA FlushedSaid ==
    ASSUME NEW w, Speaks(w), NEW v, v = req_flush(w)
    PROVE  /\ Speaks(v) /\ Around(w, v) /\ Alike(v.r, w.r)
           /\ v.r.keepalive = w.r.keepalive /\ v.r.response_status = w.r.response_status
           /\ \/ w.r.status = "DEAD" /\ v.r = w.r /\ v.ret = -2
              \/ /\ v.r.status = "DEAD" /\ Said(v.r) = w.r.got /\ w.n.peer = "reset" /\ v.ret = -2
                 /\ w.r.status # "DEAD"
              \/ /\ v.r.status = w.r.status /\ Said(v.r) = Said(w.r) /\ v.ret # -2
                 /\ w.r.status # "DEAD" /\ (v.ret = Len(v.r.buf) \/ v.ret = -1)
  <1> DEFINE r == w.r
             left == Len(r.buf) - r.start
             k == Least(left, w.n.room)
             d == Drop(r.buf, r.start)
             r1 == IF r.start + k = Len(r.buf)
                   THEN [r EXCEPT !.buf = <<>>, !.start = 0, !.got = @ \o Take(d, k)]
                   ELSE [r EXCEPT !.start = @ + k, !.got = @ \o Take(d, k)]
  <1>1. /\ Listed(r.got) /\ Listed(r.buf) /\ Listed(d) /\ Said(r) = r.got \o d
        /\ Len(r.buf) \in Nat /\ r.start \in Nat /\ r.start \in 0..Len(r.buf)
        /\ Fields \subseteq DOMAIN r
    BY SaidParts DEF Spoken, Speaks, Said
  <1>2. Len(d) = left /\ left \in Nat
    <2>1. Len(d) = Len(r.buf) - r.start
      BY <1>1, ListedHalves
    <2> QED BY <1>1, <2>1
  <1>3. CASE r.status = "DEAD"
    <2>1. v = [w EXCEPT !.ret = -2]
      BY <1>3 DEF req_flush
    <2>2. Speaks(v) /\ Around(w, v) /\ v.r = w.r /\ v.ret = -2
      BY <2>1, SpeaksBack
    <2>3. Alike(w.r, w.r)
      BY DEF Alike
    <2> QED BY <1>3, <2>2, <2>3
  <1>4. CASE r.status # "DEAD" /\ left > 0 /\ w.n.peer = "reset"
    <2> DEFINE q == [r EXCEPT !.buf = <<>>, !.start = 0, !.status = "DEAD"]
    <2>1. v = [w EXCEPT !.r = q, !.ret = -2]
      BY <1>4 DEF req_flush
    <2>2. /\ Alike(q, r) /\ q.keepalive = r.keepalive /\ q.response_status = r.response_status
          /\ q.status = "DEAD" /\ q.buf = <<>> /\ q.start = 0 /\ q.got = r.got
      BY <1>1 DEF Alike, Fields
    <2> HIDE DEF q
    <2>3. Spoken(q)
      <3>1. Listed(<<>>) /\ 0 \in 0..Len(<<>>)
        BY ListedNew
      <3>2. /\ Fields \subseteq DOMAIN q /\ Listed(q.got) /\ Listed(q.buf) /\ q.start \in 0..Len(q.buf)
        BY <1>1, <2>2, <3>1 DEF Alike
      <3>3. q.logline = r.logline /\ q.simple = r.simple /\ q.method = r.method /\ Spoken(r)
        BY <2>2 DEF Alike, Speaks
      <3> QED BY <2>2, <3>2, <3>3 DEF Spoken
    <2>4. Said(q) = r.got
      BY <2>2, <2>3, SaidParts
    <2>5. /\ DOMAIN v = DOMAIN w /\ v.r = q /\ v.n = w.n /\ v.ret = -2
          /\ "open" \in DOMAIN w => v.open = w.open
          /\ "src" \in DOMAIN w => v.src = w.src
      BY <2>1 DEF Speaks
    <2>6. Speaks(v) /\ Around(w, v)
      BY <2>3, <2>5 DEF Speaks, Around
    <2> QED BY <1>4, <2>2, <2>4, <2>5, <2>6
  <1>5. CASE r.status # "DEAD" /\ ~(left > 0 /\ w.n.peer = "reset") /\ left > 0 /\ w.n.room = 0
    <2>1. v = [w EXCEPT !.ret = -1]
      BY <1>5 DEF req_flush
    <2>2. Speaks(v) /\ Around(w, v) /\ v.r = w.r /\ v.ret = -1
      BY <2>1, SpeaksBack
    <2>3. Alike(w.r, w.r)
      BY DEF Alike
    <2> QED BY <1>5, <2>2, <2>3
  <1>6. CASE r.status # "DEAD" /\ ~(left > 0 /\ w.n.peer = "reset") /\ ~(left > 0 /\ w.n.room = 0)
    <2>1. v = [w EXCEPT !.r = r1, !.n.room = @ - k, !.ret = Len(r1.buf)]
      BY <1>6 DEF req_flush
    <2>2. k \in Nat /\ k <= left /\ w.n.room - k \in Nat
      <3>1. w.n.room \in Nat
        BY DEF Speaks
      <3> QED BY <1>2, <3>1 DEF Least
    <2>3. /\ Alike(r1, r) /\ r1.keepalive = r.keepalive /\ r1.response_status = r.response_status
          /\ r1.status = r.status
      BY <1>1 DEF Alike, Fields
    <2>4. Spoken(r1) /\ Said(r1) = r.got \o d
      <3>0. k \in 0..Len(d) /\ r.start + k \in 0..Len(r.buf)
        BY <1>1, <1>2, <2>2
      <3>1. Listed(Take(d, k)) /\ Listed(Drop(d, k)) /\ Take(d, k) \o Drop(d, k) = d
        <4> HIDE DEF d, k
        <4> QED BY <1>1, <3>0, ListedHalves
      <3>2. Listed(r.got \o Take(d, k))
        <4> DEFINE t == Take(d, k)
        <4>1. Listed(r.got) /\ Listed(t)
          BY <1>1, <3>1
        <4> HIDE DEF t
        <4>2. Listed(r.got \o t)
          BY <4>1, ListedJoin
        <4> QED BY <4>2 DEF t
      <3>3. r1.logline = r.logline /\ r1.simple = r.simple /\ r1.method = r.method /\ Spoken(r)
            /\ Fields \subseteq DOMAIN r1
        BY <1>1, <2>3 DEF Alike, Speaks
      <3>4. CASE r.start + k = Len(r.buf)
        <4>1. r1.buf = <<>> /\ r1.start = 0 /\ r1.got = r.got \o Take(d, k)
          BY <1>1, <3>4 DEF Fields
        <4>2. Take(d, k) = d
          <5>1. k = Len(d)
            BY <1>1, <1>2, <2>2, <3>4
          <5>2. Take(d, Len(d)) = d
            <6> HIDE DEF d
            <6> QED BY <1>1, ListedDrops
          <5> QED BY <5>1, <5>2
        <4> HIDE DEF r1, k, d
        <4>3. Listed(<<>>) /\ 0 \in 0..Len(<<>>)
          BY ListedNew
        <4>4. Spoken(r1)
          BY <2>3, <3>2, <3>3, <4>1, <4>3 DEF Spoken
        <4>5. Said(r1) = r1.got
          BY <4>1, <4>4, SaidParts
        <4> QED BY <4>1, <4>2, <4>4, <4>5
      <3>5. CASE r.start + k # Len(r.buf)
        <4>1. r1.buf = r.buf /\ r1.start = r.start + k /\ r1.got = r.got \o Take(d, k)
          BY <1>1, <3>5 DEF Fields
        <4>2. Drop(r.buf, r.start + k) = Drop(d, k)
          <5> DEFINE b == r.buf
                     m == r.start
          <5>1. Listed(b) /\ m \in 0..Len(b) /\ k \in 0..(Len(b) - m)
            BY <1>1, <1>2, <3>0
          <5> HIDE DEF b, m, k
          <5>2. Drop(Drop(b, m), k) = Drop(b, m + k)
            BY <5>1, DropTwice
          <5> QED BY <5>2 DEF b, m
        <4>3. (r.got \o Take(d, k)) \o Drop(d, k) = r.got \o (Take(d, k) \o Drop(d, k))
          <5> DEFINE x == r.got
                     y == Take(d, k)
                     z == Drop(d, k)
          <5>1. Listed(x) /\ Listed(y) /\ Listed(z)
            BY <1>1, <3>1
          <5> HIDE DEF x, y, z
          <5>2. (x \o y) \o z = x \o (y \o z)
            BY <5>1, ListedThree
          <5> QED BY <5>2 DEF x, y, z
        <4> HIDE DEF r1, k, d
        <4>4. Spoken(r1)
          BY <1>1, <2>3, <3>0, <3>2, <3>3, <4>1 DEF Spoken
        <4>5. Said(r1) = (r.got \o Take(d, k)) \o Drop(d, k)
          BY <4>1, <4>2 DEF Said
        <4> QED BY <3>1, <4>3, <4>4, <4>5
      <3> QED BY <3>4, <3>5
    <2> HIDE DEF r1
    <2>5. /\ DOMAIN v = DOMAIN w /\ v.r = r1 /\ v.n.peer = w.n.peer /\ v.n.room = w.n.room - k
          /\ DOMAIN v.n = DOMAIN w.n /\ v.ret = Len(r1.buf)
          /\ "open" \in DOMAIN w => v.open = w.open
          /\ "src" \in DOMAIN w => v.src = w.src
      BY <2>1 DEF Speaks
    <2> HIDE DEF k
    <2>6. Speaks(v) /\ Around(w, v)
      BY <2>2, <2>4, <2>5 DEF Speaks, Around
    <2>7. Len(r1.buf) # -2
      <3>1. Listed(r1.buf)
        BY <2>4 DEF Spoken
      <3>2. Len(r1.buf) \in Nat
        BY <3>1, ListedParts
      <3> QED BY <3>2
    <2> QED BY <1>1, <1>6, <2>3, <2>4, <2>5, <2>6, <2>7
  <1>7. \/ r.status = "DEAD"
        \/ r.status # "DEAD" /\ left > 0 /\ w.n.peer = "reset"
        \/ r.status # "DEAD" /\ ~(left > 0 /\ w.n.peer = "reset") /\ left > 0 /\ w.n.room = 0
        \/ r.status # "DEAD" /\ ~(left > 0 /\ w.n.peer = "reset") /\ ~(left > 0 /\ w.n.room = 0)
    OBVIOUS
  <1> QED BY <1>3, <1>4, <1>5, <1>6, <1>7
\* What response.c adds to the buffer: one token, or nothing; a dead request gets none.
Says(r, q, x) ==
    /\ Spoken(q) /\ Alike(q, r) /\ q.keepalive = r.keepalive
    /\ q.response_status = r.response_status /\ q.got = r.got
    /\ r.status = "DEAD" => q = r
    /\ \/ Said(q) = Said(r) /\ q.status \in {r.status, "DEAD"}
       \/ Said(q) = Said(r) \o <<x>> /\ q.status = r.status

\* One token (buffer.c).
LEMMA TokenSaid ==
    ASSUME NEW r, Spoken(r), NEW x, NEW q, q = req_write(r, <<x>>)
    PROVE  /\ Says(r, q, x)
           /\ r.status # "DEAD" /\ r.buf = <<>> =>
                 q.status = r.status /\ q.buf = <<x>> /\ q.start = r.start /\ Said(q) = Said(r) \o <<x>>
  <1>1. Listed(<<x>>) /\ Len(<<x>>) = 1
    BY OneToken
  <1>2. /\ Spoken(q) /\ Alike(q, r) /\ q.keepalive = r.keepalive
        /\ q.response_status = r.response_status /\ q.got = r.got /\ q.start = r.start
        /\ \/ q.status = "DEAD" /\ Said(q) = Said(r)
           \/ q.status = r.status /\ Said(q) = Said(r) \o <<x>>
        /\ r.status = "DEAD" => q = r
        /\ r.status # "DEAD" /\ Len(r.buf) + Len(<<x>>) <= BUFFER_SIZE =>
              q.status = r.status /\ Said(q) = Said(r) \o <<x>> /\ q.buf = r.buf \o <<x>>
    <2> DEFINE t == <<x>>
    <2>1. Listed(t) /\ q = req_write(r, t)
      BY <1>1
    <2> HIDE DEF t
    <2>2. /\ Spoken(q) /\ Alike(q, r) /\ q.keepalive = r.keepalive
          /\ q.response_status = r.response_status /\ q.got = r.got /\ q.start = r.start
          /\ \/ q.status = "DEAD" /\ Said(q) = Said(r)
             \/ q.status = r.status /\ Said(q) = Said(r) \o t
          /\ r.status = "DEAD" => q = r
          /\ r.status # "DEAD" /\ Len(r.buf) + Len(t) <= BUFFER_SIZE =>
                q.status = r.status /\ Said(q) = Said(r) \o t /\ q.buf = r.buf \o t
      BY <2>1, WrittenSaid
    <2> QED BY <2>2 DEF t
  <1>3. Says(r, q, x)
    BY <1>2 DEF Says
  <1>4. ASSUME r.status # "DEAD", r.buf = <<>>
        PROVE  q.status = r.status /\ q.buf = <<x>> /\ Said(q) = Said(r) \o <<x>>
    <2>1. Len(r.buf) + Len(<<x>>) <= BUFFER_SIZE
      <3>1. Len(<<>>) = 0
        BY ListedNew
      <3>2. 0 + 1 <= BUFFER_SIZE
        BY BoaAssumption
      <3> QED BY <1>1, <1>4, <3>1, <3>2
    <2>2. <<>> \o <<x>> = <<x>>
      BY <1>1, ListedNone
    <2> QED BY <1>2, <1>4, <2>1, <2>2
  <1> QED BY <1>2, <1>3, <1>4

\* The status line and the headers; an HTTP/0.9 request gets none.
LEMMA HeaderSaid ==
    ASSUME NEW r, Spoken(r), NEW q, q = print_http_headers(r)
    PROVE  /\ Says(r, q, Tok(KaPhrase(r), r.response_status))
           /\ r.simple = "yes" => q = r
           /\ r.simple # "yes" /\ r.status # "DEAD" /\ r.buf = <<>> =>
                 /\ q.status = r.status /\ q.buf = <<Tok(KaPhrase(r), r.response_status)>>
                 /\ q.start = r.start
                 /\ Said(q) = Said(r) \o <<Tok(KaPhrase(r), r.response_status)>>
  <1> DEFINE x == Tok(KaPhrase(r), r.response_status)
  <1>1. CASE r.simple = "yes"
    <2>1. q = r
      BY <1>1 DEF print_http_headers
    <2>2. Alike(r, r)
      BY DEF Alike
    <2> HIDE DEF x
    <2>3. Says(r, q, x)
      BY <2>1, <2>2 DEF Says
    <2> QED BY <1>1, <2>1, <2>3 DEF x
  <1>2. CASE r.simple # "yes"
    <2>1. q = req_write(r, <<x>>)
      BY <1>2 DEF print_http_headers
    <2> HIDE DEF x
    <2>2. /\ Says(r, q, x)
          /\ r.status # "DEAD" /\ r.buf = <<>> =>
                q.status = r.status /\ q.buf = <<x>> /\ q.start = r.start /\ Said(q) = Said(r) \o <<x>>
      BY <2>1, TokenSaid
    <2> QED BY <1>2, <2>2 DEF x
  <1> QED BY <1>1, <1>2

\* A page of Boa's own; a HEAD gets none.
LEMMA PageSaid ==
    ASSUME NEW r, Spoken(r), NEW q, q = WithPage(r)
    PROVE  Says(r, q, Tok("page", r.response_status))
  <1> DEFINE x == Tok("page", r.response_status)
  <1>1. CASE r.method = "HEAD"
    <2>1. q = r
      BY <1>1 DEF WithPage
    <2>2. Alike(r, r)
      BY DEF Alike
    <2> HIDE DEF x
    <2>3. Says(r, q, x)
      BY <2>1, <2>2 DEF Says
    <2> QED BY <2>3 DEF x
  <1>2. CASE r.method # "HEAD"
    <2>1. q = req_write(r, <<x>>)
      BY <1>2 DEF WithPage
    <2> HIDE DEF x
    <2>2. Says(r, q, x)
      BY <2>1, TokenSaid
    <2> QED BY <2>2 DEF x
  <1> QED BY <1>1, <1>2

\* A header and a page, by what they are.
LEMMA Phrases ==
    ASSUME NEW r, NEW n
    PROVE  /\ Tok(KaPhrase(r), n).t \in {"keep", "close"}
           /\ Tok(KaPhrase(r), n).t \notin {"data", "page"}
           /\ Tok("page", n).t = "page" /\ NoStatus(<<Tok("page", n)>>)
  <1>1. KaPhrase(r) \in {"keep", "close"}
    BY DEF KaPhrase
  <1>2. Tok(KaPhrase(r), n).t = KaPhrase(r) /\ Tok("page", n).t = "page"
    BY DEF Tok
  <1>3. NoStatus(<<Tok("page", n)>>)
    <2> DEFINE x == Tok("page", n)
    <2>1. x.t = "page"
      BY <1>2
    <2> HIDE DEF x
    <2>2. Len(<<x>>) = 1 /\ <<x>>[1] = x /\ \A i \in 1..1 : i = 1
      BY OneToken
    <2>3. NoStatus(<<x>>)
      BY <2>1, <2>2 DEF NoStatus
    <2> QED BY <2>3 DEF x
  <1> QED BY <1>1, <1>2, <1>3

\* What is said with one more token has a document only if one of the two has.
LEMMA SaysNoData ==
    ASSUME NEW r, NEW q, NEW x, Spoken(r), Says(r, q, x), NoData(Said(r)), x.t # "data"
    PROVE  NoData(Said(q))
  <1> DEFINE a == Said(r)
  <1>1. Listed(a) /\ NoData(a)
    BY SaidParts
  <1>2. Listed(<<x>>) /\ NoData(<<x>>)
    BY OneToken
  <1>3. Said(q) = a \/ Said(q) = a \o <<x>>
    BY DEF Says
  <1> HIDE DEF a
  <1> QED BY <1>1, <1>2, <1>3, NoDataJoin
\* What has been written is part of what is said.
LEMMA GotFront ==
    ASSUME NEW r, Spoken(r)
    PROVE  /\ NoData(Said(r)) => NoData(r.got)
           /\ OneStatus(Said(r)) => OneStatus(r.got)
           /\ \A k : Shaped(Said(r), k) => \E m \in 0..Len(r.got) : Shaped(r.got, m)
  <1> DEFINE a == r.got
             b == Drop(r.buf, r.start)
  <1>1. Listed(a) /\ Listed(b) /\ Said(r) = a \o b
    BY SaidParts DEF Said
  <1> HIDE DEF a, b
  <1>2. /\ NoData(a \o b) => NoData(a)
        /\ OneStatus(a \o b) => OneStatus(a)
        /\ \A k : Shaped(a \o b, k) => \E m \in 0..Len(a) : Shaped(a, m)
    BY <1>1, ShapedFront
  <1> QED BY <1>1, <1>2 DEF a

\* An answer that is sent at once (response.c): a status line and a page after what has
\* been said, and the connection is to be closed.
Sends(w, v, code) ==
    /\ Speaks(v) /\ Around(w, v) /\ Alike(v.r, w.r)
    /\ v.r.keepalive = "stopped" /\ v.r.response_status = code
    /\ v.r.status \in {w.r.status, "DEAD"}
    /\ w.r.status = "DEAD" => Said(v.r) = Said(w.r)
    /\ NoData(Said(w.r)) => NoData(Said(v.r))
    /\ Said(w.r) = <<>> => OneStatus(Said(v.r))

\* send_r_error and its kin.
LEMMA SentSaid ==
    ASSUME NEW w, Speaks(w), NEW code, NEW v, v = send_r(w, code)
    PROVE  Sends(w, v, code)
  <1> DEFINE r0 == SQUASH_KA(w.r)
             r1 == [r0 EXCEPT !.response_status = code]
             r2 == print_http_headers(r1)
             r3 == WithPage(r2)
             u == [w EXCEPT !.r = r3]
             x == Tok(KaPhrase(r1), r1.response_status)
             y == Tok("page", r2.response_status)
  <1>1. v = req_flush(u)
    BY DEF send_r, Speaks
  <1>2. Spoken(w.r)
    BY DEF Speaks
  <1>3. Reworded(r0, w.r) /\ r0.keepalive = "stopped" /\ r0.status = w.r.status
    BY <1>2, SpokenSquash
  <1>4. Spoken(r0)
    BY <1>3 DEF Reworded
  <1> HIDE DEF r0
  <1>5. Reworded(r1, r0) /\ r1.keepalive = r0.keepalive /\ r1.response_status = code /\ r1.status = r0.status
    BY <1>4, SpokenCode
  <1>6. Spoken(r1) /\ Said(r1) = Said(w.r) /\ Alike(r1, w.r) /\ r1.keepalive = "stopped" /\ r1.got = w.r.got
        /\ r1.status = w.r.status
    BY <1>3, <1>5, AlikeTrans DEF Reworded
  <1>7. x.t \in {"keep", "close"} /\ x.t # "data" /\ y.t = "page" /\ NoStatus(<<y>>)
    BY Phrases
  <1> HIDE DEF r1
  <1>8. Says(r1, r2, x)
    BY <1>6, HeaderSaid
  <1>9. Spoken(r2)
    BY <1>8 DEF Says
  <1> HIDE DEF r2
  <1>10. Says(r2, r3, y)
    BY <1>9, PageSaid
  <1> HIDE DEF x, y, r3
  <1>11. /\ Spoken(r3) /\ Alike(r3, w.r) /\ r3.keepalive = "stopped" /\ r3.response_status = code
         /\ r3.got = w.r.got /\ r3.status \in {w.r.status, "DEAD"}
         /\ w.r.status = "DEAD" => Said(r3) = Said(w.r)
    <2>1. Alike(r2, r1) /\ Alike(r3, r2)
      BY <1>8, <1>10 DEF Says
    <2>2. Alike(r3, w.r)
      BY <1>6, <2>1, AlikeTrans
    <2>3. w.r.status = "DEAD" => r2 = r1 /\ r3 = r2
      BY <1>6, <1>8, <1>10 DEF Says
    <2>4. /\ Spoken(r3) /\ r3.keepalive = "stopped" /\ r3.response_status = code
          /\ r3.got = w.r.got /\ r3.status \in {w.r.status, "DEAD"}
      BY <1>5, <1>6, <1>8, <1>10 DEF Says
    <2> QED BY <1>6, <2>2, <2>3, <2>4
  <1>12. ASSUME NoData(Said(w.r)) PROVE NoData(Said(r3))
    <2>1. NoData(Said(r2))
      BY <1>6, <1>7, <1>8, <1>12, SaysNoData
    <2> QED BY <1>7, <1>9, <1>10, <2>1, SaysNoData
  <1>13. ASSUME Said(w.r) = <<>> PROVE OneStatus(Said(r3))
    <2>1. Said(r2) = <<>> \/ Said(r2) = <<x>>
      <3>1. <<>> \o <<x>> = <<x>>
        BY OneToken, ListedNone
      <3> QED BY <1>6, <1>8, <1>13, <3>1 DEF Says
    <2>2. Listed(<<y>>) /\ OneStatus(<<y>>) /\ OneStatus(<<>>) /\ OneStatus(<<x>>)
      BY OneToken
    <2>3. <<>> \o <<y>> = <<y>>
      BY <2>2, ListedNone
    <2>4. OneStatus(<<x>> \o <<y>>)
      BY <1>7, <2>2, ConsStatus
    <2>5. Said(r3) = Said(r2) \/ Said(r3) = Said(r2) \o <<y>>
      BY <1>10 DEF Says
    <2> QED BY <2>1, <2>2, <2>3, <2>4, <2>5
  <1>14. Speaks(u) /\ Around(w, u) /\ u.r = r3
    BY <1>11, SpeaksSwap
  <1> HIDE DEF u
  <1>15. /\ Speaks(v) /\ Around(u, v) /\ Alike(v.r, u.r)
         /\ v.r.keepalive = u.r.keepalive /\ v.r.response_status = u.r.response_status
         /\ \/ u.r.status = "DEAD" /\ v.r = u.r /\ v.ret = -2
            \/ /\ v.r.status = "DEAD" /\ Said(v.r) = u.r.got /\ u.n.peer = "reset" /\ v.ret = -2
               /\ u.r.status # "DEAD"
            \/ /\ v.r.status = u.r.status /\ Said(v.r) = Said(u.r) /\ v.ret # -2
               /\ u.r.status # "DEAD" /\ (v.ret = Len(v.r.buf) \/ v.ret = -1)
    BY <1>1, <1>14, FlushedSaid
  <1>16. Around(w, v) /\ Alike(v.r, w.r)
    BY <1>11, <1>14, <1>15, AroundTrans, AlikeTrans
  <1>17. Said(v.r) = Said(r3) \/ (Said(v.r) = r3.got /\ r3.status # "DEAD")
    BY <1>14, <1>15
  <1>18. NoData(Said(w.r)) => NoData(Said(v.r))
    BY <1>11, <1>12, <1>17, GotFront
  <1>19. Said(w.r) = <<>> => OneStatus(Said(v.r))
    BY <1>11, <1>13, <1>17, GotFront
  <1>20. w.r.status = "DEAD" => Said(v.r) = Said(w.r)
    BY <1>11, <1>17
  <1>21. v.r.status \in {w.r.status, "DEAD"}
    BY <1>11, <1>14, <1>15
  <1> QED BY <1>11, <1>14, <1>15, <1>16, <1>18, <1>19, <1>20, <1>21 DEF Sends

\* A request whose answer has no document, on a connection that is to be closed.
Plain(r) ==
    /\ Spoken(r) /\ NoData(Said(r)) /\ (OneStatus(Said(r)) \/ Forkless(r))
    /\ r.keepalive # "active" /\ r.response_status # 200
    /\ r.status \in Pipes => ~(r.response_status < 400)

LEMMA PlainOver ==
    ASSUME NEW r, Plain(r), NEW n, NEW fds, NEW s
    PROVE  Over(r, n, fds, s)
  <1>1. Spoken(r) /\ NoData(Said(r))
    BY DEF Plain
  <1>2. \E k \in 0..Len(Said(r)) : Shaped(Said(r), k)
    BY <1>1, SaidParts, ShapedNone
  <1> QED BY <1>2 DEF Over, Plain

\* A request for which nothing has been said, and nothing is to be.
LEMMA SilentOver ==
    ASSUME NEW r, Spoken(r), Silent(r), r.status \notin Pipes, NEW n, NEW fds, NEW s,
           r.keepalive = "active" /\ r.status # "DEAD" => Dropped(r, n)
    PROVE  Over(r, n, fds, s)
  <1>1. Said(r) = <<>> /\ Listed(Said(r)) /\ r.response_status = 0
    BY SaidParts DEF Silent
  <1>2. NoData(<<>>) /\ OneStatus(<<>>)
    BY OneToken
  <1>3. \E k \in 0..Len(Said(r)) : Shaped(Said(r), k)
    BY <1>1, <1>2, ShapedNone
  <1>4. r.got = <<>> /\ r.buf = <<>>
    BY DEF Silent
  <1> QED BY <1>1, <1>2, <1>3, <1>4 DEF Over

\* A dead request.
LEMMA DeadOver ==
    ASSUME NEW r, NEW k, Spoken(r), Shaped(Said(r), k), OneStatus(Said(r)) \/ Forkless(r),
           r.status = "DEAD", NEW n, NEW fds, NEW s
    PROVE  Over(r, n, fds, s)
  <1>1. \E m \in 0..Len(Said(r)) : Shaped(Said(r), m)
    BY DEF Shaped
  <1> QED BY <1>1, LateStatus DEF Over

\* A refusal ends the request, with a page or without.
LEMMA RefusedOver ==
    ASSUME NEW w, Speaks(w), NEW code \in Int, code # 200, w.r.status \in Pipes => code >= 400,
           NoData(Said(w.r)),
           Said(w.r) = <<>> \/ (code = 500 /\ Site[w.r.uri].kind \in {"gz", "dir"}),
           NEW v, v = Refuse(w, code)
    PROVE  /\ Speaks(v) /\ Around(w, v) /\ Alike(v.r, w.r) /\ v.ret = 0
           /\ v.r.keepalive = "stopped" /\ v.r.response_status = code
           /\ Plain(v.r)
  <1> DEFINE u == send_r(w, code)
  <1>1. Sends(w, u, code) /\ v = [u EXCEPT !.ret = 0]
    BY SentSaid DEF Refuse
  <1> HIDE DEF u
  <1>2. Speaks(u)
    BY <1>1 DEF Sends
  <1>3. Speaks(v) /\ Around(u, v) /\ v.r = u.r /\ v.ret = 0
    BY <1>1, <1>2, SpeaksBack
  <1>4. Around(w, v) /\ Alike(v.r, w.r)
    BY <1>1, <1>3, AroundTrans DEF Sends
  <1>5. /\ NoData(Said(v.r)) /\ v.r.keepalive = "stopped" /\ v.r.response_status = code
        /\ v.r.status \in {w.r.status, "DEAD"} /\ (Said(w.r) = <<>> => OneStatus(Said(v.r)))
    BY <1>1, <1>3 DEF Sends
  <1>6. OneStatus(Said(v.r)) \/ Forkless(v.r)
    BY <1>4, <1>5 DEF Forkless, Alike
  <1>7. v.r.status \in Pipes => ~(v.r.response_status < 400)
    BY <1>5, LateStatus
  <1>8. Spoken(v.r)
    BY <1>3 DEF Speaks
  <1>9. Plain(v.r)
    BY <1>5, <1>6, <1>7, <1>8 DEF Plain
  <1> QED BY <1>3, <1>4, <1>5, <1>9
-----------------------------------------------------------------------------
(* Answers: the handlers that open a source.                               *)

\* A handler's record, with the descriptors and what can be read from them.
Serves(w) ==
    /\ Speaks(w) /\ {"open", "src"} \subseteq DOMAIN w
    /\ DOMAIN w.open = AllFds /\ SourcesListed(w.src)

\* What a handler makes of u: an answer that is over, or one that goes on; of what other
\* requests read nothing is touched.
Outcome(u, w) ==
    /\ Spoken(w.r) /\ SourcesListed(w.src)
    /\ u.r.logline = "yes" => w.r.logline = "yes"
    /\ \A g \in AllFds : u.open[g] # "free" /\ g # u.r.data_fd => w.src[g] = u.src[g]
    /\ IF w.ret = 0 THEN Over(w.r, w.n, w.open, w.src) ELSE Going(w.r, w.n, w.open, w.src)

\* An answer that goes on, by the request's status.
LEMMA GoesOn ==
    ASSUME NEW r, NEW n, NEW fds, NEW s
    PROVE  /\ r.status \in Early /\ Unread(r) => Going(r, n, fds, s)
           /\ r.status = "WRITE" /\ Mapped(r) => Going(r, n, fds, s)
           /\ r.status \in Pipes /\ Streamed(r, fds, s) => Going(r, n, fds, s)
           /\ r.status \in {"DONE", "DEAD"} /\ Over(r, n, fds, s) => Going(r, n, fds, s)
  BY DEF Going, Early, Headers, Pipes

\* What Site says of a program's output.
LEMMA ProgramOutput ==
    ASSUME NEW u \in DOMAIN Site
    PROVE  /\ Listed(Site[u].out) /\ NoStatus(Site[u].out)
           /\ \E k \in 0..Len(Site[u].out) : Shaped(Site[u].out, k)
  BY SiteAssumption DEF NoStatus, Listed

\* A program that has just been started will give all of its output.
LEMMA CgiStreamed ==
    ASSUME NEW q, Spoken(q), NEW fds, NEW s,
           q.data = <<>>, s[q.data_fd].pipe = <<>>, s[q.data_fd].left = Site[q.uri].out,
           q.uri \in DOMAIN Site, fds[q.data_fd] = "pipe", NoData(Said(q)),
           NEW x, Said(q) = <<>> \/ (Said(q) = <<x>> /\ x.t \notin {"data", "page"}),
           q.cgi_status \in {"PARSE", "BUFFER"}, q.cgi_status = "PARSE" => Silent(q),
           q.keepalive # "active", q.off \in Nat, q.off <= BUFFER_SIZE, q.status = "PIPE_READ"
    PROVE  Streamed(q, fds, s)
  <1> DEFINE a == Said(q)
             out == Site[q.uri].out
             c == Coming(q, s)
  <1>1. Listed(out) /\ NoStatus(out) /\ \E k \in 0..Len(out) : Shaped(out, k)
    BY ProgramOutput
  <1>2. Listed(a) /\ NoData(a) /\ (a = <<>> \/ a = <<x>>)
    BY SaidParts
  <1>3. c = a \o (<<>> \o (<<>> \o s[q.data_fd].left))
    BY DEF Coming
  <1>4. Listed(q.data) /\ q.off + Len(q.data) <= BUFFER_SIZE
    BY ListedNew, BoaAssumption
  <1>5. s[q.data_fd].left = out
    OBVIOUS
  <1> HIDE DEF out
  <1>6. <<>> \o out = out
    BY <1>1, ListedNone
  <1>7. c = a \o out
    BY <1>3, <1>5, <1>6
  <1>8. OneStatus(a \o out)
    <2> HIDE DEF a
    <2> QED BY <1>1, <1>2, StatusJoin
  <1>9. DataCount(a \o out) = DataCount(out)
    <2> HIDE DEF a
    <2>1. DataCount(a) = 0
      BY <1>2, CountNone
    <2>2. DataCount(a \o out) = DataCount(a) + DataCount(out) /\ DataCount(out) \in Nat
      BY <1>1, <1>2, CountJoin
    <2> QED BY <2>1, <2>2
  <1>10. \E k \in 0..Len(a \o out) : Shaped(a \o out, k)
    <2>1. PICK k \in 0..Len(out) : Shaped(out, k)
      BY <1>1
    <2>2. CASE a = <<>>
      <3>1. a \o out = out
        BY <1>6, <2>2
      <3> HIDE DEF a
      <3> QED BY <2>1, <3>1
    <2>3. CASE a = <<x>>
      <3>1. x.t \notin {"data", "page"}
        <4>1. <<x>> # <<>>
          BY OneToken
        <4> QED BY <2>3, <4>1
      <3>2. Shaped(<<x>> \o out, k + 1)
        BY <1>1, <2>1, <3>1, ShapedCons
      <3>3. Shaped(a \o out, k + 1)
        BY <2>3, <3>2
      <3> HIDE DEF a
      <3>4. k + 1 \in 0..Len(a \o out)
        BY <3>3 DEF Shaped
      <3> QED BY <3>3, <3>4
    <2> QED BY <1>2, <2>2, <2>3
  <1>11. q.cgi_status = "PARSE" =>
            Silent(q) /\ \A i \in 1..Len(a \o out) : (a \o out)[i].t \notin {"keep", "close"}
    <2>1. SUFFICES ASSUME q.cgi_status = "PARSE" PROVE Silent(q) /\ a \o out = out
      BY <1>1 DEF NoStatus
    <2>2. Silent(q)
      BY <2>1
    <2>3. a = <<>>
      BY <2>2, SaidParts
    <2> QED BY <1>6, <2>2, <2>3
  <1> HIDE DEF c, a
  <1>12. OneStatus(c) /\ DataCount(c) = DataCount(Site[q.uri].out) /\ (\E k \in 0..Len(c) : Shaped(c, k))
    BY <1>7, <1>8, <1>9, <1>10 DEF out
  <1>13. q.cgi_status = "PARSE" => Silent(q) /\ \A i \in 1..Len(c) : c[i].t \notin {"keep", "close"}
    BY <1>7, <1>11
  <1>14. Piped(q, s)
    BY <1>12, <1>13 DEF Piped, c
  <1>15. q.cgi_status # "DONE" /\ q.status # "PIPE_WRITE"
    OBVIOUS
  <1> QED BY <1>4, <1>12, <1>14, <1>15 DEF Streamed, c
\* Another source for a descriptor.
LEMMA SourceSet ==
    ASSUME NEW s, SourcesListed(s), NEW fd \in AllFds, NEW e, {"alive", "left", "pipe"} \subseteq DOMAIN e,
           Listed(e.pipe), Listed(e.left)
    PROVE  /\ SourcesListed([s EXCEPT ![fd] = e]) /\ [s EXCEPT ![fd] = e][fd] = e
           /\ \A g \in AllFds : g # fd => [s EXCEPT ![fd] = e][g] = s[g]
  BY DEF SourcesListed

\* What is started with nothing said goes on.
LEMMA AroundOutcome ==
    ASSUME NEW w, Serves(w), NEW v, Speaks(v), Around(w, v), v.r.logline = w.r.logline, v.ret = 0,
           Over(v.r, v.n, v.open, v.src)
    PROVE  Outcome(w, v)
  BY DEF Outcome, Serves, Speaks, Around

\* init_cgi (cgi.c) starts a program, or gives up with or without a page.
LEMMA CgiSaid ==
    ASSUME NEW w, Serves(w), w.r.uri \in DOMAIN Site, w.r.status \notin Pipes, NoData(Said(w.r)), NEW x,
           \/ Said(w.r) = <<>>
           \/ /\ Said(w.r) = <<x>> /\ x.t \notin {"data", "page"}
              /\ Site[w.r.uri].kind \in {"gz", "dir"},
           w.r.is_cgi = "CGI" => Silent(w.r),
           w.r.response_status = 200 => w.r.filesize = 0 /\ w.r.data_fd = -1,
           NEW fault, NEW v, v = init_cgi(w, fault)
    PROVE  Outcome(w, v)
  <1> DEFINE r == SQUASH_KA(w.r)
             u == [w EXCEPT !.r = r]
             fd == LowestFree(w.open)
             now == [f \in AllFds |-> IF f = fd THEN "pipe"
                                      ELSE IF f = r.post_data_fd THEN "free" ELSE w.open[f]]
             off == IF r.is_cgi = "CGI" THEN BUFFER_SIZE \div 2 ELSE 0
             cgi == IF r.is_cgi = "CGI" THEN "PARSE" ELSE "BUFFER"
             q == [r EXCEPT !.post_data_fd = -1, !.data_fd = fd, !.status = "PIPE_READ",
                            !.cgi_status = cgi, !.off = off, !.data = <<>>, !.filepos = 0]
             child == Child(r)
             s == [w.src EXCEPT ![fd] = child]
             on == [w EXCEPT !.open = now, !.src[fd] = child, !.r = q, !.ret = 1]
  <1>1. \/ v = GiveUp(u)
        \/ v = Refuse(u, 500)
        \/ v = on /\ Free(w.open) # {}
    <2>1. \/ v = GiveUp(u)
          \/ v = Refuse(u, 500)
          \/ v = on /\ ~(Cardinality(Free(w.open)) < 2)
      BY Zenon DEF init_cgi
    <2>2. Free(w.open) = {} => Cardinality(Free(w.open)) = 0
      BY FS_EmptySet
    <2>3. Free(w.open) = {} => Cardinality(Free(w.open)) < 2
      BY <2>2
    <2> QED BY <2>1, <2>3, Zenon
  <1>2. Speaks(w) /\ Spoken(w.r)
    BY DEF Serves, Speaks
  <1>3. /\ Reworded(r, w.r) /\ r.keepalive = "stopped"
        /\ r.response_status = w.r.response_status /\ r.status = w.r.status
    BY <1>2, SpokenSquash
  <1>4. Spoken(r)
    BY <1>3 DEF Reworded
  <1> HIDE DEF r
  <1>5. Speaks(u) /\ Around(w, u) /\ u.r = r
    BY <1>2, <1>4, SpeaksSwap
  <1>6. Alike(r, w.r) /\ Said(r) = Said(w.r) /\ r.got = w.r.got /\ r.buf = w.r.buf /\ r.start = w.r.start
    BY <1>3 DEF Reworded
  <1>7. NoData(Said(r)) /\ r.logline = w.r.logline
    BY <1>6 DEF Alike
  <1>8. ASSUME v = GiveUp(u) PROVE Outcome(w, v)
    <2>1. v = [u EXCEPT !.ret = 0]
      BY <1>8 DEF GiveUp
    <2>2. Speaks(v) /\ Around(u, v) /\ v.r = r /\ v.ret = 0
      <3> HIDE DEF u
      <3> QED BY <1>5, <2>1, SpeaksBack
    <2>3. Around(w, v)
      BY <1>5, <2>2, AroundTrans
    <2>4. OneStatus(Said(r))
      BY <1>6, OneToken
    <2>5. \E k \in 0..Len(Said(r)) : Shaped(Said(r), k)
      BY <1>4, <1>7, SaidParts, ShapedNone
    <2>6. DataCount(Said(r)) = 0
      BY <1>4, <1>7, SaidParts, CountNone
    <2>7. r.response_status = 200 => r.filesize = 0 /\ r.data_fd = -1
      BY <1>3, <1>6 DEF Alike
    <2>8. Over(r, v.n, v.open, v.src)
      BY <1>3, <2>4, <2>5, <2>6, <2>7 DEF Over
    <2> QED BY <1>7, <2>2, <2>3, <2>8, AroundOutcome
  <1>9. ASSUME v = Refuse(u, 500) PROVE Outcome(w, v)
    <2> DEFINE code == 500
    <2>1. code \in Int /\ code # 200 /\ code = 500 /\ code >= 400
      OBVIOUS
    <2>2. Said(u.r) = <<>> \/ (code = 500 /\ Site[u.r.uri].kind \in {"gz", "dir"})
      BY <1>5, <1>6 DEF Alike
    <2>3. NoData(Said(u.r)) /\ v = Refuse(u, code)
      BY <1>5, <1>7, <1>9
    <2> HIDE DEF u, code
    <2>4. Speaks(v) /\ Around(u, v) /\ Alike(v.r, u.r) /\ v.ret = 0 /\ Plain(v.r)
      BY <1>5, <2>1, <2>2, <2>3, RefusedOver
    <2>5. Around(w, v) /\ v.r.logline = w.r.logline
      BY <1>5, <1>7, <2>4, AroundTrans DEF Alike
    <2>6. Over(v.r, v.n, v.open, v.src)
      BY <2>4, PlainOver
    <2> QED BY <2>4, <2>5, <2>6, AroundOutcome
  <1>10. ASSUME v = on, Free(w.open) # {} PROVE Outcome(w, v)
    <2>1. fd \in AllFds /\ w.open[fd] = "free"
      BY <1>10, LowestIsFree DEF Free
    <2> HIDE DEF fd
    <2>2. /\ child.pipe = <<>> /\ child.left = Site[w.r.uri].out /\ {"alive", "left", "pipe"} \subseteq DOMAIN child
      BY <1>6 DEF Child, Alike
    <2> HIDE DEF child
    <2>3. Listed(child.pipe) /\ Listed(child.left)
      BY <2>2, ListedNew, ProgramOutput
    <2>4. SourcesListed(w.src)
      BY DEF Serves
    <2>5. SourcesListed(s) /\ s[fd] = child /\ \A g \in AllFds : g # fd => s[g] = w.src[g]
      <3> DEFINE s0 == w.src
      <3>1. SourcesListed(s0)
        BY <2>4
      <3> HIDE DEF s0
      <3>2. /\ SourcesListed([s0 EXCEPT ![fd] = child]) /\ [s0 EXCEPT ![fd] = child][fd] = child
            /\ \A g \in AllFds : g # fd => [s0 EXCEPT ![fd] = child][g] = s0[g]
        BY <2>1, <2>2, <2>3, <3>1, SourceSet
      <3> QED BY <3>2 DEF s0
    <2>6. now[fd] = "pipe"
      BY <2>1
    <2>7. off \in Nat /\ off <= BUFFER_SIZE
      BY BoaAssumption
    <2>8. cgi \in {"PARSE", "BUFFER"} /\ (cgi = "PARSE" => r.is_cgi = "CGI")
      OBVIOUS
    <2> HIDE DEF off, cgi, now
    <2>9. Fields \subseteq DOMAIN r
      BY <1>4 DEF Spoken
    <2>10. /\ q.data_fd = fd /\ q.status = "PIPE_READ" /\ q.cgi_status = cgi /\ q.off = off /\ q.data = <<>>
           /\ q.got = r.got /\ q.buf = r.buf /\ q.start = r.start /\ q.keepalive = r.keepalive
           /\ q.response_status = r.response_status /\ q.uri = r.uri /\ q.logline = r.logline
           /\ DOMAIN q = DOMAIN r
      BY <2>9 DEF Fields
    <2> HIDE DEF q
    <2>11. Spoken(q) /\ Said(q) = Said(r)
      BY <1>3, <1>4, <2>10 DEF Spoken, Said
    <2>12. cgi = "PARSE" => Silent(q)
      <3>1. cgi = "PARSE" => Silent(w.r)
        BY <1>6, <2>8 DEF Alike
      <3> QED BY <1>3, <1>6, <2>10, <3>1 DEF Silent
    <2>13. q.uri = w.r.uri
      BY <1>6, <2>10 DEF Alike
    <2>14. Said(q) = <<>> \/ (Said(q) = <<x>> /\ x.t \notin {"data", "page"})
      BY <1>6, <2>11
    <2>15. s[q.data_fd].pipe = <<>> /\ s[q.data_fd].left = Site[q.uri].out /\ now[q.data_fd] = "pipe"
      BY <2>2, <2>5, <2>6, <2>10, <2>13
    <2>16. NoData(Said(q)) /\ q.uri \in DOMAIN Site
      BY <1>7, <2>11, <2>13
    <2>17. q.keepalive # "active" /\ q.off \in Nat /\ q.off <= BUFFER_SIZE /\ q.cgi_status \in {"PARSE", "BUFFER"}
      BY <1>3, <2>7, <2>8, <2>10
    <2> HIDE DEF s
    <2>18. Streamed(q, now, s)
      BY <2>10, <2>11, <2>12, <2>14, <2>15, <2>16, <2>17, CgiStreamed
    <2>19. v.r = q /\ v.open = now /\ v.src = s /\ v.ret = 1
      <3>1. {"n", "open", "r", "ret", "src"} \subseteq DOMAIN w
        BY DEF Serves, Speaks
      <3> QED BY <1>10, <3>1 DEF s
    <2>20. Going(q, v.n, now, s)
      BY <2>10, <2>18, LateStatus, GoesOn
    <2>21. \A g \in AllFds : w.open[g] # "free" => v.src[g] = w.src[g]
      BY <2>1, <2>5, <2>19
    <2>22. v.r.logline = w.r.logline
      BY <1>7, <2>10, <2>19
    <2> QED BY <2>5, <2>11, <2>19, <2>20, <2>21, <2>22 DEF Outcome
  <1> QED BY <1>1, <1>8, <1>9, <1>10
\* The status line of an answer of 200.
OkHeader(r) == Tok(KaPhrase([r EXCEPT !.response_status = 200]), 200)

\* It is what the answer begins with (response.c), but not that to an HTTP/0.9 request.
LEMMA OkSaid ==
    ASSUME NEW r, Spoken(r), Silent(r), r.status # "DEAD", NEW q, q = send_r_request_ok(r)
    PROVE  /\ Spoken(q) /\ Alike(q, r) /\ q.keepalive = r.keepalive /\ q.response_status = 200
           /\ q.status = r.status /\ q.got = <<>> /\ q.start = 0
           /\ r.simple = "yes" => q.buf = <<>> /\ Said(q) = <<>>
           /\ r.simple # "yes" => q.buf = <<OkHeader(r)>> /\ Said(q) = <<OkHeader(r)>>
  <1> DEFINE c == [r EXCEPT !.response_status = 200]
             x == Tok(KaPhrase(c), c.response_status)
             y == Tok(KaPhrase(c), 200)
  <1>1. q = print_http_headers(c)
    BY DEF send_r_request_ok
  <1>2. /\ Reworded(c, r) /\ c.keepalive = r.keepalive /\ c.response_status = 200 /\ c.status = r.status
    BY SpokenCode
  <1>3. OkHeader(r) = y
    BY DEF OkHeader
  <1> HIDE DEF c
  <1>4. Spoken(c) /\ Alike(c, r) /\ c.got = <<>> /\ c.buf = <<>> /\ c.start = 0
    BY <1>2 DEF Reworded, Silent
  <1>5. Said(c) = <<>> /\ c.simple = r.simple
    BY <1>4, SaidParts DEF Alike
  <1>6. x = y
    BY <1>2
  <1> HIDE DEF x, y
  <1>7. /\ Says(c, q, x)
        /\ c.simple = "yes" => q = c
        /\ c.simple # "yes" /\ c.status # "DEAD" /\ c.buf = <<>> =>
              /\ q.status = c.status /\ q.buf = <<x>> /\ q.start = c.start
              /\ Said(q) = Said(c) \o <<x>>
    BY <1>1, <1>4, HeaderSaid DEF x
  <1>8. Spoken(q) /\ q.keepalive = r.keepalive /\ q.response_status = 200 /\ q.got = <<>> /\ Alike(q, r)
    BY <1>2, <1>4, <1>7, AlikeTrans DEF Says
  <1>9. CASE r.simple = "yes"
    BY <1>2, <1>4, <1>5, <1>7, <1>8, <1>9
  <1>10. CASE r.simple # "yes"
    <2>1. <<>> \o <<x>> = <<x>>
      BY OneToken, ListedNone
    <2> QED BY <1>2, <1>3, <1>4, <1>5, <1>6, <1>7, <1>8, <1>10, <2>1
  <1> QED BY <1>9, <1>10

\* And after it has been flushed: with a client that has gone it is lost.
OkFlush(w) == req_flush([w EXCEPT !.r = send_r_request_ok(@)])

LEMMA OkFlushed ==
    ASSUME NEW w, Speaks(w), Silent(w.r), w.r.status # "DEAD", NEW f, f = OkFlush(w)
    PROVE  /\ Speaks(f) /\ Around(w, f) /\ Alike(f.r, w.r) /\ f.r.keepalive = w.r.keepalive
           /\ f.r.response_status = 200 /\ f.r.status \in {w.r.status, "DEAD"}
           /\ Said(f.r) = <<>> \/ Said(f.r) = <<OkHeader(w.r)>>
           /\ w.r.simple # "yes" /\ f.r.status # "DEAD" => Said(f.r) = <<OkHeader(w.r)>>
  <1> DEFINE q == send_r_request_ok(w.r)
             u == [w EXCEPT !.r = q]
             x == OkHeader(w.r)
  <1>1. Spoken(w.r) /\ f = req_flush(u)
    BY DEF Speaks, OkFlush
  <1>2. /\ Spoken(q) /\ Alike(q, w.r) /\ q.keepalive = w.r.keepalive /\ q.response_status = 200
        /\ q.status = w.r.status /\ q.got = <<>>
        /\ w.r.simple = "yes" => Said(q) = <<>>
        /\ w.r.simple # "yes" => Said(q) = <<x>>
    BY <1>1, OkSaid
  <1> HIDE DEF q, x
  <1>3. Speaks(u) /\ Around(w, u) /\ u.r = q /\ u.n = w.n
    BY <1>2, SpeaksSwap
  <1> HIDE DEF u
  <1>4. /\ Speaks(f) /\ Around(u, f) /\ Alike(f.r, u.r)
        /\ f.r.keepalive = u.r.keepalive /\ f.r.response_status = u.r.response_status
        /\ \/ u.r.status = "DEAD" /\ f.r = u.r /\ f.ret = -2
           \/ /\ f.r.status = "DEAD" /\ Said(f.r) = u.r.got /\ u.n.peer = "reset" /\ f.ret = -2
              /\ u.r.status # "DEAD"
           \/ /\ f.r.status = u.r.status /\ Said(f.r) = Said(u.r) /\ f.ret # -2
              /\ u.r.status # "DEAD" /\ (f.ret = Len(f.r.buf) \/ f.ret = -1)
    BY <1>1, <1>3, FlushedSaid
  <1>5. Around(w, f) /\ Alike(f.r, w.r)
    BY <1>2, <1>3, <1>4, AroundTrans, AlikeTrans
  <1>6. f.r.status \in {w.r.status, "DEAD"}
    BY <1>2, <1>3, <1>4
  <1>7. \/ Said(f.r) = Said(q)
        \/ Said(f.r) = <<>> /\ f.r.status = "DEAD"
    BY <1>2, <1>3, <1>4
  <1>8. /\ Said(f.r) = <<>> \/ Said(f.r) = <<x>>
        /\ w.r.simple # "yes" /\ f.r.status # "DEAD" => Said(f.r) = <<x>>
    BY <1>2, <1>7
  <1> QED BY <1>2, <1>3, <1>4, <1>5, <1>6, <1>8 DEF x

\* The header is one token that is neither of the document nor a page.
LEMMA OkToken ==
    ASSUME NEW r
    PROVE  OkHeader(r).t \notin {"data", "page"}
  BY Phrases DEF OkHeader

\* From where a handler's flush has left off.
LEMMA OutcomeAround ==
    ASSUME NEW w, NEW f, NEW v, {"open", "src"} \subseteq DOMAIN w, Around(w, f),
           Alike(f.r, w.r), Outcome(f, v)
    PROVE  Outcome(w, v)
  BY DEF Around, Alike, Outcome

\* A header alone, of what is the right shape.
LEMMA HeaderAlone ==
    ASSUME NEW a, NEW x, x.t \notin {"data", "page"}, a = <<>> \/ a = <<x>>
    PROVE  /\ Listed(a) /\ NoData(a) /\ OneStatus(a) /\ Len(a) \in 0..1 /\ Shaped(a, Len(a))
           /\ (\E k \in 0..Len(a) : Shaped(a, k)) /\ DataCount(a) = 0
           /\ \A i \in 1..Len(a) : a[i].t # "page"
  <1>1. /\ Listed(<<x>>) /\ NoData(<<x>>) /\ Len(<<x>>) = 1 /\ <<x>>[1] = x
        /\ NoData(<<>>) /\ OneStatus(<<x>>) /\ OneStatus(<<>>)
    BY OneToken
  <1>2. Listed(<<>>) /\ Len(<<>>) = 0
    BY ListedNew
  <1>3. Listed(a) /\ NoData(a) /\ OneStatus(a) /\ Len(a) \in 0..1
    BY <1>1, <1>2
  <1>4. Shaped(a, Len(a)) /\ (\E k \in 0..Len(a) : Shaped(a, k)) /\ DataCount(a) = 0
    BY <1>3, ShapedNone, CountNone
  <1>5. \A i \in 1..1 : i = 1
    OBVIOUS
  <1>6. \A i \in 1..Len(a) : a[i].t # "page"
    BY <1>1, <1>2, <1>5
  <1> QED BY <1>3, <1>4, <1>6

\* The output of a filter, after a header of Boa's own (get.c).
LEMMA FilteredSaid ==
    ASSUME NEW w, Serves(w), Silent(w.r), w.r.status = "WRITE", w.r.filesize = 0, w.r.data_fd = -1,
           w.r.is_cgi # "CGI", w.r.uri \in DOMAIN Site, Site[w.r.uri].kind \in {"gz", "dir"},
           NEW fault, NEW v, v = GetFiltered(w, fault)
    PROVE  Outcome(w, v)
  <1> DEFINE f == OkFlush(w)
             x == OkHeader(w.r)
             a == Said(f.r)
  <1>1. Speaks(w) /\ ({"open", "src"} \subseteq DOMAIN w) /\ w.r.status # "DEAD"
    BY DEF Serves
  <1>3. v = IF w.r.method = "HEAD" THEN GiveUp(f) ELSE init_cgi(f, fault)
    BY DEF GetFiltered, OkFlush
  <1>10. f = OkFlush(w)
    OBVIOUS
  <1> HIDE DEF f
  <1>2. /\ Speaks(f) /\ Around(w, f) /\ Alike(f.r, w.r) /\ f.r.keepalive = w.r.keepalive
        /\ f.r.response_status = 200 /\ f.r.status \in {w.r.status, "DEAD"}
        /\ a = <<>> \/ a = <<x>>
        /\ w.r.simple # "yes" /\ f.r.status # "DEAD" => a = <<x>>
    BY <1>1, <1>10, OkFlushed
  <1>4. x.t \notin {"data", "page"}
    BY OkToken
  <1> HIDE DEF f, x
  <1>5. /\ Listed(a) /\ NoData(a) /\ OneStatus(a) /\ Len(a) \in 0..1
        /\ (\E k \in 0..Len(a) : Shaped(a, k))
    <2> HIDE DEF a
    <2> QED BY <1>2, <1>4, HeaderAlone
  <1>6. /\ f.r.filesize = 0 /\ f.r.data_fd = -1 /\ f.r.is_cgi # "CGI" /\ f.r.uri = w.r.uri
        /\ f.r.method = w.r.method /\ f.r.status \notin Pipes
    BY <1>2, LateStatus DEF Alike
  <1>7. Serves(f)
    BY <1>1, <1>2 DEF Serves, Around
  <1>8. ASSUME w.r.method = "HEAD" PROVE Outcome(w, v)
    <2>1. v = [f EXCEPT !.ret = 0] /\ Speaks(f)
      BY <1>2, <1>3, <1>8 DEF GiveUp
    <2>2. Speaks(v) /\ Around(f, v) /\ v.r = f.r /\ v.ret = 0
      BY <2>1, SpeaksBack
    <2>3. ASSUME f.r.keepalive = "active", f.r.status # "DEAD" PROVE Whole(f.r)
      <3>1. w.r.simple # "yes"
        BY <1>1, <1>2, <1>8, <2>3 DEF Speaks, Spoken
      <3>2. Len(<<x>>) = 1
        BY OneToken
      <3> QED BY <1>2, <1>6, <1>8, <2>3, <3>1, <3>2 DEF Whole
    <2>4. Over(f.r, v.n, v.open, v.src)
      BY <1>5, <1>6, <1>8, <2>3 DEF Over
    <2>5. Around(w, v) /\ v.r.logline = w.r.logline
      BY <1>2, <2>2, AroundTrans DEF Alike
    <2> QED BY <2>2, <2>4, <2>5, AroundOutcome
  <1>9. ASSUME w.r.method # "HEAD" PROVE Outcome(w, v)
    <2>1. v = init_cgi(f, fault)
      BY <1>3, <1>9
    <2>2. Outcome(f, v)
      BY <1>2, <1>4, <1>5, <1>6, <1>7, <2>1, CgiSaid
    <2> QED BY <1>1, <1>2, <2>2, OutcomeAround
  <1> QED BY <1>8, <1>9

\* A document after what has been said, a header or nothing.
Headed(a) == a = <<>> \/ \E x : x.t \notin {"data", "page"} /\ a = <<x>>

LEMMA DocAfter ==
    ASSUME NEW a, Headed(a), NEW n, n \in Nat, NEW d, d = Data(1, n)
    PROVE  /\ Listed(d) /\ Len(d) = n
           /\ OneStatus(a \o d) /\ Listed(a \o d)
           /\ Shaped(a \o d, Len(a)) /\ Len(a \o d) = Len(a) + n
           /\ Len(a) \in 0..1 /\ (a # <<>> => Len(a) = 1)
  <1>9. PICK x : x.t \notin {"data", "page"} /\ (a = <<>> \/ a = <<x>>)
    <2>1. CASE a = <<>>
      <3>1. Tok("keep", 0).t \notin {"data", "page"}
        BY DEF Tok
      <3> QED BY <2>1, <3>1
    <2> QED BY <2>1 DEF Headed
  <1>1. /\ Listed(a) /\ Len(a) \in 0..1 /\ Shaped(a, Len(a)) /\ \A i \in 1..Len(a) : a[i].t # "page"
    BY <1>9, HeaderAlone
  <1>2. /\ Listed(d) /\ Len(d) = n - 1 + 1 /\ \A i \in 1..(n - 1 + 1) : d[i] = Tok("data", 1 + i - 1)
    <2>1. 1 \in Int /\ n \in Int /\ n - 1 + 1 >= 0
      OBVIOUS
    <2> QED BY <2>1, DataTokens
  <1>3. Len(d) = n
    BY <1>2
  <1>4. NoStatus(d)
    <2>1. ASSUME NEW i \in 1..Len(d) PROVE d[i].t \notin {"keep", "close"}
      <3>1. d[i] = Tok("data", 1 + i - 1)
        BY <1>2, <1>3
      <3> QED BY <3>1 DEF Tok
    <2> QED BY <2>1 DEF NoStatus
  <1>5. OneStatus(a \o d)
    BY <1>1, <1>2, <1>4, <1>9, StatusJoin
  <1>6. Listed(a \o d)
    BY <1>1, <1>2, ListedJoin
  <1>7. Shaped(a \o d, Len(a)) /\ Len(a \o d) = Len(a) + n
    <2> DEFINE k == Len(a)
               p == 0
    <2>1. Extends(a, k, p)
      BY <1>1 DEF Extends
    <2>2. d = Data(p + 1, p + n) /\ p + n = n
      OBVIOUS
    <2> HIDE DEF k, p
    <2>3. Extends(a \o d, k, p + n)
      BY <2>1, <2>2, ShapedData
    <2>4. Shaped(a \o d, k) /\ Len(a \o d) = k + n
      BY <2>2, <2>3 DEF Extends
    <2> QED BY <2>4 DEF k
  <1>8. a # <<>> => Len(a) = 1
    <2>1. Len(<<x>>) = 1
      BY OneToken
    <2> QED BY <1>9, <2>1
  <1> QED BY <1>1, <1>2, <1>3, <1>5, <1>6, <1>7, <1>8

\* A document that is read from its file: nothing of it has been.
Opens(q, fds, s) ==
    /\ q.data = <<>> /\ q.filesize \in Nat /\ s[q.data_fd].pipe = Data(1, q.filesize)
    /\ s[q.data_fd].left = <<>> /\ s[q.data_fd].alive = "no" /\ fds[q.data_fd] = "file"
    /\ Headed(Said(q)) /\ q.cgi_status = "BUFFER" /\ q.off = 0 /\ q.status = "PIPE_READ"
    /\ q.response_status = 200 /\ q.method # "HEAD"
    /\ q.keepalive = "active" => Said(q) # <<>>

\* It will go out from the first token to the last.
LEMMA DocStreamed ==
    ASSUME NEW q, NEW fds, NEW s, Opens(q, fds, s)
    PROVE  Streamed(q, fds, s)
  <1> DEFINE a == Said(q)
             m == q.filesize
             d == Data(1, m)
             c == Coming(q, s)
  <1>1. Headed(a) /\ m \in Nat /\ d = Data(1, m)
    BY DEF Opens
  <1>2. q.keepalive = "active" => a # <<>>
    BY DEF Opens
  <1>3. c = a \o (<<>> \o (d \o <<>>))
    BY DEF Coming, Opens
  <1> HIDE DEF a, m, d
  <1>4. /\ Listed(d) /\ Len(d) = m /\ OneStatus(a \o d)
        /\ Shaped(a \o d, Len(a)) /\ Len(a \o d) = Len(a) + m
        /\ Len(a) \in 0..1 /\ (a # <<>> => Len(a) = 1)
    BY <1>1, DocAfter
  <1>5. c = a \o d
    <2>1. d \o <<>> = d /\ <<>> \o d = d
      BY <1>4, ListedNone
    <2> QED BY <1>3, <2>1
  <1> HIDE DEF c
  <1>6. /\ Shaped(c, Len(a)) /\ Len(c) = Len(a) + q.filesize /\ OneStatus(c)
    BY <1>4, <1>5 DEF m
  <1>7. q.keepalive = "active" => Len(a) = 1
    BY <1>2, <1>4
  <1>8. Listed(q.data) /\ q.off \in Nat /\ q.off + Len(q.data) <= BUFFER_SIZE
    <2>1. Listed(<<>>) /\ Len(<<>>) = 0
      BY ListedNew
    <2> QED BY <2>1, BoaAssumption DEF Opens
  <1>9. Filed(q, s)
    BY <1>4, <1>6, <1>7 DEF Filed, c, Opens
  <1> QED BY <1>6, <1>8, <1>9 DEF Streamed, c, Opens

\* A document above MAX_FILE_MMAP (get.c).
LEMMA PipedSaid ==
    ASSUME NEW w, Serves(w), Silent(w.r), w.r.status = "WRITE", w.r.filesize \in Nat, w.r.data_fd = -1,
           w.r.method \notin {"HEAD", "POST"}, Free(w.open) # {}, NEW v, v = GetPiped(w)
    PROVE  Outcome(w, v)
  <1> DEFINE o == send_r_request_ok(w.r)
             x == OkHeader(w.r)
             fd == LowestFree(w.open)
             e == [NoSrc EXCEPT !.pipe = Data(1, w.r.filesize)]
             s == [w.src EXCEPT ![fd] = e]
             fds == [w.open EXCEPT ![fd] = "file"]
             q == [o EXCEPT !.status = "PIPE_READ", !.cgi_status = "BUFFER", !.data_fd = fd,
                            !.off = 0, !.data = <<>>]
             on == [w EXCEPT !.open[fd] = "file", !.src[fd] = e, !.r = q]
             f == req_flush(on)
  <1>1. /\ Speaks(w) /\ {"n", "open", "r", "ret", "src"} \subseteq DOMAIN w /\ w.r.status # "DEAD"
        /\ SourcesListed(w.src) /\ DOMAIN w.open = AllFds
        /\ (w.r.keepalive = "active" => w.r.simple # "yes") /\ Spoken(w.r)
    BY DEF Serves, Speaks, Spoken
  <1>2. v = [f EXCEPT !.ret = 1]
    BY DEF GetPiped
  <1>3. f = req_flush(on)
    OBVIOUS
  <1>4. x.t \notin {"data", "page"}
    BY OkToken
  <1>5. /\ Spoken(o) /\ Alike(o, w.r) /\ o.keepalive = w.r.keepalive /\ o.response_status = 200
        /\ o.got = <<>>
        /\ w.r.simple = "yes" => Said(o) = <<>>
        /\ w.r.simple # "yes" => Said(o) = <<x>>
    BY <1>1, OkSaid
  <1>6. fd \in AllFds /\ w.open[fd] = "free"
    BY LowestIsFree DEF Free
  <1>8. /\ e.pipe = Data(1, w.r.filesize) /\ e.left = <<>> /\ e.alive = "no"
        /\ {"alive", "left", "pipe"} \subseteq DOMAIN e
    BY DEF NoSrc
  <1>9. Listed(e.pipe) /\ Listed(e.left)
    <2>1. Listed(Data(1, w.r.filesize))
      <3> DEFINE d == Data(1, w.r.filesize)
                 none == <<>>
      <3>1. Headed(none) /\ d = Data(1, w.r.filesize)
        BY DEF Headed
      <3> HIDE DEF d, none
      <3>2. Listed(d)
        BY <3>1, DocAfter
      <3> QED BY <3>2 DEF d
    <2> QED BY <1>8, <2>1, ListedNew
  <1> HIDE DEF fd, e, x, o, f
  <1>10. SourcesListed(s) /\ s[fd] = e /\ \A g \in AllFds : g # fd => s[g] = w.src[g]
    <2> DEFINE s0 == w.src
    <2>1. SourcesListed(s0)
      BY <1>1
    <2> HIDE DEF s0
    <2>2. /\ SourcesListed([s0 EXCEPT ![fd] = e]) /\ [s0 EXCEPT ![fd] = e][fd] = e
          /\ \A g \in AllFds : g # fd => [s0 EXCEPT ![fd] = e][g] = s0[g]
      BY <1>6, <1>8, <1>9, <2>1, SourceSet
    <2> QED BY <2>2 DEF s0
  <1>11. fds[fd] = "file"
    BY <1>1, <1>6
  <1>12. /\ on.r = q /\ on.src = s /\ on.open = fds /\ on.n = w.n
         /\ DOMAIN on = DOMAIN w
    BY <1>1
  <1> HIDE DEF on
  <1>13. /\ q.data_fd = fd /\ q.status = "PIPE_READ" /\ q.cgi_status = "BUFFER" /\ q.off = 0
         /\ q.data = <<>> /\ q.got = o.got /\ q.buf = o.buf /\ q.start = o.start
         /\ q.keepalive = o.keepalive /\ q.response_status = o.response_status
         /\ q.uri = o.uri /\ q.logline = o.logline /\ q.filesize = o.filesize
         /\ q.simple = o.simple /\ q.method = o.method /\ DOMAIN q = DOMAIN o
    BY <1>5 DEF Fields, Spoken
  <1> HIDE DEF q, s, fds
  <1>14. Spoken(q) /\ Said(q) = Said(o)
    BY <1>5, <1>13 DEF Spoken, Said
  <1>15. /\ q.filesize = w.r.filesize /\ q.method # "HEAD" /\ q.logline = w.r.logline
         /\ q.response_status = 200
    BY <1>5, <1>13 DEF Alike
  <1>16. Headed(Said(q)) /\ (q.keepalive = "active" => Said(q) # <<>>)
    <2>1. <<x>> # <<>>
      BY OneToken
    <2>2. Said(q) = <<>> \/ Said(q) = <<x>>
      BY <1>5, <1>14
    <2>3. Headed(Said(q))
      BY <1>4, <2>2 DEF Headed
    <2>4. q.keepalive = "active" => Said(q) = <<x>>
      BY <1>1, <1>5, <1>13, <1>14
    <2> QED BY <2>1, <2>3, <2>4
  <1>17. /\ s[q.data_fd].pipe = Data(1, q.filesize) /\ s[q.data_fd].left = <<>>
         /\ s[q.data_fd].alive = "no" /\ fds[q.data_fd] = "file"
    BY <1>8, <1>10, <1>11, <1>13, <1>15
  <1>18. Speaks(on)
    BY <1>1, <1>12, <1>14 DEF Speaks
  <1>19. /\ Speaks(f) /\ Around(on, f) /\ Alike(f.r, q)
         /\ f.r.keepalive = q.keepalive /\ f.r.response_status = q.response_status
         /\ \/ f.r.status = "DEAD" /\ Said(f.r) = <<>>
            \/ f.r.status = q.status /\ Said(f.r) = Said(q)
    <2>1. /\ Speaks(f) /\ Around(on, f) /\ Alike(f.r, on.r)
          /\ f.r.keepalive = on.r.keepalive /\ f.r.response_status = on.r.response_status
          /\ \/ on.r.status = "DEAD" /\ f.r = on.r /\ f.ret = -2
             \/ /\ f.r.status = "DEAD" /\ Said(f.r) = on.r.got /\ on.n.peer = "reset" /\ f.ret = -2
                /\ on.r.status # "DEAD"
             \/ /\ f.r.status = on.r.status /\ Said(f.r) = Said(on.r) /\ f.ret # -2
                /\ on.r.status # "DEAD" /\ (f.ret = Len(f.r.buf) \/ f.ret = -1)
      BY <1>3, <1>18, FlushedSaid
    <2> QED BY <1>5, <1>12, <1>13, <2>1
  <1>20. Speaks(v) /\ v.r = f.r /\ v.n = f.n /\ v.ret = 1 /\ v.open = fds /\ v.src = s
    <2> DEFINE one == 1
    <2>2. Speaks(f) /\ v = [f EXCEPT !.ret = one] /\ one = 1
      BY <1>2, <1>19
    <2> HIDE DEF one
    <2>1. Speaks(v) /\ Around(f, v) /\ v.r = f.r /\ v.n = f.n /\ v.ret = one
      BY <2>2, SpeaksBack
    <2> QED BY <1>1, <1>12, <1>19, <2>1, <2>2 DEF Around
  <1>21. ASSUME f.r.status = "DEAD", Said(f.r) = <<>> PROVE Going(v.r, v.n, v.open, v.src)
    <2>1. /\ Listed(<<>>) /\ OneStatus(<<>>) /\ Shaped(<<>>, Len(<<>>))
      <3> DEFINE a == <<>>
      <3>1. a = <<>> \/ a = <<x>>
        OBVIOUS
      <3> HIDE DEF a
      <3>2. OneStatus(a) /\ Listed(a) /\ Shaped(a, Len(a))
        BY <1>4, <3>1, HeaderAlone
      <3> QED BY <3>2 DEF a
    <2>2. Over(f.r, v.n, v.open, v.src)
      BY <1>19, <1>21, <2>1, DeadOver DEF Speaks
    <2> QED BY <1>20, <1>21, <2>2, GoesOn
  <1>22. ASSUME f.r.status = q.status, Said(f.r) = Said(q) PROVE Going(v.r, v.n, v.open, v.src)
    <2>1. Opens(f.r, fds, s)
      BY <1>13, <1>15, <1>16, <1>17, <1>19, <1>22 DEF Opens, Alike
    <2>2. Streamed(f.r, fds, s)
      BY <2>1, DocStreamed
    <2> QED BY <1>13, <1>20, <1>22, <2>2, LateStatus, GoesOn
  <1>23. Going(v.r, v.n, v.open, v.src)
    BY <1>19, <1>20, <1>21, <1>22
  <1>24. \A g \in AllFds : w.open[g] # "free" => v.src[g] = w.src[g]
    BY <1>6, <1>10, <1>20
  <1>25. v.r.logline = w.r.logline
    BY <1>15, <1>19, <1>20 DEF Alike
  <1> QED BY <1>10, <1>19, <1>20, <1>23, <1>24, <1>25 DEF Outcome, Speaks

\* What a handler puts into the buffer follows what has been said.
Buffers(r, d, q) == q.buf = r.buf \o d /\ q.got = r.got /\ q.start = r.start

LEMMA BufferSaid ==
    ASSUME NEW r, Spoken(r), NEW d, Listed(d), NEW q, Buffers(r, d, q)
    PROVE  /\ Said(q) = Said(r) \o d /\ Listed(q.got) /\ Listed(q.buf) /\ q.start \in 0..Len(q.buf)
           /\ Len(q.buf) = Len(r.buf) + Len(d)
  <1> DEFINE b == r.buf \o d
             e == Drop(r.buf, r.start)
             g == r.got
  <1>1. /\ Listed(g) /\ Listed(r.buf) /\ Listed(e) /\ Len(r.buf) \in Nat /\ r.start \in Nat
        /\ r.start \in 0..Len(r.buf) /\ Said(r) = g \o e
    BY SaidParts DEF Spoken, Said
  <1>2. Listed(b) /\ Len(b) = Len(r.buf) + Len(d) /\ Len(d) \in Nat
    BY <1>1, ListedJoin
  <1>3. Drop(b, r.start) = e \o d
    BY <1>1, DropJoin, Zenon
  <1> HIDE DEF b, e, g
  <1>4. (g \o e) \o d = g \o (e \o d)
    BY <1>1, ListedThree
  <1>5. Said(q) = g \o (e \o d)
    BY <1>3 DEF Said, b, g, Buffers
  <1>6. r.start \in 0..Len(b)
    BY <1>1, <1>2
  <1> QED BY <1>1, <1>2, <1>4, <1>5, <1>6 DEF b, g, Buffers

\* A request whose document is to be fetched, nothing of it said so far.
Fetches(w) ==
    /\ Serves(w) /\ Silent(w.r) /\ w.r.status = "WRITE" /\ w.r.data_fd = -1
    /\ w.r.filesize \in Nat /\ w.r.filepos = 0
    /\ w.r.is_cgi # "CGI" /\ w.r.method # "POST" /\ w.r.uri \in DOMAIN Site

\* A document of which p tokens have been said, after a.
Begun(q, p, a) ==
    /\ q.filesize \in Nat /\ p \in 0..q.filesize /\ q.filepos = p
    /\ q.data_fd = -1 /\ q.method # "HEAD" /\ q.status = "WRITE"
    /\ Said(q) = a \o Data(1, p) /\ (q.keepalive = "active" => a # <<>>)

\* It goes on from there.
LEMMA MappedFrom ==
    ASSUME NEW q, NEW p, NEW a, Begun(q, p, a), Headed(a), NEW n, NEW fds, NEW s
    PROVE  Going(q, n, fds, s)
  <1> DEFINE d == Data(1, p)
             c == a \o d
             k == Len(a)
  <1>1. p \in Nat /\ d = Data(1, p)
    BY DEF Begun
  <1> HIDE DEF d
  <1>2. /\ Listed(d) /\ Len(d) = p /\ OneStatus(a \o d) /\ Listed(a \o d)
        /\ Shaped(a \o d, Len(a)) /\ Len(a \o d) = Len(a) + p
        /\ Len(a) \in 0..1 /\ (a # <<>> => Len(a) = 1)
    BY <1>1, DocAfter
  <1>3. ASSUME k = 1 PROVE c[1].t # "page"
    <2>1. PICK x : x.t \notin {"data", "page"} /\ (a = <<>> \/ a = <<x>>)
      <3>1. CASE a = <<>>
        <4>1. Tok("keep", 0).t \notin {"data", "page"}
          BY DEF Tok
        <4> QED BY <3>1, <4>1
      <3> QED BY <3>1 DEF Headed
    <2>2. a # <<>>
      <3>1. Len(<<>>) = 0 /\ 0 # 1
        BY ListedNew
      <3> QED BY <1>3, <3>1, Zenon
    <2>3. a = <<x>> /\ Listed(a) /\ a[1] = x /\ Len(a) = 1
      BY <2>1, <2>2, OneToken
    <2>4. \A i \in 1..Len(a) : (a \o d)[i] = a[i]
      BY <1>2, <2>3, ListedJoin
    <2>5. 1 \in 1..Len(a)
      BY <2>3
    <2> QED BY <2>1, <2>3, <2>4, <2>5
  <1>4. Said(q) = c
    BY <1>1 DEF Begun
  <1> HIDE DEF c
  <1>5. /\ OneStatus(c) /\ Shaped(c, k) /\ Len(c) = k + p /\ k \in 0..1 /\ (a # <<>> => k = 1)
    BY <1>2 DEF c
  <1> HIDE DEF k
  <1>6. Mapped(q)
    <2>1. \E j \in 0..1 : /\ Shaped(c, j) /\ Len(c) = j + p
                          /\ j = 1 => c[1].t # "page"
                          /\ q.keepalive = "active" => j = 1
      BY <1>3, <1>5 DEF Begun
    <2> QED BY <1>4, <1>5, <2>1 DEF Mapped, Begun
  <1> QED BY <1>6, GoesOn DEF Begun

\* A document all of which has been said, after k other tokens.
Complete(q, k) ==
    /\ Listed(Said(q)) /\ Shaped(Said(q), k) /\ OneStatus(Said(q)) /\ Len(Said(q)) = k + q.filesize
    /\ q.filesize \in Nat /\ k \in 0..1 /\ q.data_fd = -1 /\ q.method # "HEAD" /\ q.status \notin Pipes
    /\ q.keepalive = "active" => k = 1

\* Its answer is over.
LEMMA CompleteOver ==
    ASSUME NEW q, NEW k, Complete(q, k), NEW n, NEW fds, NEW s
    PROVE  Over(q, n, fds, s)
  <1> DEFINE a == Said(q)
             m == q.filesize
  <1>1. Listed(a) /\ Shaped(a, k) /\ Len(a) = k + m /\ m \in Nat /\ k \in 0..1
    BY DEF Complete
  <1> HIDE DEF a, m
  <1>2. DataCount(a) = Len(a) - k
    BY <1>1, CountShaped
  <1>3. DataCount(a) = m /\ k \in 0..Len(a) /\ Len(a) \in Nat
    BY <1>1, <1>2
  <1>4. q.keepalive = "active" => Whole(q)
    <2>1. k = 1 => Len(a) = 1 + m
      BY <1>1
    <2> QED BY <2>1 DEF Complete, Whole, a, m
  <1>5. \E j \in 0..Len(a) : Shaped(a, j)
    BY <1>1, <1>3
  <1> QED BY <1>3, <1>4, <1>5 DEF Complete, Over, a, m

\* Nothing is left in the buffer of a request that req_flush has given up, and none comes
\* to an empty one.
LEMMA FlushEmpties ==
    ASSUME NEW w, Speaks(w), NEW v, v = req_flush(w)
    PROVE  /\ w.r.buf = <<>> => v.r.buf = <<>>
           /\ w.r.status # "DEAD" /\ v.r.status = "DEAD" => v.r.buf = <<>>
  <1> DEFINE r == w.r
             left == Len(r.buf) - r.start
             k == Least(left, w.n.room)
             g == r.got \o Take(Drop(r.buf, r.start), k)
             r1 == IF r.start + k = Len(r.buf)
                   THEN [r EXCEPT !.buf = <<>>, !.start = 0, !.got = g]
                   ELSE [r EXCEPT !.start = @ + k, !.got = g]
  <1>1. {"buf", "got", "start", "status"} \subseteq DOMAIN r /\ {"n", "r", "ret"} \subseteq DOMAIN w
    BY DEF Speaks, Spoken, Fields
  <1>2. \/ v = [w EXCEPT !.ret = -2] /\ r.status = "DEAD"
        \/ v = [w EXCEPT !.r = [r EXCEPT !.buf = <<>>, !.start = 0, !.status = "DEAD"], !.ret = -2]
        \/ v = [w EXCEPT !.ret = -1]
        \/ v = [w EXCEPT !.r = r1, !.n.room = @ - k, !.ret = Len(r1.buf)]
    BY DEF req_flush
  <1> HIDE DEF g, k
  <1>3. r1.buf \in {r.buf, <<>>} /\ r1.status = r.status
    BY <1>1
  <1> HIDE DEF r1
  <1> QED BY <1>1, <1>2, <1>3

\* What is flushed of a document that is in the buffer (get.c).
LEMMA LastFlushed ==
    ASSUME NEW u, Speaks(u), NEW a, Headed(a), u.r.filesize \in Nat, u.r.got = <<>>,
           Said(u.r) = a \o Data(1, u.r.filesize), u.r.data_fd = -1, u.r.method # "HEAD",
           u.r.keepalive = "active" => a # <<>>, u.r.status = "WRITE",
           NEW v, v = [req_flush(u) EXCEPT !.r.status = "DONE", !.ret = 1]
    PROVE  /\ Speaks(v) /\ Around(u, v) /\ Alike(v.r, u.r) /\ v.r.status = "DONE" /\ v.ret = 1
           /\ Over(v.r, v.n, v.open, v.src)
  <1> DEFINE f == req_flush(u)
             q == [f.r EXCEPT !.status = "DONE"]
             m == u.r.filesize
             d == Data(1, m)
             c == a \o d
  <1>1. f = req_flush(u)
    OBVIOUS
  <1>2. v = [f EXCEPT !.r.status = "DONE", !.ret = 1]
    OBVIOUS
  <1> HIDE DEF f
  <1>3. /\ Speaks(f) /\ Around(u, f) /\ Alike(f.r, u.r)
        /\ f.r.keepalive = u.r.keepalive /\ f.r.response_status = u.r.response_status
        /\ \/ u.r.status = "DEAD" /\ f.r = u.r /\ f.ret = -2
           \/ /\ f.r.status = "DEAD" /\ Said(f.r) = u.r.got /\ u.n.peer = "reset" /\ f.ret = -2
              /\ u.r.status # "DEAD"
           \/ /\ f.r.status = u.r.status /\ Said(f.r) = Said(u.r) /\ f.ret # -2
              /\ u.r.status # "DEAD" /\ (f.ret = Len(f.r.buf) \/ f.ret = -1)
    BY <1>1, FlushedSaid
  <1>4. /\ {"n", "r", "ret"} \subseteq DOMAIN f /\ Spoken(f.r)
    BY <1>3 DEF Speaks
  <1>5. /\ Reworded(q, f.r) /\ q.keepalive = f.r.keepalive
        /\ q.response_status = f.r.response_status /\ q.status = "DONE"
    BY <1>4, SpokenStatus
  <1>6. /\ v.r = q /\ v.n = f.n /\ v.ret = 1 /\ DOMAIN v = DOMAIN f
        /\ "open" \in DOMAIN f => v.open = f.open
        /\ "src" \in DOMAIN f => v.src = f.src
    BY <1>2, <1>4
  <1> HIDE DEF q
  <1>7. Spoken(q) /\ Said(q) = Said(f.r) /\ Alike(q, f.r)
    BY <1>5 DEF Reworded
  <1>8. Speaks(v) /\ Around(f, v)
    BY <1>3, <1>6, <1>7 DEF Speaks, Around
  <1>9. Around(u, v) /\ Alike(q, u.r)
    BY <1>3, <1>7, <1>8, AroundTrans, AlikeTrans
  <1>10. (f.r.status = "DEAD" /\ Said(q) = <<>> /\ v.n.peer = "reset") \/ Said(q) = c
    BY <1>3, <1>6, <1>7 DEF Around
  <1>11. /\ q.filesize = m /\ q.data_fd = -1 /\ q.method # "HEAD" /\ q.status \notin Pipes
         /\ (q.keepalive = "active" => a # <<>>)
    BY <1>3, <1>5, <1>9, LateStatus DEF Alike
  <1>12. Headed(a) /\ m \in Nat /\ d = Data(1, m)
    OBVIOUS
  <1> HIDE DEF m, d
  <1>13. ASSUME Said(q) = c PROVE Over(q, v.n, v.open, v.src)
    <2>1. /\ Listed(d) /\ Len(d) = m /\ OneStatus(a \o d) /\ Listed(a \o d)
          /\ Shaped(a \o d, Len(a)) /\ Len(a \o d) = Len(a) + m
          /\ Len(a) \in 0..1 /\ (a # <<>> => Len(a) = 1)
      BY <1>12, DocAfter
    <2>2. Complete(q, Len(a))
      BY <1>11, <1>12, <1>13, <2>1 DEF Complete
    <2> QED BY <2>2, CompleteOver
  <1>14. ASSUME Said(q) = <<>>, v.n.peer = "reset", f.r.status = "DEAD" PROVE Over(q, v.n, v.open, v.src)
    <2>1. OneStatus(<<>>) /\ NoData(<<>>) /\ Listed(<<>>)
      BY OneToken, ListedNew
    <2>2. \E k \in 0..Len(<<>>) : Shaped(<<>>, k)
      BY <2>1, ShapedNone
    <2>3. f.r.buf = <<>>
      <3>1. u.r.status # "DEAD"
        OBVIOUS
      <3> QED BY <1>1, <1>14, <3>1, FlushEmpties
    <2>4. q.buf = <<>> /\ q.got = <<>>
      BY <1>5, <1>7, <1>14, <2>3, SaidParts DEF Reworded
    <2>5. Dropped(q, v.n)
      BY <1>14 DEF Dropped
    <2> QED BY <1>11, <1>14, <2>1, <2>2, <2>4, <2>5 DEF Over
  <1> QED BY <1>5, <1>6, <1>8, <1>9, <1>10, <1>13, <1>14

\* A buffer that is reset before anything has been written: nothing has been said.
LEMMA ResetSilent ==
    ASSUME NEW r, Spoken(r), r.got = <<>>, r.start = 0, NEW q, q = reset_output_buffer(r)
    PROVE  /\ Spoken(q) /\ Said(q) = <<>> /\ Alike(q, r) /\ q.keepalive = r.keepalive
           /\ q.status = r.status /\ q.response_status = r.response_status
  <1>1. Fields \subseteq DOMAIN r
    BY DEF Spoken
  <1>2. /\ Alike(q, r) /\ q.keepalive = r.keepalive /\ q.response_status = r.response_status
        /\ q.status = r.status /\ q.got = <<>> /\ q.buf = <<>> /\ q.start = 0
    BY <1>1 DEF reset_output_buffer, Alike, Fields
  <1>3. Listed(<<>>) /\ 0 \in 0..Len(<<>>)
    BY ListedNew
  <1>4. Spoken(q)
    BY <1>2, <1>3 DEF Spoken, Alike
  <1>5. Said(q) = <<>>
    BY <1>2, <1>4, SaidParts
  <1> QED BY <1>2, <1>4, <1>5

\* A refusal with nothing said so far.
LEMMA RefusedSilent ==
    ASSUME NEW w, Serves(w), NEW q, Spoken(q), Said(q) = <<>>, q.status \notin Pipes,
           q.logline = w.r.logline, NEW code \in Int, code # 200,
           NEW v, v = Refuse([w EXCEPT !.r = q], code)
    PROVE  Outcome(w, v)
  <1> DEFINE u == [w EXCEPT !.r = q]
  <1>1. Speaks(w)
    BY DEF Serves
  <1>2. Speaks(u) /\ Around(w, u) /\ u.r = q
    BY <1>1, SpeaksSwap
  <1>3. v = Refuse(u, code)
    OBVIOUS
  <1> HIDE DEF u
  <1>4. NoData(Said(u.r)) /\ Said(u.r) = <<>> /\ (u.r.status \in Pipes => code >= 400)
    BY <1>2, OneToken
  <1>5. Speaks(v) /\ Around(u, v) /\ Alike(v.r, u.r) /\ v.ret = 0 /\ Plain(v.r)
    BY <1>2, <1>3, <1>4, RefusedOver
  <1>6. Around(w, v) /\ v.r.logline = w.r.logline
    BY <1>2, <1>5, AroundTrans DEF Alike
  <1>7. Over(v.r, v.n, v.open, v.src)
    BY <1>5, PlainOver
  <1> QED BY <1>5, <1>6, <1>7, AroundOutcome

\* What goes on with the same descriptors.
LEMMA AroundGoes ==
    ASSUME NEW w, Serves(w), NEW v, Speaks(v), Around(w, v), v.r.logline = w.r.logline, v.ret # 0,
           Going(v.r, v.n, v.open, v.src)
    PROVE  Outcome(w, v)
  BY DEF Outcome, Serves, Speaks, Around

\* A document that is mapped (get.c): as much of it as fits follows the header.
LEMMA MappedSaid ==
    ASSUME NEW m, Fetches(m), m.r.method # "HEAD", NEW fault, NEW v, v = GetMapped(m, fault)
    PROVE  Outcome(m, v)
  <1> DEFINE r == send_r_request_ok(m.r)
             x == OkHeader(m.r)
             size == m.r.filesize
             k == Least(BUFFER_SIZE - Len(r.buf), r.filesize)
             d == Data(1, k)
             full == [r EXCEPT !.buf = r.buf \o d, !.filepos = k]
             a == Said(r)
  <1>1. /\ Serves(m) /\ Speaks(m) /\ Spoken(m.r) /\ Silent(m.r) /\ m.r.status = "WRITE"
        /\ m.r.status # "DEAD" /\ m.r.data_fd = -1 /\ size \in Nat /\ m.r.filepos = 0
        /\ (m.r.keepalive = "active" => m.r.simple # "yes")
    BY DEF Fetches, Serves, Speaks, Spoken
  <1>2. \/ v = Refuse([m EXCEPT !.r = reset_output_buffer(m.r)], 400)
        \/ v = [m EXCEPT !.r = r, !.ret = 1] /\ k <= 0
        \/ v = Refuse([m EXCEPT !.r = reset_output_buffer(r)], 500)
        \/ v = [m EXCEPT !.r = full, !.ret = 1] /\ ~(k <= 0)
        \/ v = [req_flush([m EXCEPT !.r = full]) EXCEPT !.r.status = "DONE", !.ret = 1]
           /\ ~(k <= 0) /\ ~(k < r.filesize)
    <2> DEFINE v1 == Refuse([m EXCEPT !.r = reset_output_buffer(m.r)], 400)
               v2 == [m EXCEPT !.r = r, !.ret = 1]
               v3 == Refuse([m EXCEPT !.r = reset_output_buffer(r)], 500)
               v4 == [m EXCEPT !.r = full, !.ret = 1]
               v5 == [req_flush([m EXCEPT !.r = full]) EXCEPT !.r.status = "DONE", !.ret = 1]
    <2>1. v = IF m.r.mmap = -1 THEN v1 ELSE IF k <= 0 THEN v2 ELSE IF fault = "bus" THEN v3
              ELSE IF k < r.filesize THEN v4 ELSE v5
      BY DEF GetMapped
    <2> HIDE DEF v1, v2, v3, v4, v5, r, k
    <2>2. \/ v = v1 \/ (v = v2 /\ k <= 0) \/ v = v3 \/ (v = v4 /\ ~(k <= 0))
          \/ (v = v5 /\ ~(k <= 0) /\ ~(k < r.filesize))
      BY <2>1, Zenon
    <2> QED BY <2>2 DEF v1, v2, v3, v4, v5
  <1>3. /\ Spoken(r) /\ Alike(r, m.r) /\ r.keepalive = m.r.keepalive /\ r.response_status = 200
        /\ r.status = m.r.status /\ r.got = <<>> /\ r.start = 0
        /\ m.r.simple = "yes" => r.buf = <<>> /\ Said(r) = <<>>
        /\ m.r.simple # "yes" => r.buf = <<x>> /\ Said(r) = <<x>>
    BY <1>1, OkSaid
  <1>4. Headed(a)
    BY <1>3, OkToken DEF Headed
  <1>5. r.keepalive = "active" => a # <<>>
    <2>1. <<x>> # <<>>
      BY OneToken
    <2> QED BY <1>1, <1>3, <2>1
  <1> HIDE DEF r, x
  <1>6. /\ r.filesize = size /\ r.data_fd = -1 /\ r.filepos = 0 /\ r.method # "HEAD"
        /\ r.logline = m.r.logline /\ r.status = "WRITE" /\ r.status \notin Pipes
    BY <1>1, <1>3, LateStatus DEF Alike
  <1>7. /\ k \in Int /\ k <= size /\ (k <= 0 => k = 0 \/ size = 0)
        /\ (~(k <= 0) => k \in Nat /\ k \in 0..size)
    <2>1. Len(r.buf) \in 0..1
      <3>1. Len(<<>>) = 0 /\ Len(<<x>>) = 1
        BY ListedNew
      <3> QED BY <1>3, <3>1
    <2>2. r.filesize = size /\ size \in Nat
      BY <1>1, <1>6
    <2>3. k = IF BUFFER_SIZE - Len(r.buf) < size THEN BUFFER_SIZE - Len(r.buf) ELSE size
      BY <2>2 DEF Least
    <2> DEFINE b == Len(r.buf)
    <2> HIDE DEF size, k, b
    <2>4. BUFFER_SIZE - b >= 1 /\ BUFFER_SIZE - b \in Int
      <3>1. BUFFER_SIZE \in Nat /\ BUFFER_SIZE >= 2
        BY BoaAssumption
      <3>2. b \in 0..1
        BY <2>1 DEF b
      <3> QED BY <3>1, <3>2
    <2>5. k = IF BUFFER_SIZE - b < size THEN BUFFER_SIZE - b ELSE size
      BY <2>3 DEF b
    <2> QED BY <2>2, <2>4, <2>5
  <1> HIDE DEF k
  <1>8. ASSUME v = Refuse([m EXCEPT !.r = reset_output_buffer(m.r)], 400) PROVE Outcome(m, v)
    <2> DEFINE q == reset_output_buffer(m.r)
               code == 400
    <2>1. Spoken(q) /\ Said(q) = <<>> /\ Alike(q, m.r) /\ q.status = m.r.status
      BY <1>1, ResetSilent DEF Silent
    <2>2. code \in Int /\ code # 200 /\ v = Refuse([m EXCEPT !.r = q], code)
      BY <1>8
    <2> HIDE DEF q, code
    <2>3. q.status \notin Pipes /\ q.logline = m.r.logline
      BY <1>1, <2>1, LateStatus DEF Alike
    <2> QED BY <1>1, <2>1, <2>2, <2>3, RefusedSilent
  <1>9. ASSUME v = Refuse([m EXCEPT !.r = reset_output_buffer(r)], 500) PROVE Outcome(m, v)
    <2> DEFINE q == reset_output_buffer(r)
               code == 500
    <2>1. Spoken(q) /\ Said(q) = <<>> /\ Alike(q, r) /\ q.status = r.status
      BY <1>3, ResetSilent
    <2>2. code \in Int /\ code # 200 /\ v = Refuse([m EXCEPT !.r = q], code)
      BY <1>9
    <2> HIDE DEF q, code
    <2>3. q.status \notin Pipes /\ q.logline = m.r.logline
      BY <1>6, <2>1, LateStatus DEF Alike
    <2> QED BY <1>1, <2>1, <2>2, <2>3, RefusedSilent
  <1>10. ASSUME v = [m EXCEPT !.r = r, !.ret = 1] PROVE Outcome(m, v)
    <2> DEFINE u == [m EXCEPT !.r = r]
               p == 0
    <2>1. Speaks(u) /\ Around(m, u) /\ u.r = r
      BY <1>1, <1>3, SpeaksSwap
    <2>2. v = [u EXCEPT !.ret = 1]
      BY <1>1, <1>10 DEF Speaks
    <2> HIDE DEF u
    <2>3. Speaks(v) /\ Around(u, v) /\ v.r = u.r /\ v.ret = 1
      BY <2>1, <2>2, SpeaksBack
    <2>4. p \in 0..size /\ r.filepos = p
      BY <1>1, <1>6
    <2>5. Said(r) = a \o Data(1, p)
      <3>1. Data(1, 0) = <<>>
        <4>1. Listed(Data(1, 0)) /\ Len(Data(1, 0)) = 0 - 1 + 1
          BY DataTokens
        <4>2. Listed(<<>>) /\ Len(<<>>) = 0
          BY ListedNew
        <4> QED BY <4>1, <4>2, ListedEqual
      <3>2. a \o <<>> = a
        <4>1. Listed(a)
          BY <1>3, SaidParts
        <4> QED BY <4>1, ListedNone
      <3> QED BY <3>1, <3>2
    <2> HIDE DEF p
    <2>6. Begun(r, p, a)
      BY <1>1, <1>5, <1>6, <2>4, <2>5 DEF Begun
    <2>7. Going(r, v.n, v.open, v.src)
      BY <1>4, <2>6, MappedFrom
    <2>8. Around(m, v) /\ v.r.logline = m.r.logline
      BY <1>6, <2>1, <2>3, AroundTrans
    <2> QED BY <1>1, <2>1, <2>3, <2>7, <2>8, AroundGoes
  <1>11. ASSUME ~(k <= 0)
         PROVE  /\ Spoken(full) /\ Said(full) = a \o d /\ full.filepos = k /\ full.got = <<>>
                /\ full.filesize = size /\ full.data_fd = -1 /\ full.method # "HEAD"
                /\ full.logline = m.r.logline /\ full.status = "WRITE" /\ full.keepalive = r.keepalive
    <2>1. Fields \subseteq DOMAIN r
      BY <1>3 DEF Spoken
    <2>2. /\ full.buf = r.buf \o d /\ full.got = r.got /\ full.start = r.start
          /\ full.filepos = k /\ full.filesize = r.filesize /\ full.data_fd = r.data_fd
          /\ full.method = r.method /\ full.logline = r.logline /\ full.status = r.status
          /\ full.keepalive = r.keepalive /\ full.simple = r.simple /\ DOMAIN full = DOMAIN r
      <3> HIDE DEF d
      <3> QED BY <2>1 DEF Fields
    <2>3. Listed(d)
      <3>1. Headed(a) /\ k \in Nat /\ d = Data(1, k)
        BY <1>4, <1>7, <1>11
      <3> HIDE DEF d, a
      <3> QED BY <3>1, DocAfter
    <2> HIDE DEF full, d
    <2>6. Buffers(r, d, full)
      BY <2>2 DEF Buffers
    <2>4. /\ Said(full) = Said(r) \o d /\ Listed(full.got) /\ Listed(full.buf)
          /\ full.start \in 0..Len(full.buf)
      BY <1>3, <2>3, <2>6, BufferSaid
    <2>5. Spoken(full)
      BY <1>3, <2>2, <2>4 DEF Spoken
    <2> QED BY <1>3, <1>6, <2>2, <2>4, <2>5
  <1>12. ASSUME v = [m EXCEPT !.r = full, !.ret = 1], ~(k <= 0) PROVE Outcome(m, v)
    <2> DEFINE u == [m EXCEPT !.r = full]
    <2>1. /\ Spoken(full) /\ Said(full) = a \o d /\ full.filepos = k
          /\ full.filesize = size /\ full.data_fd = -1 /\ full.method # "HEAD"
          /\ full.logline = m.r.logline /\ full.status = "WRITE" /\ full.keepalive = r.keepalive
      BY <1>11, <1>12
    <2>2. v = [u EXCEPT !.ret = 1]
      <3>1. v = [m EXCEPT !.r = full, !.ret = 1]
        BY <1>12
      <3> HIDE DEF full
      <3> QED BY <1>1, <3>1 DEF Speaks
    <2> HIDE DEF full
    <2>3. Speaks(u) /\ Around(m, u) /\ u.r = full
      BY <1>1, <2>1, SpeaksSwap
    <2> HIDE DEF u
    <2>4. Speaks(v) /\ Around(u, v) /\ v.r = u.r /\ v.ret = 1
      BY <2>2, <2>3, SpeaksBack
    <2>5. Begun(full, k, a)
      BY <1>1, <1>5, <1>7, <1>12, <2>1 DEF Begun
    <2>6. Going(full, v.n, v.open, v.src)
      BY <1>4, <2>5, MappedFrom
    <2>7. Around(m, v) /\ v.r.logline = m.r.logline
      BY <2>1, <2>3, <2>4, AroundTrans
    <2> QED BY <1>1, <2>3, <2>4, <2>6, <2>7, AroundGoes
  <1>13. ASSUME v = [req_flush([m EXCEPT !.r = full]) EXCEPT !.r.status = "DONE", !.ret = 1],
                ~(k <= 0), ~(k < r.filesize)
         PROVE  Outcome(m, v)
    <2> DEFINE u == [m EXCEPT !.r = full]
    <2>1. /\ Spoken(full) /\ Said(full) = a \o d /\ full.filepos = k /\ full.got = <<>>
          /\ full.filesize = size /\ full.data_fd = -1 /\ full.method # "HEAD"
          /\ full.logline = m.r.logline /\ full.status = "WRITE" /\ full.keepalive = r.keepalive
      BY <1>11, <1>13
    <2>2. v = [req_flush(u) EXCEPT !.r.status = "DONE", !.ret = 1]
      BY <1>13
    <2>3. k = size
      BY <1>1, <1>6, <1>7, <1>13
    <2>4. Said(full) = a \o Data(1, full.filesize)
      BY <2>1, <2>3
    <2> HIDE DEF full
    <2>5. Speaks(u) /\ Around(m, u) /\ u.r = full
      BY <1>1, <2>1, SpeaksSwap
    <2> HIDE DEF u, a
    <2>6. /\ Speaks(v) /\ Around(u, v) /\ Alike(v.r, u.r) /\ v.r.status = "DONE" /\ v.ret = 1
          /\ Over(v.r, v.n, v.open, v.src)
      BY <1>1, <1>4, <1>5, <2>1, <2>2, <2>4, <2>5, LastFlushed
    <2>7. Around(m, v) /\ v.r.logline = m.r.logline
      BY <2>1, <2>5, <2>6, AroundTrans DEF Alike
    <2>8. Going(v.r, v.n, v.open, v.src)
      BY <2>6, GoesOn
    <2> QED BY <1>1, <2>6, <2>7, <2>8, AroundGoes
  <1> QED BY <1>2, <1>8, <1>9, <1>10, <1>12, <1>13

\* A refusal of a request as it is, nothing of its answer said so far.
LEMMA RefusedAsIs ==
    ASSUME NEW w, Serves(w), Said(w.r) = <<>>, w.r.status \notin Pipes, NEW code \in Int, code # 200,
           NEW v, v = Refuse(w, code)
    PROVE  Outcome(w, v)
  <1>1. Speaks(w) /\ NoData(Said(w.r)) /\ (w.r.status \in Pipes => code >= 400)
    BY OneToken DEF Serves
  <1>2. Speaks(v) /\ Around(w, v) /\ Alike(v.r, w.r) /\ v.ret = 0 /\ Plain(v.r)
    BY <1>1, RefusedOver
  <1>3. Over(v.r, v.n, v.open, v.src) /\ v.r.logline = w.r.logline
    BY <1>2, PlainOver DEF Alike
  <1> QED BY <1>2, <1>3, AroundOutcome

\* A document that the client has already (response.c): a header, and the connection is
\* to be closed.
LEMMA NotModifiedSaid ==
    ASSUME NEW w, Serves(w), Silent(w.r), w.r.status = "WRITE",
           NEW v, v = [send_r_not_modified(w) EXCEPT !.ret = 0]
    PROVE  Outcome(w, v)
  <1> DEFINE r0 == SQUASH_KA(w.r)
             r == [r0 EXCEPT !.response_status = 304]
             x == Tok(KaPhrase(r), 304)
             q == req_write(r, <<x>>)
             u == [w EXCEPT !.r = q]
             f == req_flush(u)
  <1>1. Speaks(w) /\ Spoken(w.r) /\ Said(w.r) = <<>>
    BY SaidParts DEF Serves, Speaks
  <1>2. v = [f EXCEPT !.ret = 0]
    BY DEF send_r_not_modified
  <1>3. /\ Reworded(r0, w.r) /\ r0.keepalive = "stopped" /\ r0.status = w.r.status
    BY <1>1, SpokenSquash
  <1> HIDE DEF r0
  <1>4. Spoken(r0)
    BY <1>3 DEF Reworded
  <1>5. /\ Reworded(r, r0) /\ r.keepalive = r0.keepalive /\ r.response_status = 304 /\ r.status = r0.status
    BY <1>4, SpokenCode
  <1> HIDE DEF r
  <1>6. /\ Spoken(r) /\ Said(r) = <<>> /\ r.got = <<>> /\ Alike(r, w.r)
    BY <1>1, <1>3, <1>5, AlikeTrans DEF Reworded, Silent
  <1>7. x.t \notin {"data", "page"}
    BY Phrases
  <1> HIDE DEF x
  <1>8. Says(r, q, x)
    BY <1>6, TokenSaid
  <1> HIDE DEF q
  <1>9. /\ Spoken(q) /\ Alike(q, w.r) /\ q.keepalive = "stopped" /\ q.response_status = 304
        /\ q.got = <<>> /\ (Said(q) = <<>> \/ Said(q) = <<x>>) /\ q.status \in {w.r.status, "DEAD"}
    <2>1. <<>> \o <<x>> = <<x>>
      BY OneToken, ListedNone
    <2>2. Spoken(q) /\ Alike(q, w.r)
      BY <1>6, <1>8, AlikeTrans DEF Says
    <2> QED BY <1>3, <1>5, <1>6, <1>8, <2>1, <2>2 DEF Says
  <1>10. Speaks(u) /\ Around(w, u) /\ u.r = q
    BY <1>1, <1>9, SpeaksSwap
  <1> HIDE DEF u
  <1>11. f = req_flush(u)
    OBVIOUS
  <1> HIDE DEF f
  <1>12. /\ Speaks(f) /\ Around(u, f) /\ Alike(f.r, u.r)
         /\ f.r.keepalive = u.r.keepalive /\ f.r.response_status = u.r.response_status
         /\ \/ u.r.status = "DEAD" /\ f.r = u.r /\ f.ret = -2
            \/ /\ f.r.status = "DEAD" /\ Said(f.r) = u.r.got /\ u.n.peer = "reset" /\ f.ret = -2
               /\ u.r.status # "DEAD"
            \/ /\ f.r.status = u.r.status /\ Said(f.r) = Said(u.r) /\ f.ret # -2
               /\ u.r.status # "DEAD" /\ (f.ret = Len(f.r.buf) \/ f.ret = -1)
    BY <1>10, <1>11, FlushedSaid
  <1>13. Said(f.r) = <<>> \/ Said(f.r) = <<x>>
    BY <1>9, <1>10, <1>12
  <1>14. NoData(Said(f.r)) /\ OneStatus(Said(f.r))
    <2> DEFINE a == Said(f.r)
    <2>1. a = <<>> \/ a = <<x>>
      BY <1>13
    <2> HIDE DEF a
    <2>2. NoData(a) /\ OneStatus(a)
      BY <1>7, <2>1, HeaderAlone
    <2> QED BY <2>2 DEF a
  <1>15. f.r.status \notin Pipes /\ f.r.keepalive # "active" /\ f.r.response_status # 200
    BY <1>9, <1>10, <1>12, LateStatus
  <1>16. Spoken(f.r) /\ Plain(f.r)
    BY <1>12, <1>14, <1>15 DEF Plain, Speaks
  <1>17. Speaks(v) /\ Around(f, v) /\ v.r = f.r /\ v.ret = 0
    <2>1. Speaks(f) /\ v = [f EXCEPT !.ret = 0]
      BY <1>2, <1>12
    <2>2. Speaks(v) /\ Around(f, v) /\ v.r = f.r /\ v.n = f.n /\ v.ret = 0
      BY ONLY <2>1, SpeaksBack
    <2> QED BY <2>2
  <1>18. Over(v.r, v.n, v.open, v.src)
    BY <1>16, <1>17, PlainOver
  <1>19. Around(w, v) /\ v.r.logline = w.r.logline
    BY <1>9, <1>10, <1>12, <1>17, AroundTrans DEF Alike
  <1> QED BY <1>17, <1>18, <1>19, AroundOutcome

\* What is unchanged by the search for a mapping.
Unmoved(w, m) ==
    /\ DOMAIN m = DOMAIN w /\ m.n = w.n /\ m.open = w.open /\ m.src = w.src /\ m.ret = w.ret
    /\ Alike(m.r, w.r) /\ m.r.got = w.r.got /\ m.r.buf = w.r.buf /\ m.r.start = w.r.start
    /\ m.r.keepalive = w.r.keepalive /\ m.r.status = w.r.status
    /\ m.r.response_status = w.r.response_status

\* Where it is found.
LEMMA FoundUnmoved ==
    ASSUME NEW w, Serves(w), NEW file, NEW fault, NEW m, m = find_mmap(w, file, fault)
    PROVE  Unmoved(w, m)
  <1> DEFINE first == CHOOSE i \in Probes(w.mm, file) : \A j \in Probes(w.mm, file) : i <= j
             i == (file + first) % MMAP_LIST_SIZE
             more == [w EXCEPT !.mm[i].count = @ + 1, !.r.mmap = i]
             new == [w EXCEPT !.mm[i] = [count |-> 1, file |-> file], !.used = @ + 1, !.r.mmap = i]
  <1>1. m \in {w, more, new}
    BY Zenon DEF find_mmap
  <1>2. {"n", "open", "r", "ret", "src"} \subseteq DOMAIN w /\ Fields \subseteq DOMAIN w.r
    BY DEF Serves, Speaks, Spoken
  <1> HIDE DEF i
  <1>3. Unmoved(w, w)
    BY DEF Unmoved, Alike
  <1>4. Unmoved(w, more)
    BY <1>2 DEF Unmoved, Alike, Fields
  <1>5. Unmoved(w, new)
    BY <1>2 DEF Unmoved, Alike, Fields
  <1> HIDE DEF more, new
  <1> QED BY <1>1, <1>3, <1>4, <1>5

\* The document is still to be fetched.
LEMMA UnmovedFetches ==
    ASSUME NEW w, Fetches(w), NEW m, Unmoved(w, m)
    PROVE  Fetches(m) /\ Around(w, m) /\ Alike(m.r, w.r)
  <1>1. Serves(w) /\ Speaks(w) /\ Spoken(w.r) /\ Silent(w.r)
    BY DEF Fetches, Serves, Speaks
  <1>2. Spoken(m.r) /\ Silent(m.r)
    BY <1>1 DEF Unmoved, Spoken, Silent, Alike
  <1>3. Speaks(m)
    BY <1>1, <1>2 DEF Speaks, Unmoved
  <1>4. Serves(m)
    BY <1>1, <1>3 DEF Serves, Unmoved
  <1>5. Around(w, m)
    BY <1>1 DEF Around, Unmoved
  <1>6. Alike(m.r, w.r) /\ m.r.status = w.r.status
    BY DEF Unmoved
  <1> QED BY <1>2, <1>4, <1>5, <1>6 DEF Fetches, Alike

\* init_get (get.c), on each of its ways out.
LEMMA GetSaid ==
    ASSUME NEW w, Fetches(w), w.r.filesize = 0, NEW fault, NEW v, v = init_get(w, fault)
    PROVE  Outcome(w, v)
  <1> DEFINE s == Site[w.r.uri]
             sized == [w EXCEPT !.r.filesize = s.size]
             closing == [w EXCEPT !.r = SQUASH_KA(@)]
             same == [send_r_not_modified(w) EXCEPT !.ret = 0]
             head == [sized EXCEPT !.r = send_r_request_ok(@)]
             m == find_mmap(sized, w.r.uri, fault)
  <1>1. \/ v \in {Refuse(w, 400), Refuse(w, 404), Refuse(w, 403), Refuse(w, 301), same}
        \/ v = GetFiltered(w, fault) /\ s.kind \in {"gz", "dir"}
        \/ v = GetFiltered(closing, fault) /\ s.kind \in {"gz", "dir"}
        \/ v = GiveUp(head) /\ (w.r.method = "HEAD" \/ s.size = 0)
        \/ v = GetPiped(sized) /\ Free(w.open) # {} /\ w.r.method # "HEAD"
        \/ v = GetMapped(m, fault) /\ w.r.method # "HEAD"
    <2> DEFINE other == IF w.r.method = "HEAD" \/ s.size = 0 THEN GiveUp(head)
                        ELSE IF s.size > MAX_FILE_MMAP THEN GetPiped(sized)
                        ELSE GetMapped(m, fault)
    <2>1. v = IF Free(w.open) = {} THEN Refuse(w, 400) ELSE
              CASE s.kind = "missing"       -> Refuse(w, 404)
                [] s.kind = "forbidden"     -> Refuse(w, 403)
                [] s.kind = "noslash"       -> Refuse(w, 301)
                [] s.kind = "not_modified"  -> same
                [] s.kind = "gz"            -> GetFiltered(w, fault)
                [] s.kind = "dir"           -> GetFiltered(closing, fault)
                [] OTHER                    -> other
      BY Zenon DEF init_get
    <2>2. \/ other = GiveUp(head) /\ (w.r.method = "HEAD" \/ s.size = 0)
          \/ other = GetPiped(sized) /\ w.r.method # "HEAD"
          \/ other = GetMapped(m, fault) /\ w.r.method # "HEAD"
      <3> DEFINE big == s.size > MAX_FILE_MMAP
                 none == s.size = 0
                 v1 == GiveUp(head)
                 v2 == GetPiped(sized)
                 v3 == GetMapped(m, fault)
      <3>1. other = IF w.r.method = "HEAD" \/ none THEN v1 ELSE IF big THEN v2 ELSE v3
        OBVIOUS
      <3> HIDE DEF big, none, v1, v2, v3, other
      <3>2. \/ other = v1 /\ (w.r.method = "HEAD" \/ none)
            \/ other = v2 /\ w.r.method # "HEAD"
            \/ other = v3 /\ w.r.method # "HEAD"
        BY <3>1, Zenon
      <3> QED BY <3>2 DEF none, v1, v2, v3
    <2> HIDE DEF s, sized, closing, same, head, m, other
    <2>3. CASE Free(w.open) = {}
      BY <2>1, <2>3
    <2>4. CASE Free(w.open) # {} /\ s.kind \in {"missing", "forbidden", "noslash", "not_modified"}
      BY <2>1, <2>4
    <2>5. CASE Free(w.open) # {} /\ s.kind \in {"gz", "dir"}
      BY <2>1, <2>5
    <2>6. CASE /\ Free(w.open) # {}
               /\ s.kind \notin {"missing", "forbidden", "noslash", "not_modified", "gz", "dir"}
      <3>1. v = other
        BY <2>1, <2>6
      <3> QED BY <2>2, <2>6, <3>1
    <2> QED BY <2>3, <2>4, <2>5, <2>6
  <1>2. /\ Serves(w) /\ Speaks(w) /\ Spoken(w.r) /\ Silent(w.r) /\ w.r.status = "WRITE"
        /\ w.r.data_fd = -1 /\ w.r.filepos = 0 /\ w.r.is_cgi # "CGI" /\ w.r.method # "POST"
        /\ w.r.uri \in DOMAIN Site /\ Said(w.r) = <<>> /\ w.r.status \notin Pipes
    BY SaidParts, LateStatus DEF Fetches, Serves, Speaks
  <1>3. s.size \in Nat /\ s = Site[w.r.uri]
    BY <1>2, BoaAssumption
  <1> HIDE DEF s
  <1>4. Fetches(sized) /\ Around(w, sized) /\ Alike([sized.r EXCEPT !.filesize = w.r.filesize], w.r)
        /\ sized.r.filesize = s.size /\ sized.r.method = w.r.method /\ sized.open = w.open
        /\ sized.src = w.src /\ sized.r.data_fd = -1 /\ sized.r.logline = w.r.logline
    <2> DEFINE q == [w.r EXCEPT !.filesize = s.size]
    <2>1. Fields \subseteq DOMAIN w.r
      BY <1>2 DEF Spoken
    <2>2. /\ q.got = w.r.got /\ q.buf = w.r.buf /\ q.start = w.r.start /\ q.filesize = s.size
          /\ q.status = w.r.status /\ q.data_fd = w.r.data_fd /\ q.filepos = w.r.filepos
          /\ q.is_cgi = w.r.is_cgi /\ q.method = w.r.method /\ q.uri = w.r.uri
          /\ q.logline = w.r.logline /\ q.simple = w.r.simple /\ q.keepalive = w.r.keepalive
          /\ q.response_status = w.r.response_status /\ DOMAIN q = DOMAIN w.r
          /\ Alike([q EXCEPT !.filesize = w.r.filesize], w.r)
      BY <2>1 DEF Alike, Fields
    <2> HIDE DEF q
    <2>3. Spoken(q) /\ Silent(q)
      BY <1>2, <2>2 DEF Spoken, Silent
    <2>4. sized = [w EXCEPT !.r = q]
      BY DEF q
    <2> HIDE DEF sized
    <2>5. Speaks(sized) /\ Around(w, sized) /\ sized.r = q
      BY <1>2, <2>3, <2>4, SpeaksSwap
    <2>6. Serves(sized) /\ sized.open = w.open /\ sized.src = w.src
      BY <1>2, <2>5 DEF Serves, Around
    <2>7. Fetches(sized)
      BY <1>2, <1>3, <2>2, <2>3, <2>5, <2>6 DEF Fetches
    <2> QED BY <1>2, <2>2, <2>5, <2>6, <2>7
  <1> HIDE DEF sized
  <1>5. ASSUME NEW code \in {400, 404, 403, 301}, v = Refuse(w, code) PROVE Outcome(w, v)
    <2>1. code \in Int /\ code # 200
      OBVIOUS
    <2> QED BY <1>2, <1>5, <2>1, RefusedAsIs
  <1>6. ASSUME v = same PROVE Outcome(w, v)
    BY <1>2, <1>6, NotModifiedSaid
  <1> HIDE DEF same
  <1>7. ASSUME v = GetFiltered(w, fault), s.kind \in {"gz", "dir"} PROVE Outcome(w, v)
    BY <1>2, <1>3, <1>7, FilteredSaid
  <1>8. ASSUME v = GetFiltered(closing, fault), s.kind \in {"gz", "dir"} PROVE Outcome(w, v)
    <2> DEFINE q == SQUASH_KA(w.r)
    <2>1. Reworded(q, w.r) /\ q.status = w.r.status /\ q.response_status = w.r.response_status
      BY <1>2, SpokenSquash
    <2>2. closing = [w EXCEPT !.r = q]
      OBVIOUS
    <2> HIDE DEF q, closing
    <2>3. Spoken(q) /\ Silent(q) /\ Alike(q, w.r)
      BY <1>2, <2>1 DEF Reworded, Silent
    <2>4. Speaks(closing) /\ Around(w, closing) /\ closing.r = q
      BY <1>2, <2>2, <2>3, SpeaksSwap
    <2>5. Serves(closing) /\ {"open", "src"} \subseteq DOMAIN w
      BY <1>2, <2>4 DEF Serves, Around
    <2>6. /\ closing.r.status = "WRITE" /\ closing.r.filesize = 0 /\ closing.r.data_fd = -1
          /\ closing.r.is_cgi # "CGI" /\ closing.r.uri = w.r.uri /\ Silent(closing.r)
      BY <1>2, <2>1, <2>3, <2>4 DEF Alike
    <2>7. Outcome(closing, v)
      BY <1>2, <1>3, <1>8, <2>5, <2>6, FilteredSaid
    <2> QED BY <2>3, <2>4, <2>5, <2>7, OutcomeAround
  <1>9. ASSUME v = GiveUp(head), w.r.method = "HEAD" \/ s.size = 0 PROVE Outcome(w, v)
    <2> DEFINE q == send_r_request_ok(sized.r)
               x == OkHeader(sized.r)
               a == Said(q)
    <2>1. /\ Serves(sized) /\ Speaks(sized) /\ Spoken(sized.r) /\ Silent(sized.r)
          /\ sized.r.status = "WRITE" /\ sized.r.status # "DEAD" /\ sized.r.method # "POST"
      BY <1>4 DEF Fetches, Serves, Speaks
    <2>2. /\ Spoken(q) /\ Alike(q, sized.r) /\ q.keepalive = sized.r.keepalive
          /\ q.response_status = 200 /\ q.status = sized.r.status
          /\ sized.r.simple = "yes" => Said(q) = <<>>
          /\ sized.r.simple # "yes" => Said(q) = <<x>>
      BY <2>1, OkSaid
    <2>3. head = [sized EXCEPT !.r = q]
      OBVIOUS
    <2>4. x.t \notin {"data", "page"}
      BY OkToken
    <2> HIDE DEF q, x, head
    <2>5. Speaks(head) /\ Around(sized, head) /\ head.r = q
      BY <2>1, <2>2, <2>3, SpeaksSwap
    <2>6. v = [head EXCEPT !.ret = 0]
      BY <1>9 DEF GiveUp
    <2>7. Speaks(v) /\ Around(head, v) /\ v.r = q /\ v.ret = 0
      <3>1. Speaks(v) /\ Around(head, v) /\ v.r = head.r /\ v.ret = 0
        BY <2>5, <2>6, SpeaksBack
      <3> QED BY <2>5, <3>1
    <2>8. /\ q.filesize = s.size /\ q.method = w.r.method /\ q.data_fd = -1 /\ q.logline = w.r.logline
          /\ q.status \notin Pipes
      BY <1>4, <2>1, <2>2, LateStatus DEF Alike
    <2>9. /\ NoData(a) /\ OneStatus(a) /\ DataCount(a) = 0 /\ \E k \in 0..Len(a) : Shaped(a, k)
      <3>1. a = <<>> \/ a = <<x>>
        BY <2>2
      <3> HIDE DEF a
      <3> QED BY <2>4, <3>1, HeaderAlone
    <2>10. q.keepalive = "active" => Whole(q)
      <3>1. q.keepalive = "active" => Said(q) = <<x>>
        BY <2>1, <2>2 DEF Spoken
      <3>2. Len(<<x>>) = 1
        BY OneToken
      <3>3. 1 = 1 + (IF q.method = "HEAD" THEN 0 ELSE q.filesize)
        BY <1>9, <2>8
      <3> QED BY <3>1, <3>2, <3>3 DEF Whole
    <2>11. Over(q, v.n, v.open, v.src)
      BY <1>9, <2>8, <2>9, <2>10 DEF Over
    <2>12. Around(w, v)
      BY <1>4, <2>5, <2>7, AroundTrans
    <2> QED BY <1>2, <2>7, <2>8, <2>11, <2>12, AroundOutcome
  <1> HIDE DEF head
  <1>10. ASSUME v = GetPiped(sized), Free(w.open) # {}, w.r.method # "HEAD" PROVE Outcome(w, v)
    <2>1. /\ Serves(sized) /\ Silent(sized.r) /\ sized.r.status = "WRITE" /\ sized.r.filesize \in Nat
          /\ sized.r.data_fd = -1 /\ sized.r.method \notin {"HEAD", "POST"} /\ Free(sized.open) # {}
      BY <1>4, <1>10 DEF Fetches
    <2>2. Outcome(sized, v)
      BY <1>10, <2>1, PipedSaid
    <2> QED BY <1>2, <1>4, <2>2 DEF Outcome
  <1>11. ASSUME v = GetMapped(m, fault), w.r.method # "HEAD" PROVE Outcome(w, v)
    <2>1. Serves(sized)
      BY <1>4 DEF Fetches
    <2>2. Unmoved(sized, m)
      BY <2>1, FoundUnmoved
    <2> HIDE DEF m
    <2>3. Fetches(m) /\ Around(sized, m) /\ Alike(m.r, sized.r)
      BY <1>4, <2>2, UnmovedFetches
    <2>4. m.r.method # "HEAD"
      BY <1>4, <1>11, <2>3 DEF Alike
    <2>5. Outcome(m, v)
      BY <1>11, <2>3, <2>4, MappedSaid
    <2>6. {"open", "src"} \subseteq DOMAIN sized
      BY <2>1 DEF Serves
    <2>7. Outcome(sized, v)
      BY <2>3, <2>5, <2>6, OutcomeAround
    <2> QED BY <1>2, <1>4, <2>7 DEF Outcome
  <1> QED BY <1>1, <1>5, <1>6, <1>7, <1>8, <1>9, <1>10, <1>11

\* Where the document begins after one token at most there is no second status line.
LEMMA ShapedStatus ==
    ASSUME NEW a, Listed(a), NEW k \in 0..1, Shaped(a, k)
    PROVE  OneStatus(a)
  <1>1. Len(a) \in Nat
    BY DEF Listed
  <1> SUFFICES ASSUME NEW i \in 2..Len(a)
               PROVE  a[i].t \notin {"keep", "close"}
    BY DEF OneStatus
  <1>2. i \in (k + 1)..Len(a)
    BY <1>1
  <1>3. a[i] = Tok("data", i - k)
    BY <1>2 DEF Shaped
  <1> QED BY <1>3 DEF Tok

\* How much of a document is written at once.
LEMMA PieceBounds ==
    ASSUME NEW p \in Nat, NEW size \in Nat, p <= size, NEW room \in Nat,
           NEW j, j = Least(Least(size - p, SOCKETBUF_SIZE), room)
    PROVE  j \in Nat /\ p + j \in 0..size
  <1>1. SOCKETBUF_SIZE \in Nat
    BY BoaAssumption
  <1> QED BY <1>1 DEF Least

\* A request whose document has been written up to q, from p on.
Wrote(r, j, q) ==
    q = [r EXCEPT !.filepos = @ + j, !.got = @ \o Data(r.filepos + 1, r.filepos + j)]

LEMMA WroteMapped ==
    ASSUME NEW r, Spoken(r), Mapped(r), r.buf = <<>>, r.status = "WRITE", NEW j \in Nat,
           r.filepos + j \in 0..r.filesize, NEW q, Wrote(r, j, q)
    PROVE  /\ Spoken(q) /\ q.logline = r.logline /\ q.status = "WRITE" /\ Mapped(q)
           /\ r.filepos + j = r.filesize => \E k : Complete(q, k)
  <1> DEFINE p == r.filepos
             a == Said(r)
             d == Data(p + 1, p + j)
  <1>1. PICK k \in 0..1 : /\ Shaped(a, k) /\ Len(a) = k + p /\ (k = 1 => a[1].t # "page")
                          /\ (r.keepalive = "active" => k = 1)
    BY DEF Mapped
  <1>2. /\ OneStatus(a) /\ r.method # "HEAD" /\ r.data_fd = -1 /\ r.filesize \in Nat /\ p \in 0..r.filesize
    BY DEF Mapped
  <1>3. Listed(a) /\ a = r.got /\ Listed(r.got)
    BY SaidParts
  <1>4. r.start = 0
    <2>1. r.start \in 0..Len(r.buf) /\ Len(r.buf) = 0
      BY DEF Spoken
    <2> QED BY <2>1
  <1>5. Extends(a, k, p)
    <2>1. p \in Nat
      BY <1>2
    <2>2. \A i \in 1..k : a[i].t # "page"
      BY <1>1
    <2> HIDE DEF a, p
    <2> QED BY <1>1, <1>3, <2>1, <2>2 DEF Extends
  <1>6. /\ DOMAIN q = DOMAIN r /\ q.filepos = p + j /\ q.got = r.got \o d /\ q.buf = <<>> /\ q.start = 0
        /\ q.logline = r.logline /\ q.status = "WRITE" /\ q.method = r.method /\ q.data_fd = -1
        /\ q.filesize = r.filesize /\ q.keepalive = r.keepalive /\ q.simple = r.simple
    <2>1. Fields \subseteq DOMAIN r
      BY DEF Spoken
    <2> QED BY <1>2, <1>4, <2>1 DEF Wrote, Fields
  <1>7. r.filepos + j \in 0..q.filesize
    BY <1>6
  <1>8. p + j \in Nat /\ p + j = q.filepos
    BY <1>2, <1>6
  <1> HIDE DEF p
  <1>9. d = Data(p + 1, p + j)
    OBVIOUS
  <1> HIDE DEF d
  <1>10. Extends(a \o d, k, p + j)
    BY <1>5, <1>9, ShapedData
  <1>11. Listed(a \o d) /\ Shaped(a \o d, k) /\ Len(a \o d) = k + (p + j)
         /\ \A i \in 1..k : (a \o d)[i].t # "page"
    BY <1>10 DEF Extends
  <1> DEFINE b == a \o d
  <1>12. Said(q) = b
    <2>1. q.got = b
      BY <1>3, <1>6
    <2>2. Listed(b)
      BY <1>11
    <2> HIDE DEF b
    <2>3. Drop(<<>>, 0) = <<>>
      BY DEF Drop
    <2>4. b \o <<>> = b
      BY <2>2, ListedNone
    <2> QED BY <1>6, <2>1, <2>3, <2>4 DEF Said
  <1>13. OneStatus(b)
    <2>1. Listed(b) /\ Shaped(b, k)
      BY <1>11
    <2> HIDE DEF b
    <2> QED BY <2>1, <1>1, ShapedStatus
  <1>14. Listed(b) /\ Shaped(b, k) /\ Len(b) = k + (p + j) /\ (k = 1 => b[1].t # "page")
    <2>1. k = 1 => 1 \in 1..k
      OBVIOUS
    <2> QED BY <1>11, <2>1
  <1>15. q.got = b
    BY <1>3, <1>6
  <1> HIDE DEF a, b
  <1>16. Spoken(q)
    <2>1. Listed(q.got) /\ Listed(q.buf) /\ Len(q.buf) = 0
      BY <1>6, <1>14, <1>15 DEF Spoken
    <2> QED BY <1>6, <2>1 DEF Spoken
  <1>17. Mapped(q)
    <2>1. q.filepos \in 0..q.filesize /\ q.filesize \in Nat
      BY <1>2, <1>6, <1>7, <1>8 DEF p
    <2>2. Len(Said(q)) = k + q.filepos
      BY <1>8, <1>12, <1>14
    <2>3. OneStatus(Said(q)) /\ q.method # "HEAD" /\ q.data_fd = -1
      BY <1>2, <1>6, <1>12, <1>13
    <2>4. Shaped(Said(q), k) /\ (k = 1 => Said(q)[1].t # "page") /\ (q.keepalive = "active" => k = 1)
      BY <1>1, <1>6, <1>12, <1>14
    <2> QED BY <1>1, <2>1, <2>2, <2>3, <2>4 DEF Mapped
  <1>18. ASSUME r.filepos + j = r.filesize
         PROVE  Complete(q, k)
    <2>1. Len(Said(q)) = k + q.filesize
      BY <1>6, <1>12, <1>14, <1>18 DEF p
    <2> QED BY <1>1, <1>2, <1>6, <1>12, <1>13, <1>14, <2>1 DEF Complete, Pipes
  <1> QED BY <1>6, <1>16, <1>17, <1>18

\* process_get (get.c) writes the next piece of a document that is mapped.
LEMMA ProcessGetSaid ==
    ASSUME NEW w, Serves(w), Mapped(w.r), w.r.buf = <<>>, w.r.status = "WRITE", NEW fault,
           NEW v, v = process_get(w, fault)
    PROVE  Outcome(w, v)
  <1> DEFINE r == w.r
             k == Least(Least(r.filesize - r.filepos, SOCKETBUF_SIZE), w.n.room)
             q == [r EXCEPT !.filepos = @ + k, !.got = @ \o Data(r.filepos + 1, r.filepos + k)]
             v1 == [w EXCEPT !.r.status = "DEAD", !.ret = 0]
             v2 == [w EXCEPT !.ret = -1]
             v3 == [w EXCEPT !.r = q, !.n.room = @ - k, !.ret = IF r.filepos + k = r.filesize THEN 0 ELSE 1]
             dead == [r EXCEPT !.status = "DEAD"]
  <1>1. Speaks(w) /\ Spoken(r) /\ r.status = "WRITE" /\ r.buf = <<>> /\ Mapped(r)
    BY DEF Serves, Speaks
  <1>2. {"n", "r", "ret", "open", "src"} \subseteq DOMAIN w /\ Fields \subseteq DOMAIN r
        /\ {"peer", "room"} \subseteq DOMAIN w.n /\ w.n.room \in Nat
    BY DEF Serves, Speaks, Spoken
  <1>3. r.filesize \in Nat /\ r.filepos \in Nat /\ r.filepos <= r.filesize
    BY <1>1 DEF Mapped
  <1>4. k \in Nat /\ r.filepos + k \in 0..r.filesize /\ k <= w.n.room
    <2>1. k \in Nat /\ r.filepos + k \in 0..r.filesize
      <3>1. w.n.room \in Nat
        BY <1>2
      <3> DEFINE p == r.filepos
                 size == r.filesize
                 m == w.n.room
      <3>2. p \in Nat /\ size \in Nat /\ p <= size /\ m \in Nat /\ k = Least(Least(size - p, SOCKETBUF_SIZE), m)
        BY <1>3, <3>1
      <3> HIDE DEF k, p, size, m
      <3>3. k \in Nat /\ p + k \in 0..size
        BY <3>2, PieceBounds
      <3> QED BY <3>3 DEF p, size
    <2>2. SOCKETBUF_SIZE \in Nat
      BY BoaAssumption
    <2> QED BY <2>1, <2>2, <1>2, <1>3 DEF Least
  <1>5. v = IF fault = "bus" \/ w.n.peer = "reset" THEN v1
            ELSE IF k = 0 /\ r.filepos < r.filesize THEN v2
            ELSE v3
    <2>1. v1 = GiveUp([w EXCEPT !.r.status = "DEAD"])
      BY DEF GiveUp
    <2>2. v3 = [w EXCEPT !.r.filepos = @ + k,
                   !.r.got = @ \o Data(r.filepos + 1, r.filepos + k),
                   !.n.room = @ - k,
                   !.ret = IF r.filepos + k = r.filesize THEN 0 ELSE 1]
      BY <1>2 DEF Fields
    <2> QED BY <2>1, <2>2 DEF process_get
  <1>6. Wrote(r, k, q)
    BY DEF Wrote
  <1>7. v1.r = dead /\ v1.ret = 0 /\ v1.n = w.n /\ v1.open = w.open /\ v1.src = w.src /\ DOMAIN v1 = DOMAIN w
    BY <1>2
  <1>8. v3.r = q /\ v3.ret = (IF r.filepos + k = r.filesize THEN 0 ELSE 1) /\ v3.open = w.open /\ v3.src = w.src
        /\ DOMAIN v3 = DOMAIN w /\ v3.n.peer = w.n.peer /\ {"peer", "room"} \subseteq DOMAIN v3.n
        /\ v3.n.room = w.n.room - k
    BY <1>2
  <1>9. v3.n.room \in Nat
    BY <1>2, <1>4, <1>8
  <1> HIDE DEF v1, v3, q, k
  <1>10. Outcome(w, v1)
    <2>1. Reworded(dead, r) /\ dead.status = "DEAD"
      BY <1>1, SpokenStatus
    <2> HIDE DEF dead
    <2>2. Spoken(dead) /\ Said(dead) = Said(r) /\ dead.logline = r.logline
      BY <2>1 DEF Reworded, Alike
    <2>3. PICK m : Shaped(Said(r), m)
      BY <1>1 DEF Mapped
    <2>4. Shaped(Said(dead), m) /\ OneStatus(Said(dead))
      BY <1>1, <2>2, <2>3 DEF Mapped
    <2>5. Over(dead, v1.n, v1.open, v1.src)
      BY <2>1, <2>2, <2>4, DeadOver
    <2>6. Speaks(v1) /\ Around(w, v1) /\ v1.r.logline = r.logline
      BY <1>2, <1>7, <2>2 DEF Speaks, Around
    <2> QED BY <1>7, <2>5, <2>6, AroundOutcome
  <1>11. Outcome(w, v2)
    <2>1. Speaks(w) /\ v2 = [w EXCEPT !.ret = -1]
      BY <1>1
    <2>2. Speaks(v2) /\ Around(w, v2) /\ v2.r = w.r /\ v2.n = w.n /\ v2.ret = -1
      BY ONLY <2>1, SpeaksBack
    <2>3. Going(v2.r, v2.n, v2.open, v2.src)
      BY <1>1, <2>2, GoesOn
    <2>4. v2.ret # 0 /\ v2.r.logline = w.r.logline
      BY <2>2
    <2> QED BY <2>2, <2>3, <2>4, AroundGoes
  <1>12. Outcome(w, v3)
    <2>1. /\ Spoken(q) /\ q.logline = r.logline /\ q.status = "WRITE" /\ Mapped(q)
          /\ r.filepos + k = r.filesize => \E m : Complete(q, m)
      BY <1>1, <1>4, <1>6, WroteMapped
    <2>2. Speaks(v3) /\ Around(w, v3) /\ v3.r.logline = w.r.logline
      BY <1>2, <1>8, <1>9, <2>1 DEF Speaks, Around
    <2>3. CASE r.filepos + k = r.filesize
      <3>1. PICK m : Complete(q, m)
        BY <2>1, <2>3
      <3>2. Over(q, v3.n, v3.open, v3.src)
        BY <3>1, CompleteOver
      <3> QED BY <1>8, <2>2, <2>3, <3>2, AroundOutcome
    <2>4. CASE r.filepos + k # r.filesize
      <3>1. Going(q, v3.n, v3.open, v3.src)
        BY <2>1, GoesOn
      <3> QED BY <1>8, <2>2, <2>4, <3>1, AroundGoes
    <2> QED BY <2>3, <2>4
  <1> QED BY <1>5, <1>10, <1>11, <1>12

\* What a pipe has given and will give, in sequences.
LEMMA ComingParts ==
    ASSUME NEW r, Spoken(r), Listed(r.data), NEW s, SourcesListed(s), r.data_fd \in AllFds
    PROVE  LET t == s[r.data_fd].pipe
               l == s[r.data_fd].left IN
           /\ Listed(t) /\ Listed(l) /\ Listed(t \o l) /\ Listed(r.data \o (t \o l))
           /\ Listed(Said(r)) /\ Listed(Coming(r, s)) /\ Coming(r, s) = Said(r) \o (r.data \o (t \o l))
  <1> DEFINE t == s[r.data_fd].pipe
             l == s[r.data_fd].left
             d == r.data
             a == Said(r)
  <1>1. Listed(t) /\ Listed(l)
    BY DEF SourcesListed
  <1>2. Listed(a)
    BY SaidParts
  <1>3. Listed(d) /\ Coming(r, s) = a \o (d \o (t \o l))
    BY DEF Coming
  <1> HIDE DEF t, l, d, a
  <1>4. Listed(t \o l)
    BY <1>1, ListedJoin
  <1>5. Listed(d \o (t \o l))
    BY <1>3, <1>4, ListedJoin
  <1>6. Listed(a \o (d \o (t \o l)))
    BY <1>2, <1>5, ListedJoin
  <1> QED BY <1>1, <1>2, <1>3, <1>4, <1>5, <1>6 DEF t, l, d, a

\* What is copied from a pipe, moved on: the output as a whole is the same.
Moves(r, s, n, q, z, m) ==
    /\ Coming(q, z) = Coming(r, s) /\ q.data_fd = r.data_fd
    /\ q.keepalive = r.keepalive /\ q.uri = r.uri /\ q.method = r.method
    /\ q.response_status = r.response_status /\ q.filesize = r.filesize
    /\ m.peer = n.peer
    /\ z[r.data_fd].left = s[r.data_fd].left /\ z[r.data_fd].alive = s[r.data_fd].alive
    /\ q.cgi_status = "PARSE" => r.cgi_status = "PARSE" /\ Silent(q)

LEMMA StreamedMoves ==
    ASSUME NEW r, NEW s, NEW n, NEW q, NEW z, NEW m, NEW fds, Streamed(r, fds, s), Moves(r, s, n, q, z, m),
           Listed(q.data), q.off \in Nat, q.off + Len(q.data) <= BUFFER_SIZE,
           q.status = "PIPE_WRITE" => q.cgi_status # "PARSE",
           q.cgi_status = "DONE" => z[q.data_fd].pipe = <<>> /\ z[q.data_fd].alive # "yes"
    PROVE  Streamed(q, fds, z)
  <1> DEFINE c == Coming(r, s)
  <1>1. Coming(q, z) = c /\ OneStatus(c)
    BY DEF Moves, Streamed
  <1> HIDE DEF c
  <1>2. ASSUME fds[r.data_fd] = "pipe", Piped(r, s)
        PROVE  Piped(q, z)
    <2>1. /\ r.keepalive # "active" /\ DataCount(c) = DataCount(Site[r.uri].out)
          /\ \E k \in 0..Len(c) : Shaped(c, k)
          /\ r.cgi_status = "PARSE" => \A i \in 1..Len(c) : c[i].t \notin {"keep", "close"}
      BY <1>2 DEF Piped, c
    <2>2. q.keepalive = r.keepalive /\ q.uri = r.uri
          /\ (q.cgi_status = "PARSE" => r.cgi_status = "PARSE" /\ Silent(q))
      BY DEF Moves
    <2> QED BY <1>1, <2>1, <2>2 DEF Piped
  <1>3. ASSUME fds[r.data_fd] = "file", Filed(r, s)
        PROVE  Filed(q, z)
    <2>1. PICK k \in 0..1 :
             /\ Shaped(c, k) /\ Len(c) = k + r.filesize
             /\ r.keepalive = "active" => k = 1
      BY <1>3 DEF Filed, c
    <2>2. q.keepalive = r.keepalive /\ q.filesize = r.filesize
      BY DEF Moves
    <2>3. q.keepalive = "active" => k = 1
      BY <2>1, <2>2
    <2>4. Shaped(Coming(q, z), k) /\ Len(Coming(q, z)) = k + q.filesize
      BY <1>1, <2>1, <2>2
    <2>5. /\ q.method # "HEAD" /\ q.response_status = 200 /\ q.cgi_status # "PARSE" /\ q.filesize \in Nat
          /\ z[q.data_fd].left = <<>> /\ z[q.data_fd].alive = "no"
      BY <1>3 DEF Filed, Moves
    <2> QED BY <2>1, <2>3, <2>4, <2>5 DEF Filed
  <1>4. \/ fds[r.data_fd] = "pipe" /\ Piped(r, s)
        \/ fds[r.data_fd] = "file" /\ Filed(r, s)
    BY DEF Streamed
  <1>5. q.data_fd = r.data_fd
    BY DEF Moves
  <1> QED BY <1>1, <1>2, <1>3, <1>4, <1>5 DEF Streamed

\* A handler that copies from a pipe.
Copies(w) ==
    /\ Serves(w) /\ w.r.status \in Pipes /\ w.r.buf = <<>> /\ w.r.data_fd \in AllFds
    /\ Streamed(w.r, w.open, w.src)

\* Nothing is left of it.
LEMMA CopiedOver ==
    ASSUME NEW w, Copies(w), w.r.data = <<>>, w.r.cgi_status = "DONE"
    PROVE  Over(w.r, w.n, w.open, w.src)
  <1> DEFINE r == w.r
             a == Said(r)
             l == w.src[r.data_fd].left
             c == Coming(r, w.src)
  <1>1. Serves(w) /\ Spoken(r) /\ r.status \in Pipes /\ r.buf = <<>> /\ r.data_fd \in AllFds
    BY DEF Copies, Serves, Speaks
  <1>2. SourcesListed(w.src) /\ Streamed(r, w.open, w.src)
    BY <1>1 DEF Copies, Serves
  <1>3. r.data = <<>> /\ w.src[r.data_fd].pipe = <<>>
    BY <1>2 DEF Streamed
  <1>4. c = a \o l /\ Listed(l) /\ Listed(a) /\ Listed(c)
    <2>1. Listed(r.data)
      BY <1>2 DEF Streamed
    <2>2. Listed(l) /\ Listed(a) /\ Listed(c) /\ c = a \o (r.data \o (w.src[r.data_fd].pipe \o l))
      BY <1>1, <1>2, <2>1, ComingParts
    <2> HIDE DEF l, a, c
    <2>3. <<>> \o l = l
      BY <2>2, ListedNone
    <2> QED BY <1>3, <2>2, <2>3
  <1>5. r.data_fd # -1
    BY <1>1, BoaAssumption DEF AllFds
  <1>6. OneStatus(c)
    BY <1>2 DEF Streamed
  <1>7. OneStatus(a) /\ \A k : Shaped(c, k) => \E m \in 0..Len(a) : Shaped(a, m)
    <2> HIDE DEF a, l, c
    <2> QED BY <1>4, <1>6, ShapedFront
  <1>8. ASSUME w.open[r.data_fd] = "pipe", Piped(r, w.src)
        PROVE  Over(r, w.n, w.open, w.src)
    <2>1. r.keepalive # "active" /\ DataCount(c) = DataCount(Site[r.uri].out)
          /\ \E k \in 0..Len(c) : Shaped(c, k)
      BY <1>8 DEF Piped
    <2>2. DataCount(c) = DataCount(a) + DataCount(l) /\ DataCount(a) \in Nat /\ DataCount(l) \in Nat
      <3> HIDE DEF a, l, c
      <3> QED BY <1>4, CountJoin
    <2>3. DataCount(a) = DataCount(Site[r.uri].out) - DataCount(l)
      BY <2>1, <2>2
    <2>4. \E m \in 0..Len(a) : Shaped(a, m)
      BY <1>7, <2>1
    <2> HIDE DEF c
    <2> QED BY <1>1, <1>3, <1>5, <1>7, <1>8, <2>1, <2>3, <2>4 DEF Over
  <1>9. ASSUME w.open[r.data_fd] = "file", Filed(r, w.src)
        PROVE  Over(r, w.n, w.open, w.src)
    <2>1. r.method # "HEAD" /\ r.filesize \in Nat /\ l = <<>>
      BY <1>9 DEF Filed
    <2>2. PICK k \in 0..1 :
             /\ Shaped(c, k) /\ Len(c) = k + r.filesize
             /\ r.keepalive = "active" => k = 1
      BY <1>9 DEF Filed
    <2>3. c = a
      <3> HIDE DEF a, l, c
      <3>1. a \o <<>> = a
        BY <1>4, ListedNone
      <3> QED BY <1>4, <2>1, <3>1
    <2>4. DataCount(a) = r.filesize
      <3>1. DataCount(a) = Len(a) - k
        <4>1. Listed(a) /\ Shaped(a, k)
          BY <1>4, <2>2, <2>3
        <4> HIDE DEF a
        <4> QED BY <4>1, CountShaped
      <3>2. Len(a) = k + r.filesize
        BY <2>2, <2>3
      <3> DEFINE x == Len(a)
                 y == r.filesize
      <3>3. x = k + y /\ DataCount(a) = x - k /\ y \in Nat
        BY <2>1, <3>1, <3>2
      <3> HIDE DEF x, y
      <3>4. DataCount(a) = y
        BY <3>3
      <3> QED BY <3>4 DEF y
    <2>5. \E m \in 0..Len(a) : Shaped(a, m)
      BY <1>7, <2>2
    <2>6. r.keepalive = "active" => Whole(r)
      BY <2>1, <2>2, <2>3 DEF Whole
    <2> HIDE DEF c
    <2> QED BY <1>1, <1>3, <1>5, <1>7, <1>9, <2>4, <2>5, <2>6 DEF Over
  <1>10. \/ w.open[r.data_fd] = "pipe" /\ Piped(r, w.src)
         \/ w.open[r.data_fd] = "file" /\ Filed(r, w.src)
    BY <1>2 DEF Streamed
  <1> QED BY <1>8, <1>9, <1>10

\* The client has gone: what has been said of it is of the right shape.
LEMMA CopiedDead ==
    ASSUME NEW w, Copies(w), NEW v, v = Refuse([w EXCEPT !.r.status = "DEAD"], 500)
    PROVE  Outcome(w, v)
  <1> DEFINE r == w.r
             a == Said(r)
             c == Coming(r, w.src)
             dead == [r EXCEPT !.status = "DEAD"]
             u == [w EXCEPT !.r = dead]
             f == send_r(u, 500)
             o == r.data \o (w.src[r.data_fd].pipe \o w.src[r.data_fd].left)
  <1>1. Serves(w) /\ Speaks(w) /\ Spoken(r) /\ r.data_fd \in AllFds
    BY DEF Copies, Serves, Speaks
  <1>2. SourcesListed(w.src) /\ Streamed(r, w.open, w.src)
    BY <1>1 DEF Copies, Serves
  <1>3. c = a \o o /\ Listed(o) /\ Listed(a)
    BY <1>1, <1>2, ComingParts DEF Streamed
  <1>4. OneStatus(c) /\ \E k : Shaped(c, k)
    BY <1>2 DEF Streamed, Piped, Filed
  <1>5. OneStatus(a) /\ \E k : Shaped(a, k)
    <2> HIDE DEF a, o, c
    <2> QED BY <1>3, <1>4, ShapedFront
  <1> HIDE DEF o, c
  <1>6. Spoken(dead) /\ Said(dead) = a /\ Alike(dead, r) /\ dead.status = "DEAD"
    BY <1>1, SpokenStatus DEF Reworded
  <1> HIDE DEF dead
  <1>7. Speaks(u) /\ Around(w, u) /\ u.r = dead
    BY <1>1, <1>6, SpeaksSwap
  <1>8. v = [f EXCEPT !.ret = 0]
    <2>1. u = [w EXCEPT !.r.status = "DEAD"]
      BY DEF dead
    <2> QED BY <2>1 DEF Refuse
  <1> HIDE DEF u
  <1>9. Sends(u, f, 500)
    <2> DEFINE code == 500
    <2>1. f = send_r(u, code)
      OBVIOUS
    <2> HIDE DEF f, code
    <2>2. Sends(u, f, code)
      BY <1>7, <2>1, SentSaid
    <2> QED BY <2>2 DEF code
  <1> HIDE DEF f
  <1>10. Speaks(f) /\ Around(u, f) /\ Alike(f.r, dead) /\ f.r.status = "DEAD" /\ Said(f.r) = a
    BY <1>6, <1>7, <1>9 DEF Sends
  <1>11. Speaks(v) /\ Around(f, v) /\ v.r = f.r /\ v.ret = 0
    <2>1. Speaks(f) /\ v = [f EXCEPT !.ret = 0]
      BY <1>8, <1>10
    <2>2. Speaks(v) /\ Around(f, v) /\ v.r = f.r /\ v.n = f.n /\ v.ret = 0
      BY ONLY <2>1, SpeaksBack
    <2> QED BY <2>2
  <1>12. Spoken(v.r) /\ Said(v.r) = a /\ v.r.status = "DEAD" /\ v.r.logline = r.logline
    BY <1>6, <1>10, <1>11 DEF Speaks, Alike
  <1>13. Over(v.r, v.n, v.open, v.src)
    <2>1. PICK k : Shaped(Said(v.r), k)
      BY <1>5, <1>12
    <2>2. OneStatus(Said(v.r))
      BY <1>5, <1>12
    <2> QED BY <1>12, <2>1, <2>2, DeadOver
  <1>14. Around(w, v)
    BY <1>7, <1>10, <1>11, AroundTrans
  <1> QED BY <1>1, <1>11, <1>12, <1>13, <1>14, AroundOutcome

\* What has been copied, and is to be, is the same when a piece is written.
Halved(d, x, y) == Listed(x) /\ Listed(y) /\ x \o y = d

LEMMA MoveOut ==
    ASSUME NEW a, NEW d, NEW o, Listed(a), Listed(o), NEW x, NEW y, Halved(d, x, y)
    PROVE  (a \o x) \o (y \o o) = a \o (d \o o)
  <1>1. Listed(x) /\ Listed(y)
    BY DEF Halved
  <1> DEFINE z == y \o o
  <1>2. Listed(z)
    BY <1>1, ListedJoin
  <1> HIDE DEF z
  <1>3. (a \o x) \o z = a \o (x \o z)
    BY <1>1, <1>2, ListedThree
  <1>4. (x \o y) \o o = x \o (y \o o)
    BY <1>1, ListedThree
  <1>5. x \o y = d
    BY DEF Halved
  <1> QED BY <1>3, <1>4, <1>5 DEF z

\* A piece, and what is left.
LEMMA Cut ==
    ASSUME NEW s, Listed(s), NEW k \in 0..Len(s)
    PROVE  Halved(s, Take(s, k), Drop(s, k))
  BY ListedHalves DEF Halved

\* A handler that copies goes on, with the same output to come.
LEMMA CopiesOn ==
    ASSUME NEW w, Copies(w), NEW v, Speaks(v), v.r.status \in Pipes, v.r.logline = w.r.logline,
           SourcesListed(v.src), \A g \in AllFds : g # w.r.data_fd => v.src[g] = w.src[g],
           v.open = w.open, v.ret # 0, Moves(w.r, w.src, w.n, v.r, v.src, v.n),
           Listed(v.r.data), v.r.off \in Nat, v.r.off + Len(v.r.data) <= BUFFER_SIZE,
           v.r.status = "PIPE_WRITE" => v.r.cgi_status # "PARSE",
           v.r.cgi_status = "DONE" => v.src[v.r.data_fd].pipe = <<>> /\ v.src[v.r.data_fd].alive # "yes"
    PROVE  Outcome(w, v)
  <1>1. Streamed(w.r, w.open, w.src)
    BY DEF Copies
  <1>2. Streamed(v.r, w.open, v.src)
    BY <1>1, StreamedMoves
  <1>3. Going(v.r, v.n, v.open, v.src)
    BY <1>2, GoesOn
  <1>4. Spoken(v.r)
    BY DEF Speaks
  <1> QED BY <1>3, <1>4 DEF Outcome

\* It has nothing to do and waits.
LEMMA CopiesWait ==
    ASSUME NEW w, Copies(w), NEW x, x # 0, NEW v, v = [w EXCEPT !.ret = x]
    PROVE  Outcome(w, v)
  <1>1. Serves(w) /\ Speaks(w) /\ Streamed(w.r, w.open, w.src) /\ w.r.status \in Pipes
    BY DEF Copies, Serves
  <1>2. Speaks(v) /\ Around(w, v) /\ v.r = w.r /\ v.n = w.n /\ v.ret = x
    BY <1>1, SpeaksBack
  <1>3. v.open = w.open /\ v.src = w.src
    BY <1>1, <1>2 DEF Serves, Around
  <1>4. Going(v.r, v.n, v.open, v.src)
    BY <1>1, <1>2, <1>3, GoesOn
  <1> QED BY <1>1, <1>2, <1>4, AroundGoes

\* write_from_pipe (pipe.c).
LEMMA WriteFromPipeSaid ==
    ASSUME NEW w, Copies(w), w.r.status = "PIPE_WRITE", NEW v, v = write_from_pipe(w)
    PROVE  Outcome(w, v)
  <1> DEFINE r == w.r
             s == w.src
             fd == r.data_fd
             k == Least(Len(r.data), w.n.room)
             q2 == [r EXCEPT !.status = "PIPE_READ", !.off = 0]
             q5 == [r EXCEPT !.data = Drop(@, k), !.off = @ + k, !.filepos = @ + k,
                             !.got = @ \o Take(r.data, k)]
             v1 == [w EXCEPT !.ret = 0]
             v2 == [w EXCEPT !.r = q2, !.ret = 1]
             v3 == Refuse([w EXCEPT !.r.status = "DEAD"], 500)
             v4 == [w EXCEPT !.ret = -1]
             v5 == [w EXCEPT !.r = q5, !.n.room = @ - k, !.ret = 1]
  <1>1. /\ Serves(w) /\ Speaks(w) /\ Spoken(r) /\ r.status \in Pipes /\ r.buf = <<>> /\ fd \in AllFds
        /\ Streamed(r, w.open, s) /\ SourcesListed(s)
    BY DEF Copies, Serves, Speaks
  <1>2. {"n", "r", "ret", "open", "src"} \subseteq DOMAIN w /\ Fields \subseteq DOMAIN r
        /\ {"peer", "room"} \subseteq DOMAIN w.n /\ w.n.room \in Nat
    BY DEF Copies, Serves, Speaks, Spoken
  <1>3. /\ Listed(r.data) /\ r.off \in Nat /\ r.off + Len(r.data) <= BUFFER_SIZE
        /\ r.cgi_status = "DONE" => s[fd].pipe = <<>> /\ s[fd].alive # "yes"
        /\ r.status = "PIPE_WRITE" => r.cgi_status # "PARSE"
    BY <1>1 DEF Streamed
  <1>4. Len(r.data) \in Nat
    BY <1>3 DEF Listed
  <1>5. v = IF r.data = <<>> THEN (IF r.cgi_status = "DONE" THEN v1 ELSE v2)
            ELSE IF w.n.peer = "reset" THEN v3
            ELSE IF k = 0 THEN v4
            ELSE v5
    <2>1. v2 = [w EXCEPT !.r.status = "PIPE_READ", !.r.off = 0, !.ret = 1]
      OBVIOUS
    <2>2. v5 = [w EXCEPT !.r.data = Drop(@, k), !.r.off = @ + k, !.r.filepos = @ + k,
                   !.r.got = @ \o Take(r.data, k), !.n.room = @ - k, !.ret = 1]
      OBVIOUS
    <2>3. v1 = GiveUp(w)
      BY DEF GiveUp
    <2> QED BY <2>1, <2>2, <2>3 DEF write_from_pipe
  <1>6. /\ v2.r = q2 /\ v2.n = w.n /\ v2.open = w.open /\ v2.src = s /\ v2.ret = 1
        /\ {"n", "r", "ret"} \subseteq DOMAIN v2
    BY <1>2
  <1>7. /\ v5.r = q5 /\ v5.n.peer = w.n.peer /\ v5.open = w.open /\ v5.src = s /\ v5.ret = 1
        /\ {"n", "r", "ret"} \subseteq DOMAIN v5 /\ {"peer", "room"} \subseteq DOMAIN v5.n
        /\ v5.n.room = w.n.room - k
    BY <1>2
  <1>8. k \in 0..Len(r.data) /\ k <= w.n.room
    BY <1>2, <1>4 DEF Least
  <1>9. v5.n.room \in Nat
    BY <1>2, <1>7, <1>8
  <1>10. r.start = 0
    <2>1. r.start \in 0..Len(r.buf) /\ Len(r.buf) = 0
      BY <1>1 DEF Spoken
    <2> QED BY <2>1
  <1>11. Said(r) = r.got /\ Listed(r.got)
    BY <1>1, SaidParts
  <1> HIDE DEF v2, v3, v5, k
  <1>12. ASSUME r.data = <<>>, r.cgi_status = "DONE"
         PROVE  Outcome(w, v1)
    <2>1. Over(r, w.n, w.open, s)
      BY <1>12, CopiedOver
    <2>2. Speaks(v1) /\ Around(w, v1) /\ v1.r = w.r /\ v1.n = w.n /\ v1.ret = 0
      <3>1. Speaks(w) /\ v1 = [w EXCEPT !.ret = 0]
        BY <1>1
      <3> HIDE DEF v1
      <3> QED BY ONLY <3>1, SpeaksBack
    <2>3. v1.open = w.open /\ v1.src = w.src
      BY <1>2, <2>2 DEF Around
    <2> HIDE DEF v1
    <2> QED BY <1>1, <2>1, <2>2, <2>3, AroundOutcome
  <1>13. ASSUME r.data = <<>>
         PROVE  Outcome(w, v2)
    <2>1. /\ DOMAIN q2 = DOMAIN r /\ q2.off = 0 /\ q2.status = "PIPE_READ" /\ q2.data = <<>> /\ q2.data_fd = fd
          /\ q2.got = r.got /\ q2.buf = r.buf /\ q2.start = r.start /\ q2.keepalive = r.keepalive
          /\ q2.uri = r.uri /\ q2.method = r.method /\ q2.response_status = r.response_status
          /\ q2.filesize = r.filesize /\ q2.cgi_status = r.cgi_status /\ q2.logline = r.logline
          /\ q2.simple = r.simple
      BY <1>2, <1>13 DEF Fields
    <2> HIDE DEF q2
    <2>2. Said(q2) = Said(r)
      BY <2>1 DEF Said
    <2>3. Coming(q2, s) = Coming(r, s)
      BY <1>13, <2>1, <2>2 DEF Coming
    <2>4. Spoken(q2)
      BY <1>1, <2>1 DEF Spoken
    <2>5. Moves(r, s, w.n, q2, s, w.n)
      <3>1. q2.cgi_status = "PARSE" => r.cgi_status = "PARSE" /\ Silent(q2)
        <4>1. r.cgi_status = "PARSE" => Silent(r)
          BY <1>1 DEF Streamed, Piped, Filed
        <4> QED BY <2>1, <4>1 DEF Silent
      <3> QED BY <2>1, <2>2, <2>3, <3>1 DEF Moves
    <2>6. Speaks(v2)
      BY <1>2, <1>6, <2>4 DEF Speaks
    <2>7. Listed(q2.data) /\ q2.off \in Nat /\ q2.off + Len(q2.data) <= BUFFER_SIZE
      <3>1. BUFFER_SIZE \in Nat
        BY BoaAssumption
      <3>2. q2.data = <<>> /\ q2.off = 0 /\ Listed(<<>>) /\ Len(<<>>) = 0
        BY <2>1 DEF Listed
      <3> QED BY <3>1, <3>2
    <2>8. q2.status \in Pipes /\ q2.status # "PIPE_WRITE"
      BY <2>1 DEF Pipes
    <2>9. q2.cgi_status = "DONE" => s[q2.data_fd].pipe = <<>> /\ s[q2.data_fd].alive # "yes"
      BY <1>3, <2>1
    <2> HIDE DEF fd, s, r
    <2>10. Moves(w.r, w.src, w.n, v2.r, v2.src, v2.n) /\ v2.r.logline = w.r.logline
      BY <1>6, <2>1, <2>5 DEF r, s
    <2>11. SourcesListed(v2.src) /\ \A g \in AllFds : v2.src[g] = w.src[g]
      BY <1>1, <1>6 DEF s
    <2> QED BY <1>6, <2>6, <2>7, <2>8, <2>9, <2>10, <2>11, CopiesOn
  <1>14. Outcome(w, v3)
    BY CopiedDead DEF v3
  <1>15. Outcome(w, v4)
    BY CopiesWait
  <1>16. ASSUME w.n.peer # "reset"
         PROVE  Outcome(w, v5)
    <2>1. /\ DOMAIN q5 = DOMAIN r /\ q5.off = r.off + k /\ q5.status = r.status /\ q5.data = Drop(r.data, k)
          /\ q5.data_fd = fd
          /\ q5.got = r.got \o Take(r.data, k) /\ q5.buf = <<>> /\ q5.start = 0 /\ q5.keepalive = r.keepalive
          /\ q5.uri = r.uri /\ q5.method = r.method /\ q5.response_status = r.response_status
          /\ q5.filesize = r.filesize /\ q5.cgi_status = r.cgi_status /\ q5.logline = r.logline
          /\ q5.simple = r.simple
      BY <1>1, <1>2, <1>10 DEF Fields
    <2> HIDE DEF q5
    <2> DEFINE a == Said(r)
               d == r.data
               o == s[fd].pipe \o s[fd].left
    <2>2. Listed(a) /\ Listed(d) /\ Listed(o) /\ Coming(r, s) = a \o (d \o o)
      BY <1>1, <1>3, ComingParts
    <2>3. a = r.got /\ k \in 0..Len(d)
      BY <1>8, <1>11
    <2>4. q5.got = a \o Take(d, k) /\ q5.data = Drop(d, k)
      BY <2>1, <2>3
    <2>5. Said(q5) = q5.got \o Drop(<<>>, 0) /\ Drop(<<>>, 0) = <<>>
      BY <2>1 DEF Said, Drop
    <2>6. Coming(q5, s) = Said(q5) \o (q5.data \o o)
      BY <2>1 DEF Coming
    <2>7. Len(d) \in Nat /\ r.off \in Nat /\ r.off + Len(d) <= BUFFER_SIZE
      BY <1>3, <1>4
    <2> HIDE DEF a, d, o
    <2>8. /\ Listed(Take(d, k)) /\ Len(Drop(d, k)) = Len(d) - k /\ Listed(Drop(d, k))
      BY <2>2, <2>3, ListedHalves
    <2>9. Listed(q5.got)
      BY <2>2, <2>4, <2>8, ListedJoin
    <2>10. Said(q5) = q5.got
      BY <2>5, <2>9, ListedNone
    <2>11. (a \o Take(d, k)) \o (Drop(d, k) \o o) = a \o (d \o o)
      <3>1. Halved(d, Take(d, k), Drop(d, k)) /\ Listed(a) /\ Listed(o)
        <4>1. Listed(d) /\ k \in 0..Len(d)
          BY <2>2, <2>3
        <4> QED BY <4>1, <2>2, Cut
      <3> DEFINE x == Take(d, k)
                 y == Drop(d, k)
      <3>2. Halved(d, x, y) /\ Listed(a) /\ Listed(o)
        BY <3>1
      <3> HIDE DEF x, y
      <3>3. (a \o x) \o (y \o o) = a \o (d \o o)
        BY ONLY <3>2, MoveOut
      <3> QED BY <3>3 DEF x, y
    <2>12. Coming(q5, s) = Coming(r, s)
      BY <2>2, <2>4, <2>6, <2>10, <2>11
    <2>13. Spoken(q5)
      <3>1. Listed(q5.buf) /\ q5.start \in 0..Len(q5.buf)
        BY <1>1, <1>10, <2>1 DEF Spoken
      <3> QED BY <1>1, <2>1, <2>9, <3>1 DEF Spoken
    <2>14. Listed(q5.data) /\ q5.off \in Nat /\ q5.off + Len(q5.data) <= BUFFER_SIZE
      <3>1. BUFFER_SIZE \in Nat
        BY BoaAssumption
      <3> QED BY <2>1, <2>3, <2>4, <2>7, <2>8, <3>1
    <2>15. Moves(r, s, w.n, q5, s, v5.n)
      <3>1. q5.cgi_status # "PARSE"
        BY <1>3, <2>1
      <3> QED BY <1>7, <1>16, <2>1, <2>12, <3>1 DEF Moves
    <2>16. Speaks(v5)
      BY <1>2, <1>7, <1>9, <2>13 DEF Speaks
    <2>17. q5.status \in Pipes /\ q5.cgi_status # "PARSE"
           /\ (q5.cgi_status = "DONE" => s[q5.data_fd].pipe = <<>> /\ s[q5.data_fd].alive # "yes")
      BY <1>1, <1>3, <2>1
    <2>18. q5.logline = r.logline
      BY <2>1
    <2> HIDE DEF fd, s, r
    <2>19. Moves(w.r, w.src, w.n, v5.r, v5.src, v5.n) /\ v5.r.logline = w.r.logline
      BY <1>7, <2>15, <2>18 DEF r, s
    <2>20. SourcesListed(v5.src) /\ \A g \in AllFds : v5.src[g] = w.src[g]
      BY <1>1, <1>7 DEF s
    <2> QED BY <1>7, <2>14, <2>16, <2>17, <2>19, <2>20, CopiesOn
  <1> QED BY <1>5, <1>12, <1>13, <1>14, <1>15, <1>16

\* A program's output is looked at for its header: nothing has been said so far.
Heads(w) ==
    /\ Serves(w) /\ w.r.status \in Pipes /\ w.r.data_fd \in AllFds /\ w.open[w.r.data_fd] = "pipe"
    /\ Silent(w.r) /\ w.r.keepalive # "active" /\ Listed(w.r.data) /\ w.r.off \in Nat
    /\ w.r.off + Len(w.r.data) <= BUFFER_SIZE /\ w.r.cgi_status \in {"BUFFER", "DONE"}
    /\ w.r.cgi_status = "DONE" =>
          w.src[w.r.data_fd].pipe = <<>> /\ w.src[w.r.data_fd].alive # "yes"
    /\ NoStatus(Coming(w.r, w.src)) /\ DataCount(Coming(w.r, w.src)) = DataCount(Site[w.r.uri].out)
    /\ \E k : Shaped(Coming(w.r, w.src), k)

\* A request that may be copied from where its header ends, c being what is to come.
Follows(q, n, fds, s, c) ==
    /\ Listed(q.data) /\ q.off \in Nat /\ q.off + Len(q.data) <= BUFFER_SIZE
    /\ q.cgi_status \in {"BUFFER", "DONE"} /\ q.keepalive # "active" /\ fds[q.data_fd] = "pipe"
    /\ q.cgi_status = "DONE" => s[q.data_fd].pipe = <<>> /\ s[q.data_fd].alive # "yes"
    /\ Coming(q, s) = c /\ OneStatus(c) /\ (\E k \in 0..Len(c) : Shaped(c, k))
    /\ DataCount(c) = DataCount(Site[q.uri].out)

LEMMA FollowsStreamed ==
    ASSUME NEW q, NEW n, NEW fds, NEW s, NEW c, Follows(q, n, fds, s, c)
    PROVE  Streamed(q, fds, s)
  <1>1. Coming(q, s) = c /\ OneStatus(c) /\ (\E k \in 0..Len(c) : Shaped(c, k))
        /\ DataCount(c) = DataCount(Site[q.uri].out) /\ q.cgi_status # "PARSE" /\ q.keepalive # "active"
    BY DEF Follows
  <1>2. Piped(q, s)
    BY <1>1 DEF Piped
  <1> QED BY <1>1, <1>2 DEF Follows, Streamed

\* A header of the program's own is at the front of its output.
ProgramHeaders == {"type", "status", "url", "path"}

\* What is to come, without it.
LEMMA HeadedOutput ==
    ASSUME NEW d, NEW o, Listed(d), Listed(o), d # <<>>, Head(d).t \in ProgramHeaders,
           NoStatus(d \o o), NEW k, Shaped(d \o o, k)
    PROVE  /\ Listed(Tail(d)) /\ Len(Tail(d)) + 1 = Len(d) /\ d = <<Head(d)>> \o Tail(d)
           /\ Listed(Tail(d) \o o) /\ OneStatus(Tail(d) \o o)
           /\ \E m \in 0..Len(Tail(d) \o o) : Shaped(Tail(d) \o o, m)
           /\ DataCount(Tail(d) \o o) = DataCount(d \o o)
  <1> DEFINE x == Head(d)
             e == Tail(d)
             y == <<x>>
             c == e \o o
  <1>1. d \in Seq(ToSet(d))
    BY DEF Listed
  <1>2. e = Drop(d, 1) /\ y = Take(d, 1) /\ 1 \in 0..Len(d) /\ Len(d) \in Nat
    <2>1. Len(d) \in Nat /\ Len(d) >= 1
      BY <1>1
    <2>2. e = Drop(d, 1)
      BY <1>1, <2>1 DEF Drop
    <2>3. y = Take(d, 1)
      BY <1>1, <2>1 DEF Take
    <2> QED BY <2>1, <2>2, <2>3
  <1>3. Listed(e) /\ Len(e) = Len(d) - 1 /\ y \o e = d /\ Listed(y)
    <2>1. /\ Listed(Take(d, 1)) /\ Listed(Drop(d, 1)) /\ Len(Drop(d, 1)) = Len(d) - 1
          /\ Take(d, 1) \o Drop(d, 1) = d
      BY <1>2, ListedHalves
    <2> QED BY <1>2, <2>1
  <1>4. x.t # "data" /\ x.t \notin {"keep", "close"}
    BY DEF ProgramHeaders
  <1> HIDE DEF x, e
  <1>5. Listed(c)
    BY <1>3, ListedJoin
  <1>6. d \o o = y \o c
    <2>1. Listed(y) /\ Listed(e) /\ Listed(o)
      BY <1>3
    <2> HIDE DEF y
    <2>2. (y \o e) \o o = y \o (e \o o)
      BY ONLY <2>1, ListedThree
    <2> QED BY <1>3, <2>2
  <1>7. Len(y) = 1 /\ NoData(y) /\ Listed(y)
    BY <1>4, OneToken
  <1> HIDE DEF c
  <1>8. k >= 1 /\ Shaped(c, k - 1)
    BY <1>4, <1>5, <1>6, ShapedRest
  <1>9. NoStatus(c)
    <2> HIDE DEF y
    <2> QED BY <1>5, <1>6, <1>7, ShapedFront
  <1>10. DataCount(y \o c) = DataCount(y) + DataCount(c) /\ DataCount(c) \in Nat
    <2> HIDE DEF y
    <2> QED BY <1>5, <1>7, CountJoin
  <1>11. DataCount(y) = 0
    <2> HIDE DEF y
    <2> QED BY <1>7, CountNone
  <1>12. DataCount(c) = DataCount(d \o o)
    BY <1>6, <1>10, <1>11
  <1>13. OneStatus(c)
    <2>1. Len(c) \in Nat
      BY <1>5 DEF Listed
    <2> QED BY <1>9, <2>1 DEF NoStatus, OneStatus
  <1>14. \E m \in 0..Len(c) : Shaped(c, m)
    BY <1>8 DEF Shaped
  <1>15. Len(e) + 1 = Len(d)
    BY <1>2, <1>3
  <1> QED BY <1>3, <1>5, <1>12, <1>13, <1>14, <1>15 DEF x, e, c

\* A handler whose request goes on being copied.
LEMMA FollowsOn ==
    ASSUME NEW w, Serves(w), NEW v, Speaks(v), Around(w, v), v.r.logline = w.r.logline, v.ret # 0,
           v.r.status \in Pipes, NEW c, Follows(v.r, v.n, v.open, v.src, c)
    PROVE  Outcome(w, v)
  <1>1. Streamed(v.r, v.open, v.src)
    BY FollowsStreamed
  <1>2. Going(v.r, v.n, v.open, v.src)
    BY <1>1, GoesOn
  <1> QED BY <1>2, AroundGoes

\* The output is still the program's, and a header of it is in front.
LEMMA HeadsParts ==
    ASSUME NEW w, Heads(w)
    PROVE  LET r == w.r
               o == w.src[r.data_fd].pipe \o w.src[r.data_fd].left
               c == r.data \o o IN
           /\ Serves(w) /\ Speaks(w) /\ Spoken(r) /\ Said(r) = <<>> /\ r.got = <<>> /\ r.start = 0
           /\ r.buf = <<>>
           /\ Listed(r.data) /\ Listed(o) /\ Listed(c) /\ Coming(r, w.src) = c
           /\ NoStatus(c) /\ DataCount(c) = DataCount(Site[r.uri].out) /\ \E k : Shaped(c, k)
  <1> DEFINE r == w.r
             o == w.src[r.data_fd].pipe \o w.src[r.data_fd].left
             c == r.data \o o
  <1>1. Serves(w) /\ Speaks(w) /\ Spoken(r) /\ Silent(r) /\ Listed(r.data) /\ SourcesListed(w.src)
        /\ r.data_fd \in AllFds
    BY DEF Heads, Serves, Speaks
  <1>2. Said(r) = <<>>
    BY <1>1, SaidParts
  <1>3. Listed(o) /\ Listed(c) /\ Coming(r, w.src) = Said(r) \o c
    BY <1>1, ComingParts
  <1>4. Coming(r, w.src) = c
    <2> HIDE DEF c
    <2>1. <<>> \o c = c
      BY <1>3, ListedNone
    <2> QED BY <1>2, <1>3, <2>1
  <1>5. NoStatus(c) /\ DataCount(c) = DataCount(Site[r.uri].out) /\ \E k : Shaped(c, k)
    BY <1>4 DEF Heads
  <1> QED BY <1>1, <1>2, <1>3, <1>4, <1>5 DEF Silent

\* Without a header that Boa knows the request is refused.
LEMMA HeaderRefused ==
    ASSUME NEW w, Heads(w), NEW v, v = Refuse(w, 502)
    PROVE  Outcome(w, v)
  <1> DEFINE code == 502
  <1>1. Serves(w) /\ Speaks(w) /\ Said(w.r) = <<>>
    BY HeadsParts
  <1>2. NoData(Said(w.r))
    BY <1>1, OneToken
  <1>3. code \in Int /\ code # 200 /\ code >= 400 /\ v = Refuse(w, code)
    OBVIOUS
  <1> HIDE DEF code
  <1>4. Speaks(v) /\ Around(w, v) /\ Alike(v.r, w.r) /\ v.ret = 0 /\ Plain(v.r)
    BY <1>1, <1>2, <1>3, RefusedOver
  <1>5. Over(v.r, v.n, v.open, v.src)
    BY <1>4, PlainOver
  <1>6. v.r.logline = w.r.logline
    BY <1>4 DEF Alike
  <1> QED BY <1>1, <1>4, <1>5, <1>6, AroundOutcome

\* A header that an HTTP/0.9 request is not told is left out.
LEMMA HeaderLeftOut ==
    ASSUME NEW w, Heads(w), w.r.data # <<>>, Head(w.r.data).t \in ProgramHeaders,
           NEW v, v = [w EXCEPT !.r.data = Tail(@), !.r.off = @ + 1, !.ret = 1]
    PROVE  Outcome(w, v)
  <1> DEFINE r == w.r
             d == r.data
             o == w.src[r.data_fd].pipe \o w.src[r.data_fd].left
             c == Tail(d) \o o
             q == [r EXCEPT !.data = Tail(@), !.off = @ + 1]
             u == [w EXCEPT !.r = q]
  <1>1. /\ Serves(w) /\ Speaks(w) /\ Spoken(r) /\ Said(r) = <<>> /\ Listed(d) /\ Listed(o)
        /\ NoStatus(d \o o) /\ DataCount(d \o o) = DataCount(Site[r.uri].out)
    BY HeadsParts
  <1>2. PICK k : Shaped(d \o o, k)
    BY HeadsParts
  <1>3. /\ Listed(Tail(d)) /\ Len(Tail(d)) + 1 = Len(d) /\ Listed(c) /\ OneStatus(c)
        /\ (\E m \in 0..Len(c) : Shaped(c, m)) /\ DataCount(c) = DataCount(d \o o)
    <2>1. d # <<>> /\ Head(d).t \in ProgramHeaders
      OBVIOUS
    <2> HIDE DEF d, o
    <2> QED BY <1>1, <1>2, <2>1, HeadedOutput
  <1>4. /\ DOMAIN q = DOMAIN r /\ q.data = Tail(d) /\ q.off = r.off + 1 /\ q.got = r.got /\ q.buf = r.buf
        /\ q.start = r.start /\ q.keepalive = r.keepalive /\ q.cgi_status = r.cgi_status
        /\ q.data_fd = r.data_fd /\ q.uri = r.uri /\ q.status = r.status /\ q.logline = r.logline
        /\ q.simple = r.simple /\ q.method = r.method
    <2>1. Fields \subseteq DOMAIN r
      BY <1>1 DEF Spoken
    <2> QED BY <2>1 DEF Fields
  <1>5. v = [u EXCEPT !.ret = 1]
    OBVIOUS
  <1> HIDE DEF q
  <1>6. Said(q) = <<>> /\ Coming(q, w.src) = <<>> \o c
    <2>1. Said(q) = Said(r)
      BY <1>4 DEF Said
    <2> QED BY <1>1, <1>4, <2>1 DEF Coming
  <1>7. Coming(q, w.src) = c
    <2> HIDE DEF c
    <2>1. <<>> \o c = c
      BY <1>3, ListedNone
    <2> QED BY <1>6, <2>1
  <1>8. Spoken(q)
    BY <1>1, <1>4 DEF Spoken
  <1>9. q.off \in Nat /\ q.off + Len(q.data) <= BUFFER_SIZE
    <2>1. BUFFER_SIZE \in Nat
      BY BoaAssumption
    <2>2. r.off \in Nat /\ r.off + Len(d) <= BUFFER_SIZE
      BY DEF Heads
    <2>3. Len(Tail(d)) \in Nat
      BY <1>3 DEF Listed
    <2> QED BY <1>3, <1>4, <2>1, <2>2, <2>3
  <1>10. Speaks(u) /\ Around(w, u) /\ u.r = q /\ u.n = w.n
    BY <1>1, <1>8, SpeaksSwap
  <1> HIDE DEF u
  <1>11. Speaks(v) /\ Around(u, v) /\ v.r = q /\ v.ret = 1
    <2>1. Speaks(u) /\ v = [u EXCEPT !.ret = 1]
      BY <1>5, <1>10
    <2>2. Speaks(v) /\ Around(u, v) /\ v.r = u.r /\ v.n = u.n /\ v.ret = 1
      BY ONLY <2>1, SpeaksBack
    <2> QED BY <1>10, <2>2
  <1>12. Around(w, v) /\ v.open = w.open /\ v.src = w.src
    <2>1. Around(w, v)
      BY <1>10, <1>11, AroundTrans
    <2>2. {"open", "src"} \subseteq DOMAIN w
      BY <1>1 DEF Serves
    <2> QED BY <2>1, <2>2 DEF Around
  <1>13. Follows(q, v.n, w.open, w.src, c)
    <2>1. /\ r.cgi_status \in {"BUFFER", "DONE"} /\ r.keepalive # "active" /\ w.open[r.data_fd] = "pipe"
          /\ r.cgi_status = "DONE" => w.src[r.data_fd].pipe = <<>> /\ w.src[r.data_fd].alive # "yes"
      BY DEF Heads
    <2>2. DataCount(c) = DataCount(Site[q.uri].out)
      BY <1>1, <1>3, <1>4
    <2> HIDE DEF c
    <2> QED BY <1>3, <1>4, <1>7, <1>9, <2>1, <2>2 DEF Follows
  <1>14. v.r.status \in Pipes /\ v.r.logline = w.r.logline /\ v.ret # 0
    BY <1>4, <1>11 DEF Heads
  <1> HIDE DEF c
  <1> QED BY <1>1, <1>11, <1>12, <1>13, <1>14, FollowsOn

\* A status of the program's own: its output is copied as it is.
LEMMA HeaderAsIs ==
    ASSUME NEW w, Heads(w), NEW v, v = [w EXCEPT !.ret = 1]
    PROVE  Outcome(w, v)
  <1> DEFINE r == w.r
             c == Coming(r, w.src)
  <1>1. Serves(w) /\ Speaks(w) /\ Listed(c) /\ NoStatus(c)
        /\ DataCount(c) = DataCount(Site[r.uri].out) /\ \E k : Shaped(c, k)
    BY HeadsParts
  <1>2. OneStatus(c)
    <2>1. Len(c) \in Nat
      BY <1>1 DEF Listed
    <2> QED BY <1>1, <2>1 DEF NoStatus, OneStatus
  <1>3. \E k \in 0..Len(c) : Shaped(c, k)
    BY <1>1 DEF Shaped
  <1>4. Follows(r, w.n, w.open, w.src, c)
    BY <1>1, <1>2, <1>3 DEF Follows, Heads
  <1> HIDE DEF c
  <1>5. Speaks(v) /\ Around(w, v) /\ v.r = w.r /\ v.n = w.n /\ v.ret = 1
    <2>1. Speaks(w) /\ v = [w EXCEPT !.ret = 1]
      BY <1>1
    <2> QED BY ONLY <2>1, SpeaksBack
  <1>6. v.open = w.open /\ v.src = w.src
    BY <1>1, <1>5 DEF Serves, Around
  <1>7. v.r.status \in Pipes /\ v.ret # 0 /\ v.r.logline = w.r.logline
    BY <1>5 DEF Heads
  <1>8. Follows(v.r, v.n, v.open, v.src, c)
    BY <1>4, <1>5, <1>6
  <1> QED BY <1>1, <1>5, <1>7, <1>8, FollowsOn

\* A Location is answered with a page of Boa's own.
LEMMA HeaderLocation ==
    ASSUME NEW w, Heads(w), NEW code \in Int, code # 200, NEW v,
           v = [send_r(w, code) EXCEPT !.r.status = "DONE", !.ret = 1]
    PROVE  Outcome(w, v)
  <1> DEFINE f == send_r(w, code)
             q == [f.r EXCEPT !.status = "DONE"]
             u == [f EXCEPT !.r = q]
  <1>1. Serves(w) /\ Speaks(w) /\ Said(w.r) = <<>>
    BY HeadsParts
  <1>2. NoData(Said(w.r))
    BY <1>1, OneToken
  <1>3. v = [u EXCEPT !.ret = 1]
    OBVIOUS
  <1>4. Sends(w, f, code)
    BY <1>1, SentSaid
  <1> HIDE DEF f
  <1>5. /\ Speaks(f) /\ Around(w, f) /\ Alike(f.r, w.r) /\ f.r.keepalive = "stopped"
        /\ f.r.response_status = code /\ NoData(Said(f.r)) /\ OneStatus(Said(f.r)) /\ Spoken(f.r)
    BY <1>1, <1>2, <1>4 DEF Sends, Speaks
  <1>6. /\ Reworded(q, f.r) /\ q.keepalive = f.r.keepalive /\ q.response_status = f.r.response_status
        /\ q.status = "DONE"
    BY <1>5, SpokenStatus
  <1> HIDE DEF q
  <1>7. Spoken(q) /\ Said(q) = Said(f.r) /\ Alike(q, f.r)
    BY <1>6 DEF Reworded
  <1>8. Plain(q)
    BY <1>5, <1>6, <1>7 DEF Plain, Pipes
  <1>9. Speaks(u) /\ Around(f, u) /\ u.r = q /\ u.n = f.n
    BY <1>5, <1>7, SpeaksSwap
  <1> HIDE DEF u
  <1>10. Speaks(v) /\ Around(u, v) /\ v.r = q /\ v.ret = 1
    <2>1. Speaks(u) /\ v = [u EXCEPT !.ret = 1]
      BY <1>3, <1>9
    <2>2. Speaks(v) /\ Around(u, v) /\ v.r = u.r /\ v.n = u.n /\ v.ret = 1
      BY ONLY <2>1, SpeaksBack
    <2> QED BY <1>9, <2>2
  <1>11. Around(w, v)
    BY <1>5, <1>9, <1>10, AroundTrans
  <1>12. Over(q, v.n, v.open, v.src)
    BY <1>8, PlainOver
  <1>13. Going(v.r, v.n, v.open, v.src)
    BY <1>6, <1>10, <1>12, GoesOn
  <1>14. v.r.logline = w.r.logline /\ v.ret # 0
    BY <1>5, <1>7, <1>10 DEF Alike
  <1> QED BY <1>1, <1>10, <1>11, <1>13, <1>14, AroundGoes

\* An error while a program is copied, nothing said so far.
LEMMA RefusedCopy ==
    ASSUME NEW w, Serves(w), NEW q, Spoken(q), Said(q) = <<>>, q.logline = w.r.logline,
           NEW code \in Int, code >= 400, NEW v, v = Refuse([w EXCEPT !.r = q], code)
    PROVE  Outcome(w, v)
  <1> DEFINE u == [w EXCEPT !.r = q]
  <1>1. Speaks(w)
    BY DEF Serves
  <1>2. Speaks(u) /\ Around(w, u) /\ u.r = q
    BY <1>1, SpeaksSwap
  <1>3. v = Refuse(u, code)
    OBVIOUS
  <1> HIDE DEF u
  <1>4. NoData(Said(u.r)) /\ Said(u.r) = <<>> /\ code # 200
    <2>1. NoData(<<>>)
      BY OneToken
    <2> QED BY <1>2, <2>1
  <1>5. Speaks(v) /\ Around(u, v) /\ Alike(v.r, u.r) /\ v.ret = 0 /\ Plain(v.r)
    BY <1>2, <1>3, <1>4, RefusedOver
  <1>6. Over(v.r, v.n, v.open, v.src)
    BY <1>5, PlainOver
  <1>7. Around(w, v)
    BY <1>2, <1>5, AroundTrans
  <1>8. v.r.logline = w.r.logline
    BY <1>2, <1>5 DEF Alike
  <1> QED BY <1>5, <1>6, <1>7, <1>8, AroundOutcome

\* A header that does not fit.
LEMMA HeaderTooLong ==
    ASSUME NEW w, Heads(w), NEW done, NEW v,
           v = Refuse([w EXCEPT !.r = [send_r_request_ok(w.r) EXCEPT !.buf = <<>>, !.start = 0,
                                                                    !.cgi_status = done]], 500)
    PROVE  Outcome(w, v)
  <1> DEFINE ok == send_r_request_ok(w.r)
             q == [ok EXCEPT !.buf = <<>>, !.start = 0, !.cgi_status = done]
             code == 500
  <1>1. Serves(w) /\ Spoken(w.r) /\ Silent(w.r) /\ w.r.status # "DEAD"
    BY HeadsParts DEF Heads, Pipes
  <1>2. Spoken(ok) /\ Alike(ok, w.r) /\ ok.got = <<>> /\ ok.keepalive = w.r.keepalive
    BY <1>1, OkSaid
  <1>3. v = Refuse([w EXCEPT !.r = q], code) /\ code \in Int /\ code >= 400
    OBVIOUS
  <1> HIDE DEF ok, code
  <1>4. Fields \subseteq DOMAIN ok
    BY <1>2 DEF Spoken
  <1>5. /\ DOMAIN q = DOMAIN ok /\ q.got = <<>> /\ q.buf = <<>> /\ q.start = 0
        /\ q.logline = ok.logline /\ q.keepalive = ok.keepalive /\ q.simple = ok.simple
        /\ q.method = ok.method
    BY <1>2, <1>4 DEF Fields
  <1>6. Listed(<<>>) /\ Len(<<>>) = 0 /\ Drop(<<>>, 0) = <<>> /\ <<>> \o <<>> = <<>>
    BY DEF Listed, Drop
  <1>7. Spoken(q) /\ Said(q) = <<>> /\ q.logline = w.r.logline
    <2>1. q.start \in 0..Len(q.buf)
      BY <1>5, <1>6
    <2>2. Said(q) = <<>>
      BY <1>5, <1>6 DEF Said
    <2>3. Listed(q.got) /\ Listed(q.buf)
      BY <1>5, <1>6
    <2>4. q.keepalive = "active" => q.logline = "yes" /\ (q.simple = "yes" => q.method = "POST")
      BY <1>2, <1>5 DEF Spoken
    <2>5. q.logline = w.r.logline
      BY <1>2, <1>5 DEF Alike
    <2> QED BY <1>4, <1>5, <2>1, <2>2, <2>3, <2>4, <2>5 DEF Spoken
  <1> HIDE DEF q
  <1> QED BY <1>1, <1>3, <1>7, RefusedCopy

\* The header of a program's answer, and what comes with it, in the buffer.
Merges(w, d, done, u) ==
    LET ok == send_r_request_ok(w.r) IN
    u = [w EXCEPT !.r = [ok EXCEPT !.buf = @ \o d, !.off = Len(ok.buf \o d), !.data = <<>>,
                                   !.cgi_status = done]]

LEMMA Merged ==
    ASSUME NEW w, Heads(w), w.r.simple # "yes", NEW d, Listed(d),
           Len(send_r_request_ok(w.r).buf) + Len(d) <= BUFFER_SIZE, NEW done,
           NEW u, Merges(w, d, done, u)
    PROVE  /\ Speaks(u) /\ Around(w, u) /\ u.n = w.n /\ Said(u.r) = <<OkHeader(w.r)>> \o d
           /\ u.r.got = <<>> /\ u.r.status = w.r.status /\ u.r.response_status = 200
           /\ u.r.keepalive = w.r.keepalive /\ u.r.data = <<>> /\ u.r.off \in Nat
           /\ u.r.off <= BUFFER_SIZE /\ u.r.cgi_status = done /\ u.r.logline = w.r.logline
           /\ u.r.method = w.r.method /\ u.r.uri = w.r.uri /\ u.r.data_fd = w.r.data_fd
  <1> DEFINE ok == send_r_request_ok(w.r)
             q == [ok EXCEPT !.buf = @ \o d, !.off = Len(ok.buf \o d), !.data = <<>>,
                             !.cgi_status = done]
             h == <<OkHeader(w.r)>>
  <1>1. Serves(w) /\ Speaks(w) /\ Spoken(w.r) /\ Silent(w.r) /\ w.r.status # "DEAD"
    BY HeadsParts DEF Heads, Pipes
  <1>2. /\ Spoken(ok) /\ Alike(ok, w.r) /\ ok.got = <<>> /\ ok.keepalive = w.r.keepalive
        /\ ok.response_status = 200 /\ ok.status = w.r.status /\ ok.buf = h /\ Said(ok) = h
    BY <1>1, OkSaid
  <1>3. u = [w EXCEPT !.r = q] /\ Len(ok.buf) + Len(d) <= BUFFER_SIZE
    BY DEF Merges
  <1> HIDE DEF ok, h
  <1>4. Fields \subseteq DOMAIN ok
    BY <1>2 DEF Spoken
  <1>5. /\ DOMAIN q = DOMAIN ok /\ q.got = ok.got /\ q.buf = ok.buf \o d /\ q.start = ok.start
        /\ q.logline = ok.logline /\ q.keepalive = ok.keepalive /\ q.simple = ok.simple
        /\ q.method = ok.method /\ q.status = ok.status /\ q.response_status = ok.response_status
        /\ q.data = <<>> /\ q.off = Len(ok.buf \o d) /\ q.cgi_status = done /\ q.uri = ok.uri
        /\ q.data_fd = ok.data_fd
    BY <1>4 DEF Fields
  <1> HIDE DEF q
  <1>6. Buffers(ok, d, q)
    BY <1>5 DEF Buffers
  <1>7. /\ Said(q) = Said(ok) \o d /\ Listed(q.got) /\ Listed(q.buf) /\ q.start \in 0..Len(q.buf)
        /\ Len(q.buf) = Len(ok.buf) + Len(d)
    <2>1. Spoken(ok) /\ Listed(d) /\ Buffers(ok, d, q)
      BY <1>2, <1>6
    <2> QED BY ONLY <2>1, BufferSaid
  <1>8. Spoken(q)
    <2>1. q.keepalive = "active" => q.logline = "yes" /\ (q.simple = "yes" => q.method = "POST")
      BY <1>2, <1>5 DEF Spoken
    <2> QED BY <1>4, <1>5, <1>7, <2>1 DEF Spoken
  <1>9. Speaks(u) /\ Around(w, u) /\ u.r = q /\ u.n = w.n
    <2>1. Speaks(w) /\ Spoken(q) /\ u = [w EXCEPT !.r = q]
      BY <1>1, <1>3, <1>8
    <2> QED BY ONLY <2>1, SpeaksSwap
  <1>10. q.off \in Nat /\ q.off <= BUFFER_SIZE
    <2>1. q.off = Len(q.buf)
      BY <1>5
    <2>2. Len(q.buf) \in Nat
      BY <1>7 DEF Listed
    <2> QED BY <1>3, <1>7, <2>1, <2>2
  <1>11. Said(q) = h \o d /\ q.got = <<>>
    BY <1>2, <1>5, <1>7
  <1>12. q.logline = w.r.logline /\ q.method = w.r.method /\ q.uri = w.r.uri /\ q.data_fd = w.r.data_fd
    BY <1>2, <1>5 DEF Alike
  <1> QED BY <1>2, <1>5, <1>9, <1>10, <1>11, <1>12 DEF h

\* A HEAD gets the header alone.
LEMMA HeaderOnly ==
    ASSUME NEW w, Heads(w), w.r.simple # "yes", w.r.method = "HEAD", NEW x, x.t \in ProgramHeaders,
           Len(send_r_request_ok(w.r).buf) + Len(<<x>>) <= BUFFER_SIZE,
           NEW u, Merges(w, <<x>>, "DONE", u), NEW v, v = [req_flush(u) EXCEPT !.ret = 0]
    PROVE  Outcome(w, v)
  <1> DEFINE d == <<x>>
             h == <<OkHeader(w.r)>>
             f == req_flush(u)
             a == h \o d
  <1>1. Listed(d) /\ NoData(d) /\ NoStatus(d) /\ Listed(h) /\ NoData(h)
    <2>1. x.t # "data" /\ x.t \notin {"keep", "close"}
      BY DEF ProgramHeaders
    <2>2. Len(<<x>>) = 1 /\ <<x>>[1] = x
      OBVIOUS
    <2>3. NoStatus(d)
      BY <2>1, <2>2 DEF NoStatus
    <2> QED BY <2>1, <2>3, OneToken, OkToken
  <1>2. Serves(w)
    BY DEF Heads
  <1>3. /\ Speaks(u) /\ Around(w, u) /\ Said(u.r) = a /\ u.r.got = <<>> /\ u.r.status = w.r.status
        /\ u.r.keepalive = w.r.keepalive /\ u.r.data = <<>> /\ u.r.logline = w.r.logline
        /\ u.r.method = w.r.method
    <2> DEFINE done == "DONE"
    <2>1. Listed(d) /\ Len(send_r_request_ok(w.r).buf) + Len(d) <= BUFFER_SIZE /\ Merges(w, d, done, u)
      BY <1>1
    <2> HIDE DEF d, done
    <2> QED BY <2>1, Merged
  <1>4. Listed(a) /\ NoData(a) /\ OneStatus(a)
    <2> DEFINE t == OkHeader(w.r)
    <2>1. h = <<t>> /\ Listed(h) /\ NoData(h)
      BY <1>1
    <2> HIDE DEF t, d
    <2>2. OneStatus(<<t>> \o d)
      BY <1>1, ConsStatus
    <2>3. Listed(a) /\ NoData(a)
      <3> HIDE DEF h
      <3> QED BY <1>1, ListedJoin, NoDataJoin
    <2> QED BY <2>1, <2>2, <2>3
  <1> HIDE DEF a, h, d
  <1>5. f = req_flush(u) /\ v = [f EXCEPT !.ret = 0]
    OBVIOUS
  <1> HIDE DEF f
  <1>6. /\ Speaks(f) /\ Around(u, f) /\ Alike(f.r, u.r) /\ f.r.keepalive = u.r.keepalive
        /\ (Said(f.r) = u.r.got \/ Said(f.r) = Said(u.r))
        /\ f.r.status \in {u.r.status, "DEAD"}
    BY <1>3, <1>5, FlushedSaid
  <1>7. Speaks(v) /\ Around(f, v) /\ v.r = f.r /\ v.ret = 0
    <2>1. Speaks(f) /\ v = [f EXCEPT !.ret = 0]
      BY <1>5, <1>6
    <2>2. Speaks(v) /\ Around(f, v) /\ v.r = f.r /\ v.n = f.n /\ v.ret = 0
      BY ONLY <2>1, SpeaksBack
    <2> QED BY <2>2
  <1>8. Around(w, v)
    BY <1>3, <1>6, <1>7, AroundTrans
  <1>9. v.r.logline = w.r.logline /\ v.r.method = "HEAD" /\ v.r.keepalive # "active" /\ v.r.data = <<>>
    BY <1>3, <1>6, <1>7 DEF Alike, Heads
  <1>10. (Said(v.r) = <<>> \/ Said(v.r) = a) /\ Spoken(v.r)
    BY <1>3, <1>6, <1>7 DEF Speaks
  <1>11. Listed(Said(v.r)) /\ NoData(Said(v.r)) /\ OneStatus(Said(v.r))
    <2>1. NoData(<<>>) /\ OneStatus(<<>>)
      BY OneToken
    <2>2. Listed(Said(v.r))
      BY <1>10, SaidParts
    <2> QED BY <1>4, <1>10, <2>1, <2>2
  <1>12. \E k \in 0..Len(Said(v.r)) : Shaped(Said(v.r), k)
    BY <1>11, ShapedNone
  <1>13. Over(v.r, v.n, v.open, v.src)
    BY <1>9, <1>11, <1>12 DEF Over
  <1> QED BY <1>2, <1>7, <1>8, <1>9, <1>13, AroundOutcome

\* A header in front of what is to come.
LEMMA HeaderInFront ==
    ASSUME NEW x, x.t \notin {"data", "page"}, NEW c, Listed(c), NoStatus(c), NEW k, Shaped(c, k)
    PROVE  /\ Listed(<<x>> \o c) /\ OneStatus(<<x>> \o c) /\ DataCount(<<x>> \o c) = DataCount(c)
           /\ \E m \in 0..Len(<<x>> \o c) : Shaped(<<x>> \o c, m)
  <1> DEFINE h == <<x>>
             a == h \o c
  <1>1. Listed(h) /\ NoData(h)
    BY OneToken
  <1>2. Shaped(a, k + 1) /\ OneStatus(a)
    BY ShapedCons, ConsStatus
  <1> HIDE DEF h
  <1>3. Listed(a)
    BY <1>1, ListedJoin
  <1>4. DataCount(a) = DataCount(h) + DataCount(c) /\ DataCount(c) \in Nat
    BY <1>1, CountJoin
  <1>5. DataCount(h) = 0
    BY <1>1, CountNone
  <1>6. DataCount(a) = DataCount(c)
    BY <1>4, <1>5
  <1>7. \E m \in 0..Len(a) : Shaped(a, m)
    BY <1>2 DEF Shaped
  <1> QED BY <1>2, <1>3, <1>6, <1>7 DEF h

\* What has been read of the output follows the header into the buffer.
LEMMA HeaderMerged ==
    ASSUME NEW w, Heads(w), w.r.simple # "yes", NEW d, d = w.r.data,
           Len(send_r_request_ok(w.r).buf) + Len(d) <= BUFFER_SIZE, NEW done, done = w.r.cgi_status,
           NEW u, Merges(w, d, done, u), NEW v, v = [req_flush(u) EXCEPT !.ret = 1]
    PROVE  Outcome(w, v)
  <1> DEFINE x == OkHeader(w.r)
             h == <<x>>
             f == req_flush(u)
             fd == w.r.data_fd
             o == w.src[fd].pipe \o w.src[fd].left
             c == d \o o
             a == h \o c
  <1>1. /\ Serves(w) /\ Listed(d) /\ Listed(o) /\ Listed(c) /\ NoStatus(c)
        /\ DataCount(c) = DataCount(Site[w.r.uri].out)
    BY HeadsParts
  <1>2. PICK k : Shaped(c, k)
    BY HeadsParts
  <1>3. /\ Speaks(u) /\ Around(w, u) /\ Said(u.r) = h \o d /\ u.r.got = <<>>
        /\ u.r.status = w.r.status /\ u.r.response_status = 200 /\ u.r.keepalive = w.r.keepalive
        /\ u.r.data = <<>> /\ u.r.off \in Nat /\ u.r.off <= BUFFER_SIZE /\ u.r.cgi_status = done
        /\ u.r.logline = w.r.logline /\ u.r.uri = w.r.uri /\ u.r.data_fd = fd
    <2>1. /\ Heads(w) /\ w.r.simple # "yes" /\ Listed(d) /\ Merges(w, d, done, u)
          /\ Len(send_r_request_ok(w.r).buf) + Len(d) <= BUFFER_SIZE
      BY <1>1
    <2>2. /\ Speaks(u) /\ Around(w, u) /\ u.n = w.n /\ Said(u.r) = <<OkHeader(w.r)>> \o d
          /\ u.r.got = <<>> /\ u.r.status = w.r.status /\ u.r.response_status = 200
          /\ u.r.keepalive = w.r.keepalive /\ u.r.data = <<>> /\ u.r.off \in Nat
          /\ u.r.off <= BUFFER_SIZE /\ u.r.cgi_status = done /\ u.r.logline = w.r.logline
          /\ u.r.method = w.r.method /\ u.r.uri = w.r.uri /\ u.r.data_fd = w.r.data_fd
      BY ONLY <2>1, Merged
    <2> QED BY <2>2
  <1>4. x.t \notin {"data", "page"}
    BY OkToken
  <1>5. /\ w.r.status \in Pipes /\ w.open[fd] = "pipe" /\ w.r.keepalive # "active"
        /\ done \in {"BUFFER", "DONE"}
        /\ done = "DONE" => w.src[fd].pipe = <<>> /\ w.src[fd].alive # "yes"
    BY DEF Heads
  <1> HIDE DEF x, c, o
  <1>6. Listed(a) /\ OneStatus(a) /\ DataCount(a) = DataCount(c) /\ \E m \in 0..Len(a) : Shaped(a, m)
    BY <1>1, <1>2, <1>4, HeaderInFront
  <1>7. Listed(h)
    BY OneToken
  <1> HIDE DEF h
  <1>8. (h \o d) \o o = a
    <2>1. Listed(h) /\ Listed(d) /\ Listed(o)
      BY <1>1, <1>7
    <2>2. (h \o d) \o o = h \o (d \o o)
      BY ONLY <2>1, ListedThree
    <2> QED BY <2>2 DEF c
  <1> HIDE DEF a
  <1>9. f = req_flush(u) /\ v = [f EXCEPT !.ret = 1]
    OBVIOUS
  <1> HIDE DEF f
  <1>10. /\ Speaks(f) /\ Around(u, f) /\ Alike(f.r, u.r) /\ f.r.keepalive = u.r.keepalive
         /\ \/ Said(f.r) = <<>> /\ f.r.status = "DEAD"
            \/ Said(f.r) = Said(u.r) /\ f.r.status = u.r.status
    <2>1. u.r.status # "DEAD"
      BY <1>3, <1>5 DEF Pipes
    <2> QED BY <1>3, <1>9, <2>1, FlushedSaid
  <1>11. Speaks(v) /\ Around(f, v) /\ v.r = f.r /\ v.ret = 1
    <2>1. Speaks(f) /\ v = [f EXCEPT !.ret = 1]
      BY <1>9, <1>10
    <2>2. Speaks(v) /\ Around(f, v) /\ v.r = f.r /\ v.n = f.n /\ v.ret = 1
      BY ONLY <2>1, SpeaksBack
    <2> QED BY <2>2
  <1>12. Around(w, v)
    BY <1>3, <1>10, <1>11, AroundTrans
  <1>13. v.open = w.open /\ v.src = w.src
    BY <1>1, <1>12 DEF Serves, Around
  <1>14. v.r.logline = w.r.logline /\ Spoken(v.r) /\ v.ret # 0
    BY <1>3, <1>10, <1>11 DEF Alike, Speaks
  <1>15. CASE Said(f.r) = <<>> /\ f.r.status = "DEAD"
    <2>1. Shaped(<<>>, 0) /\ OneStatus(<<>>)
      BY DEF Shaped, OneStatus
    <2> DEFINE z == 0
    <2>2. Spoken(v.r) /\ Shaped(Said(v.r), z) /\ OneStatus(Said(v.r)) /\ v.r.status = "DEAD"
      BY <1>11, <1>14, <1>15, <2>1
    <2> HIDE DEF z
    <2>3. Over(v.r, v.n, v.open, v.src)
      BY <2>2, DeadOver
    <2>4. Going(v.r, v.n, v.open, v.src)
      BY <2>2, <2>3, GoesOn
    <2> QED BY <1>1, <1>11, <1>12, <1>14, <2>4, AroundGoes
  <1>16. CASE Said(f.r) = Said(u.r) /\ f.r.status = u.r.status
    <2>1. /\ v.r.data = <<>> /\ v.r.off \in Nat /\ v.r.off <= BUFFER_SIZE /\ v.r.cgi_status = done
          /\ v.r.uri = w.r.uri /\ v.r.data_fd = fd /\ v.r.keepalive # "active"
          /\ v.r.status \in Pipes /\ Said(v.r) = h \o d
      BY <1>3, <1>5, <1>10, <1>11, <1>16 DEF Alike
    <2>2. Coming(v.r, w.src) = (h \o d) \o (<<>> \o o)
      BY <2>1 DEF Coming, o
    <2>3. <<>> \o o = o
      BY <1>1, ListedNone
    <2>4. Coming(v.r, w.src) = a
      BY <1>8, <2>2, <2>3
    <2>5. Listed(v.r.data) /\ v.r.off + Len(v.r.data) <= BUFFER_SIZE
      <3>1. BUFFER_SIZE \in Nat
        BY BoaAssumption
      <3>2. Listed(<<>>) /\ Len(<<>>) = 0
        BY DEF Listed
      <3> QED BY <2>1, <3>1, <3>2
    <2>6. DataCount(a) = DataCount(Site[v.r.uri].out)
      BY <1>1, <1>6, <2>1
    <2>7. Follows(v.r, v.n, v.open, v.src, a)
      BY <1>5, <1>6, <1>13, <2>1, <2>4, <2>5, <2>6 DEF Follows
    <2> QED BY <1>1, <1>11, <1>12, <1>14, <2>1, <2>7, FollowsOn
  <1> QED BY <1>10, <1>15, <1>16

\* The header of an output at whose end cgi_status is "DONE" already.
LEMMA HeadsAgain ==
    ASSUME NEW w, Heads(w), NEW u,
           u = [w EXCEPT !.r.cgi_status = IF @ = "DONE" THEN @ ELSE "BUFFER"]
    PROVE  Heads(u) /\ Around(w, u) /\ Alike(u.r, w.r) /\ u.n = w.n
  <1> DEFINE q == [w.r EXCEPT !.cgi_status = IF @ = "DONE" THEN @ ELSE "BUFFER"]
  <1>1. Serves(w) /\ Speaks(w) /\ Spoken(w.r) /\ Fields \subseteq DOMAIN w.r
        /\ w.r.cgi_status \in {"BUFFER", "DONE"} /\ {"open", "src"} \subseteq DOMAIN w
    BY DEF Heads, Serves, Speaks, Spoken
  <1>2. u = [w EXCEPT !.r = q]
    OBVIOUS
  <1>3. /\ DOMAIN q = DOMAIN w.r /\ q.cgi_status = w.r.cgi_status /\ q.data = w.r.data
        /\ q.data_fd = w.r.data_fd /\ q.filepos = w.r.filepos /\ q.filesize = w.r.filesize
        /\ q.is_cgi = w.r.is_cgi /\ q.logline = w.r.logline /\ q.method = w.r.method
        /\ q.off = w.r.off /\ q.simple = w.r.simple /\ q.uri = w.r.uri /\ q.got = w.r.got
        /\ q.buf = w.r.buf /\ q.start = w.r.start /\ q.keepalive = w.r.keepalive
        /\ q.status = w.r.status /\ q.response_status = w.r.response_status
    BY <1>1 DEF Fields
  <1> HIDE DEF q
  <1>4. Alike(q, w.r)
    BY <1>3 DEF Alike
  <1>5. Spoken(q)
    BY <1>1, <1>3 DEF Spoken
  <1>6. Speaks(u) /\ Around(w, u) /\ u.r = q /\ u.n = w.n
    <2>1. Speaks(w) /\ Spoken(q) /\ u = [w EXCEPT !.r = q]
      BY <1>1, <1>2, <1>5
    <2> QED BY ONLY <2>1, SpeaksSwap
  <1>7. u.open = w.open /\ u.src = w.src /\ {"open", "src"} \subseteq DOMAIN u
    BY <1>1, <1>6 DEF Around
  <1>8. Serves(u)
    BY <1>1, <1>6, <1>7 DEF Serves
  <1>9. Silent(q) /\ Said(q) = Said(w.r) /\ Coming(q, w.src) = Coming(w.r, w.src)
    BY <1>3 DEF Heads, Silent, Said, Coming
  <1>10. Heads(u)
    <2>1. /\ w.r.status \in Pipes /\ w.r.data_fd \in AllFds /\ w.open[w.r.data_fd] = "pipe"
          /\ w.r.keepalive # "active" /\ Listed(w.r.data) /\ w.r.off \in Nat
          /\ w.r.off + Len(w.r.data) <= BUFFER_SIZE
          /\ w.r.cgi_status = "DONE" =>
                w.src[w.r.data_fd].pipe = <<>> /\ w.src[w.r.data_fd].alive # "yes"
          /\ NoStatus(Coming(w.r, w.src))
          /\ DataCount(Coming(w.r, w.src)) = DataCount(Site[w.r.uri].out)
          /\ \E k : Shaped(Coming(w.r, w.src), k)
      BY DEF Heads
    <2> QED BY <1>1, <1>3, <1>6, <1>7, <1>8, <1>9, <2>1 DEF Heads
  <1> QED BY <1>4, <1>6, <1>10

\* What is done with a program's header.
HeaderHandled(w) ==
    LET r == w.r
        h == IF r.data = <<>> THEN "none" ELSE Head(r.data).t
        ok == send_r_request_ok(r)
        merged == IF r.method = "HEAD" THEN <<Head(r.data)>> ELSE r.data
        done == IF r.method = "HEAD" THEN "DONE" ELSE r.cgi_status IN
    IF h \notin {"type", "status", "url", "path"} THEN Refuse(w, 502)
    ELSE IF r.simple = "yes"
    THEN [w EXCEPT !.r.data = Tail(@), !.r.off = @ + 1, !.ret = 1]
    ELSE IF h = "status" THEN [w EXCEPT !.ret = 1]
    ELSE IF h \in {"url", "path"}
    THEN [send_r(w, IF h = "path" THEN 400 ELSE 302) EXCEPT !.r.status = "DONE", !.ret = 1]
    ELSE IF Len(ok.buf) + Len(merged) > BUFFER_SIZE
    THEN Refuse([w EXCEPT !.r = [ok EXCEPT !.buf = <<>>, !.start = 0,
                                           !.cgi_status = done]], 500)
    ELSE [req_flush([w EXCEPT !.r = [ok EXCEPT !.buf = @ \o merged,
                                               !.off = Len(ok.buf \o merged),
                                               !.data = <<>>,
                                               !.cgi_status = done]])
             EXCEPT !.ret = IF r.method = "HEAD" THEN 0 ELSE 1]

LEMMA HeaderHandledSaid ==
    ASSUME NEW w, Heads(w), NEW v, v = HeaderHandled(w)
    PROVE  Outcome(w, v)
  <1> DEFINE r == w.r
             d == r.data
             h == IF d = <<>> THEN "none" ELSE Head(d).t
             ok == send_r_request_ok(r)
             merged == IF r.method = "HEAD" THEN <<Head(d)>> ELSE d
             done == IF r.method = "HEAD" THEN "DONE" ELSE r.cgi_status
             code == IF h = "path" THEN 400 ELSE 302
             u == [w EXCEPT !.r = [ok EXCEPT !.buf = @ \o merged, !.off = Len(ok.buf \o merged),
                                             !.data = <<>>, !.cgi_status = done]]
             v1 == Refuse(w, 502)
             v2 == [w EXCEPT !.r.data = Tail(@), !.r.off = @ + 1, !.ret = 1]
             v3 == [w EXCEPT !.ret = 1]
             v4 == [send_r(w, code) EXCEPT !.r.status = "DONE", !.ret = 1]
             v5 == Refuse([w EXCEPT !.r = [ok EXCEPT !.buf = <<>>, !.start = 0,
                                                     !.cgi_status = done]], 500)
             v6 == [req_flush(u) EXCEPT !.ret = IF r.method = "HEAD" THEN 0 ELSE 1]
             fits == Len(ok.buf) + Len(merged) <= BUFFER_SIZE
  <1>1. Len(ok.buf) \in Int /\ Len(merged) \in Int /\ BUFFER_SIZE \in Int
    <2>1. Spoken(r) /\ Silent(r) /\ r.status # "DEAD" /\ Listed(d)
      BY HeadsParts DEF Heads, Pipes
    <2>2. Spoken(ok)
      BY <2>1, OkSaid
    <2>3. Len(ok.buf) \in Nat
      BY <2>2, SaidParts
    <2>4. Len(d) \in Nat
      BY <2>1 DEF Listed
    <2>5. Len(merged) \in Nat
      <3>1. Len(<<Head(d)>>) = 1
        OBVIOUS
      <3> QED BY <2>4, <3>1
    <2> QED BY <2>3, <2>5, BoaAssumption
  <1>2. (Len(ok.buf) + Len(merged) > BUFFER_SIZE) <=> ~fits
    <2> DEFINE a == Len(ok.buf)
               b == Len(merged)
    <2>1. a \in Int /\ b \in Int /\ BUFFER_SIZE \in Int
      BY <1>1
    <2> HIDE DEF a, b
    <2>2. (a + b > BUFFER_SIZE) <=> ~(a + b <= BUFFER_SIZE)
      BY <2>1
    <2> QED BY <2>2 DEF a, b
  <1>3. v = IF h \notin {"type", "status", "url", "path"} THEN v1
            ELSE IF r.simple = "yes" THEN v2
            ELSE IF h = "status" THEN v3
            ELSE IF h \in {"url", "path"} THEN v4
            ELSE IF Len(ok.buf) + Len(merged) > BUFFER_SIZE THEN v5
            ELSE v6
    BY DEF HeaderHandled
  <1>4. Outcome(w, v1)
    BY HeaderRefused
  <1>5. h \in {"type", "status", "url", "path"} => d # <<>> /\ Head(d).t \in ProgramHeaders
    BY DEF ProgramHeaders
  <1>6. ASSUME d # <<>>, Head(d).t \in ProgramHeaders
        PROVE  Outcome(w, v2)
    <2>1. w.r.data # <<>> /\ Head(w.r.data).t \in ProgramHeaders
      BY <1>6
    <2>2. v2 = [w EXCEPT !.r.data = Tail(@), !.r.off = @ + 1, !.ret = 1]
      OBVIOUS
    <2> HIDE DEF v2
    <2> QED BY <2>1, <2>2, HeaderLeftOut
  <1>7. Outcome(w, v3)
    <2>1. v3 = [w EXCEPT !.ret = 1]
      OBVIOUS
    <2> HIDE DEF v3
    <2> QED BY <2>1, HeaderAsIs
  <1>8. Outcome(w, v4)
    <2>1. code \in Int /\ code # 200
      OBVIOUS
    <2>2. v4 = [send_r(w, code) EXCEPT !.r.status = "DONE", !.ret = 1]
      OBVIOUS
    <2> HIDE DEF v4, code
    <2> QED BY <2>1, <2>2, HeaderLocation
  <1>9. Outcome(w, v5)
    <2>1. v5 = Refuse([w EXCEPT !.r = [send_r_request_ok(w.r) EXCEPT !.buf = <<>>, !.start = 0,
                                                                    !.cgi_status = done]], 500)
      OBVIOUS
    <2> HIDE DEF v5, done
    <2> QED BY <2>1, HeaderTooLong
  <1>10. ASSUME d # <<>>, Head(d).t \in ProgramHeaders, r.simple # "yes", fits, r.method = "HEAD"
         PROVE  Outcome(w, v6)
    <2> DEFINE x == Head(d)
    <2>1. x.t \in ProgramHeaders /\ w.r.simple # "yes" /\ w.r.method = "HEAD"
      BY <1>10
    <2>2. Len(send_r_request_ok(w.r).buf) + Len(<<x>>) <= BUFFER_SIZE
      BY <1>10
    <2>3. Merges(w, <<x>>, "DONE", u)
      BY <1>10 DEF Merges
    <2> HIDE DEF u
    <2>4. v6 = [req_flush(u) EXCEPT !.ret = 0]
      BY <1>10
    <2> HIDE DEF v6, x
    <2> QED BY <2>1, <2>2, <2>3, <2>4, HeaderOnly
  <1>11. ASSUME r.simple # "yes", fits, r.method # "HEAD"
         PROVE  Outcome(w, v6)
    <2> DEFINE e == w.r.data
               x == w.r.cgi_status
    <2>1. w.r.simple # "yes"
      BY <1>11
    <2>2. Len(send_r_request_ok(w.r).buf) + Len(e) <= BUFFER_SIZE
      BY <1>11
    <2>3. Merges(w, e, x, u)
      BY <1>11 DEF Merges
    <2> HIDE DEF u
    <2>4. v6 = [req_flush(u) EXCEPT !.ret = 1]
      BY <1>11
    <2>5. e = w.r.data /\ x = w.r.cgi_status
      OBVIOUS
    <2> HIDE DEF v6, x, e
    <2> QED BY <2>1, <2>2, <2>3, <2>4, <2>5, HeaderMerged
  <1> HIDE DEF v1, v2, v3, v4, v5, v6, fits
  <1> QED BY <1>2, <1>3, <1>4, <1>5, <1>6, <1>7, <1>8, <1>9, <1>10, <1>11, Zenon

\* process_cgi_header (cgi_header.c).
LEMMA ProcessHeaderSaid ==
    ASSUME NEW w, Heads(w), NEW v, v = process_cgi_header(w)
    PROVE  Outcome(w, v)
  <1> DEFINE u == [w EXCEPT !.r.cgi_status = IF @ = "DONE" THEN @ ELSE "BUFFER"]
  <1>1. v = HeaderHandled(u)
    BY DEF process_cgi_header, HeaderHandled
  <1>2. Heads(u) /\ Around(w, u) /\ Alike(u.r, w.r)
    <2>1. u = [w EXCEPT !.r.cgi_status = IF @ = "DONE" THEN @ ELSE "BUFFER"]
      OBVIOUS
    <2> HIDE DEF u
    <2> QED BY <2>1, HeadsAgain
  <1> HIDE DEF u
  <1>3. Outcome(u, v)
    BY <1>1, <1>2, HeaderHandledSaid
  <1>4. {"open", "src"} \subseteq DOMAIN w
    BY DEF Heads, Serves
  <1> QED BY <1>2, <1>3, <1>4, OutcomeAround

\* The same request, at another point of being copied.
Marks(r, q) ==
    /\ DOMAIN q = DOMAIN r /\ q.data = r.data /\ q.data_fd = r.data_fd /\ q.filesize = r.filesize
    /\ q.logline = r.logline /\ q.method = r.method /\ q.off = r.off /\ q.simple = r.simple
    /\ q.uri = r.uri /\ q.got = r.got /\ q.buf = r.buf /\ q.start = r.start
    /\ q.keepalive = r.keepalive /\ q.response_status = r.response_status /\ q.status \in Pipes

LEMMA MarksSaid ==
    ASSUME NEW r, Spoken(r), NEW q, Marks(r, q), NEW s
    PROVE  Spoken(q) /\ Said(q) = Said(r) /\ Coming(q, s) = Coming(r, s) /\ (Silent(r) => Silent(q))
  BY DEF Marks, Spoken, Said, Coming, Silent

\* The output of a program whose header has not been looked at.
LEMMA ParseHeads ==
    ASSUME NEW w, Copies(w), w.r.cgi_status = "PARSE", NEW q, Marks(w.r, q),
           q.cgi_status \in {"BUFFER", "DONE"},
           q.cgi_status = "DONE" => w.src[w.r.data_fd].pipe = <<>> /\ w.src[w.r.data_fd].alive # "yes",
           NEW u, u = [w EXCEPT !.r = q]
    PROVE  Heads(u) /\ Around(w, u) /\ u.r = q
  <1> DEFINE r == w.r
             c == Coming(r, w.src)
  <1>1. /\ Serves(w) /\ Speaks(w) /\ Spoken(r) /\ r.data_fd \in AllFds
        /\ Streamed(r, w.open, w.src) /\ {"open", "src"} \subseteq DOMAIN w
    BY DEF Copies, Serves, Speaks
  <1>2. w.open[r.data_fd] = "pipe" /\ Piped(r, w.src)
    BY <1>1 DEF Streamed, Filed
  <1>3. Spoken(q) /\ Said(q) = Said(r) /\ Coming(q, w.src) = c /\ (Silent(r) => Silent(q))
    BY <1>1, MarksSaid
  <1>4. /\ r.keepalive # "active" /\ DataCount(c) = DataCount(Site[r.uri].out)
        /\ (\E k \in 0..Len(c) : Shaped(c, k)) /\ Silent(r)
        /\ \A i \in 1..Len(c) : c[i].t \notin {"keep", "close"}
    BY <1>2 DEF Piped
  <1>5. Listed(r.data) /\ r.off \in Nat /\ r.off + Len(r.data) <= BUFFER_SIZE
    BY <1>1 DEF Streamed
  <1> HIDE DEF c
  <1>6. Speaks(u) /\ Around(w, u) /\ u.r = q /\ u.n = w.n
    <2>1. Speaks(w) /\ Spoken(q) /\ u = [w EXCEPT !.r = q]
      BY <1>1, <1>3
    <2> QED BY ONLY <2>1, SpeaksSwap
  <1>7. u.open = w.open /\ u.src = w.src /\ {"open", "src"} \subseteq DOMAIN u
    BY <1>1, <1>6 DEF Around
  <1>8. Serves(u)
    BY <1>1, <1>6, <1>7 DEF Serves
  <1>9. NoStatus(c)
    BY <1>4 DEF NoStatus
  <1>10. /\ q.data = r.data /\ q.data_fd = r.data_fd /\ q.off = r.off /\ q.keepalive = r.keepalive
         /\ q.status \in Pipes /\ q.uri = r.uri
    BY DEF Marks
  <1>11. Heads(u)
    BY <1>1, <1>2, <1>3, <1>4, <1>5, <1>6, <1>7, <1>8, <1>9, <1>10 DEF Heads
  <1> QED BY <1>6, <1>11

\* From where a handler goes on with another one.
LEMMA OutcomeFrom ==
    ASSUME NEW w, NEW f, NEW v, {"open", "src"} \subseteq DOMAIN w, Around(w, f),
           f.r.logline = w.r.logline, f.r.data_fd = w.r.data_fd, Outcome(f, v)
    PROVE  Outcome(w, v)
  BY DEF Around, Outcome

LEMMA ParseSaid ==
    ASSUME NEW w, Copies(w), w.r.cgi_status = "PARSE", NEW q, Marks(w.r, q),
           q.cgi_status \in {"BUFFER", "DONE"},
           q.cgi_status = "DONE" => w.src[w.r.data_fd].pipe = <<>> /\ w.src[w.r.data_fd].alive # "yes",
           NEW u, u = [w EXCEPT !.r = q], NEW v, v = process_cgi_header(u)
    PROVE  Outcome(w, v)
  <1>1. Heads(u) /\ Around(w, u) /\ u.r = q
    BY ParseHeads
  <1>2. Outcome(u, v)
    BY <1>1, ProcessHeaderSaid
  <1>3. {"open", "src"} \subseteq DOMAIN w
    BY DEF Copies, Serves
  <1>4. u.r.logline = w.r.logline /\ u.r.data_fd = w.r.data_fd
    BY <1>1 DEF Marks
  <1> QED BY <1>1, <1>2, <1>3, <1>4, OutcomeFrom

\* A request whose header is out, or that needs none, changes from reading to writing.
LEMMA MarksOn ==
    ASSUME NEW w, Copies(w), w.r.cgi_status # "PARSE", NEW q, Marks(w.r, q), q.cgi_status # "PARSE",
           q.cgi_status = "DONE" => w.src[w.r.data_fd].pipe = <<>> /\ w.src[w.r.data_fd].alive # "yes",
           NEW x, x # 0, NEW v, v = [w EXCEPT !.r = q, !.ret = x]
    PROVE  Outcome(w, v)
  <1> DEFINE r == w.r
             u == [w EXCEPT !.r = q]
  <1>1. /\ Serves(w) /\ Speaks(w) /\ Spoken(r) /\ Streamed(r, w.open, w.src)
        /\ {"open", "src"} \subseteq DOMAIN w /\ SourcesListed(w.src)
    BY DEF Copies, Serves, Speaks
  <1>2. Spoken(q) /\ Said(q) = Said(r) /\ Coming(q, w.src) = Coming(r, w.src)
    BY <1>1, MarksSaid
  <1>3. Speaks(u) /\ Around(w, u) /\ u.r = q /\ u.n = w.n
    <2>1. Speaks(w) /\ Spoken(q) /\ u = [w EXCEPT !.r = q]
      BY <1>1, <1>2
    <2> HIDE DEF u
    <2> QED BY ONLY <2>1, SpeaksSwap
  <1>4. v = [u EXCEPT !.ret = x]
    OBVIOUS
  <1> HIDE DEF u
  <1>5. Speaks(v) /\ Around(u, v) /\ v.r = u.r /\ v.n = u.n /\ v.ret = x
    <2>1. Speaks(u) /\ v = [u EXCEPT !.ret = x]
      BY <1>3, <1>4
    <2> QED BY ONLY <2>1, SpeaksBack
  <1>6. Around(w, v) /\ v.open = w.open /\ v.src = w.src
    BY <1>1, <1>3, <1>5, AroundTrans DEF Around
  <1>7. v.r = q /\ v.n = w.n
    BY <1>3, <1>5
  <1>8. Moves(w.r, w.src, w.n, v.r, v.src, v.n)
    BY <1>2, <1>6, <1>7 DEF Moves, Marks
  <1>9. Listed(v.r.data) /\ v.r.off \in Nat /\ v.r.off + Len(v.r.data) <= BUFFER_SIZE
    BY <1>1, <1>7 DEF Streamed, Marks
  <1>10. v.r.status \in Pipes /\ v.r.logline = w.r.logline /\ v.r.data_fd = w.r.data_fd
    BY <1>7 DEF Marks
  <1>11. SourcesListed(v.src) /\ \A g \in AllFds : v.src[g] = w.src[g]
    BY <1>1, <1>6
  <1>12. v.r.cgi_status # "PARSE" /\ (v.r.cgi_status = "DONE" =>
            v.src[v.r.data_fd].pipe = <<>> /\ v.src[v.r.data_fd].alive # "yes")
    BY <1>6, <1>7, <1>10
  <1> QED BY <1>5, <1>6, <1>8, <1>9, <1>10, <1>11, <1>12, CopiesOn

\* A piece is read from the pipe.
LEMMA PieceRead ==
    ASSUME NEW w, Copies(w), w.r.status = "PIPE_READ", NEW k \in Nat, k > 0,
           k <= Len(w.src[w.r.data_fd].pipe), w.r.off + Len(w.r.data) + k <= BUFFER_SIZE, NEW v,
           v = [w EXCEPT !.r.data = @ \o Take(w.src[w.r.data_fd].pipe, k),
                         !.src[w.r.data_fd].pipe = Drop(@, k), !.ret = 1]
    PROVE  Outcome(w, v)
  <1> DEFINE r == w.r
             s == w.src
             fd == r.data_fd
             t == s[fd].pipe
             l == s[fd].left
             d == r.data
             q == [r EXCEPT !.data = @ \o Take(t, k)]
             e == [s[fd] EXCEPT !.pipe = Drop(@, k)]
             z == [s EXCEPT ![fd] = e]
  <1>1. /\ Serves(w) /\ Speaks(w) /\ Spoken(r) /\ r.buf = <<>> /\ fd \in AllFds
        /\ Streamed(r, w.open, s) /\ SourcesListed(s)
    BY DEF Copies, Serves, Speaks
  <1>2. {"n", "r", "ret", "open", "src"} \subseteq DOMAIN w /\ Fields \subseteq DOMAIN r
        /\ {"peer", "room"} \subseteq DOMAIN w.n /\ w.n.room \in Nat
    BY DEF Copies, Serves, Speaks, Spoken
  <1>3. {"alive", "left", "pipe"} \subseteq DOMAIN s[fd] /\ fd \in DOMAIN s /\ DOMAIN s = AllFds
    BY <1>1 DEF SourcesListed
  <1>4. v.r = q /\ v.src = z /\ v.n = w.n /\ v.open = w.open /\ v.ret = 1 /\ DOMAIN v = DOMAIN w
    BY <1>2
  <1>5. e.pipe = Drop(t, k) /\ e.left = l /\ e.alive = s[fd].alive /\ DOMAIN e = DOMAIN s[fd]
    BY <1>3
  <1>6. /\ DOMAIN q = DOMAIN r /\ q.data = d \o Take(t, k) /\ q.data_fd = fd /\ q.filesize = r.filesize
        /\ q.logline = r.logline /\ q.method = r.method /\ q.off = r.off /\ q.simple = r.simple
        /\ q.uri = r.uri /\ q.got = r.got /\ q.buf = r.buf /\ q.start = r.start
        /\ q.keepalive = r.keepalive /\ q.response_status = r.response_status
        /\ q.status = r.status /\ q.cgi_status = r.cgi_status
    BY <1>2 DEF Fields
  <1> HIDE DEF q, e
  <1>7. /\ Listed(t) /\ Listed(l) /\ Listed(d) /\ Listed(Said(r))
        /\ Coming(r, s) = Said(r) \o (d \o (t \o l))
    <2>1. Listed(d)
      BY <1>1 DEF Streamed
    <2> QED BY <1>1, <2>1, ComingParts
  <1>8. Len(t) \in Nat /\ Len(d) \in Nat
    <2>1. Listed(t) /\ Listed(d)
      BY <1>7
    <2> HIDE DEF t, d
    <2> QED BY <2>1 DEF Listed
  <1>9. k \in 0..Len(t)
    BY <1>8
  <1>10. /\ Halved(t, Take(t, k), Drop(t, k)) /\ Listed(Take(t, k)) /\ Listed(Drop(t, k))
         /\ Len(Take(t, k)) = k
    <2>1. Listed(t) /\ k \in 0..Len(t)
      BY <1>7, <1>9
    <2> HIDE DEF t
    <2> QED BY ONLY <2>1, Cut, ListedHalves
  <1>11. z[fd] = e /\ (\A g \in AllFds : g # fd => z[g] = s[g]) /\ SourcesListed(z)
    <2>1. Listed(e.pipe) /\ Listed(e.left) /\ {"alive", "left", "pipe"} \subseteq DOMAIN e
      BY <1>3, <1>5, <1>7, <1>10
    <2> HIDE DEF s, fd
    <2> QED BY <1>1, <2>1, SourceSet
  <1> DEFINE x == Take(t, k)
             y == Drop(t, k)
  <1>12. (d \o x) \o (y \o l) = d \o (t \o l)
    <2>1. Halved(t, x, y) /\ Listed(d) /\ Listed(l)
      BY <1>7, <1>10
    <2> HIDE DEF x, y, t, d, l
    <2> QED BY ONLY <2>1, MoveOut
  <1>13. q.data = d \o x /\ e.pipe = y /\ Listed(x) /\ Len(x) = k
    BY <1>5, <1>6, <1>10
  <1> HIDE DEF x, y
  <1>14. Said(q) = Said(r)
    BY <1>6 DEF Said
  <1>15. Coming(q, z) = Coming(r, s)
    <2>1. Coming(q, z) = Said(q) \o (q.data \o (z[fd].pipe \o z[fd].left))
      BY <1>6 DEF Coming
    <2>2. Coming(q, z) = Said(r) \o ((d \o x) \o (y \o l))
      BY <2>1, <1>5, <1>11, <1>13, <1>14
    <2> QED BY <2>2, <1>7, <1>12
  <1>16. Spoken(q)
    BY <1>1, <1>6 DEF Spoken
  <1>17. Listed(q.data) /\ q.off \in Nat /\ q.off + Len(q.data) <= BUFFER_SIZE
    <2>1. Listed(d \o x) /\ Len(d \o x) = Len(d) + k
      <3>1. Listed(d) /\ Listed(x)
        BY <1>7, <1>13
      <3> HIDE DEF d
      <3>2. Listed(d \o x) /\ Len(d \o x) = Len(d) + Len(x)
        BY <3>1, ListedJoin
      <3> QED BY <1>13, <3>2
    <2>2. r.off \in Nat /\ r.off + Len(d) + k <= BUFFER_SIZE /\ BUFFER_SIZE \in Nat
      BY <1>1, BoaAssumption DEF Streamed
    <2> DEFINE b == Len(d)
    <2>3. q.data = d \o x /\ Len(q.data) = b + k /\ r.off + b + k <= BUFFER_SIZE /\ b \in Nat /\ q.off = r.off
      BY <1>6, <1>8, <1>13, <2>1, <2>2
    <2> HIDE DEF b
    <2>4. q.off + Len(q.data) <= BUFFER_SIZE
      BY <2>2, <2>3
    <2> QED BY <2>1, <2>2, <2>3, <2>4
  <1>18. r.cgi_status # "DONE"
    <2>1. t # <<>>
      BY <1>8, <1>9
    <2> QED BY <1>1, <2>1 DEF Streamed
  <1>19. r.cgi_status = "PARSE" => Silent(q)
    <2>1. r.cgi_status = "PARSE" => Silent(r)
      BY <1>1 DEF Streamed, Piped, Filed
    <2> QED BY <1>6, <2>1 DEF Silent
  <1>20. Moves(r, s, w.n, q, z, w.n)
    BY <1>5, <1>6, <1>11, <1>14, <1>15, <1>19 DEF Moves
  <1>21. Speaks(v)
    BY <1>2, <1>4, <1>16 DEF Speaks
  <1>22. q.status \in Pipes /\ q.status # "PIPE_WRITE" /\ q.cgi_status # "DONE" /\ q.logline = r.logline
    BY <1>6, <1>18 DEF Pipes
  <1>23. /\ v.r.status \in Pipes /\ v.r.logline = w.r.logline /\ SourcesListed(v.src)
         /\ \A g \in AllFds : g # w.r.data_fd => v.src[g] = w.src[g]
         /\ v.open = w.open /\ v.ret # 0 /\ Moves(w.r, w.src, w.n, v.r, v.src, v.n)
    <2>1. v.r.status \in Pipes /\ v.r.logline = w.r.logline
      BY <1>4, <1>22
    <2>2. SourcesListed(v.src) /\ \A g \in AllFds : g # w.r.data_fd => v.src[g] = w.src[g]
      BY <1>4, <1>11
    <2>3. v.open = w.open /\ v.ret # 0
      BY <1>4
    <2>4. Moves(w.r, w.src, w.n, v.r, v.src, v.n)
      BY <1>4, <1>20
    <2> QED BY <2>1, <2>2, <2>3, <2>4
  <1>24. /\ Listed(v.r.data) /\ v.r.off \in Nat /\ v.r.off + Len(v.r.data) <= BUFFER_SIZE
         /\ v.r.status # "PIPE_WRITE" /\ v.r.cgi_status # "DONE"
    BY <1>4, <1>17, <1>22
  <1> HIDE DEF z, r, s, fd, t, l, d
  <1> QED BY <1>21, <1>23, <1>24, CopiesOn

\* read_from_pipe (pipe.c).
LEMMA ReadFromPipeSaid ==
    ASSUME NEW w, Copies(w), w.r.status = "PIPE_READ", NEW v, v = read_from_pipe(w)
    PROVE  Outcome(w, v)
  <1> DEFINE r == w.r
             s == w.src[r.data_fd]
             room == BUFFER_SIZE - (r.off + Len(r.data))
             k == Least(room, Len(s.pipe))
             q1 == [r EXCEPT !.cgi_status = "BUFFER"]
             q2 == [r EXCEPT !.status = "PIPE_WRITE"]
             q5 == [r EXCEPT !.status = "PIPE_WRITE", !.cgi_status = "DONE"]
             u1 == [w EXCEPT !.r = q1]
             u5 == [w EXCEPT !.r = q5]
             v1 == process_cgi_header(u1)
             v2 == [w EXCEPT !.r = q2, !.ret = 1]
             v3 == [w EXCEPT !.r.data = @ \o Take(s.pipe, k), !.src[r.data_fd].pipe = Drop(@, k), !.ret = 1]
             v4 == [w EXCEPT !.ret = -1]
             v5 == process_cgi_header(u5)
             v6 == [w EXCEPT !.r = q5, !.ret = 1]
  <1>1. v = IF room = 0
            THEN (IF r.cgi_status = "PARSE" THEN v1 ELSE v2)
            ELSE IF k > 0 THEN v3
            ELSE IF s.alive = "yes" THEN v4
            ELSE IF r.cgi_status = "PARSE" THEN v5
            ELSE v6
    <2>1. u1 = [w EXCEPT !.r.cgi_status = "BUFFER"]
      OBVIOUS
    <2>2. v2 = [w EXCEPT !.r.status = "PIPE_WRITE", !.ret = 1]
      OBVIOUS
    <2>3. u5 = [w EXCEPT !.r.status = "PIPE_WRITE", !.r.cgi_status = "DONE"]
      OBVIOUS
    <2>4. v6 = [u5 EXCEPT !.ret = 1]
      OBVIOUS
    <2> HIDE DEF u1, v2, u5, v6
    <2> QED BY <2>1, <2>2, <2>3, <2>4 DEF read_from_pipe
  <1>2. /\ Spoken(r) /\ Streamed(r, w.open, w.src) /\ SourcesListed(w.src) /\ r.data_fd \in AllFds
        /\ Fields \subseteq DOMAIN r
    BY DEF Copies, Serves, Speaks, Spoken
  <1>3. Listed(s.pipe) /\ Len(s.pipe) \in Nat
    <2>1. Listed(s.pipe)
      BY <1>2 DEF SourcesListed
    <2> QED BY <2>1 DEF Listed
  <1>4. room \in Nat /\ r.off + Len(r.data) + room = BUFFER_SIZE
    <2>1. Listed(r.data) /\ r.off \in Nat /\ r.off + Len(r.data) <= BUFFER_SIZE
      BY <1>2 DEF Streamed
    <2>2. Len(r.data) \in Nat /\ BUFFER_SIZE \in Nat
      BY <2>1, BoaAssumption DEF Listed
    <2> DEFINE a == Len(r.data)
    <2>3. a \in Nat /\ r.off \in Nat /\ r.off + a <= BUFFER_SIZE /\ room = BUFFER_SIZE - (r.off + a)
      BY <2>1, <2>2
    <2> HIDE DEF a, room
    <2>4. room \in Nat /\ r.off + a + room = BUFFER_SIZE
      BY <2>2, <2>3
    <2> QED BY <2>4 DEF a
  <1> DEFINE m == Len(s.pipe)
  <1>5. k \in Nat /\ k <= m /\ k <= room /\ (k = 0 => room = 0 \/ m = 0)
    <2>1. m \in Nat /\ room \in Nat /\ k = Least(room, m)
      BY <1>3, <1>4
    <2> HIDE DEF k, m, room
    <2> QED BY <2>1 DEF Least
  <1>6. m = 0 => s.pipe = <<>>
    BY <1>3 DEF Listed
  <1>7. Marks(r, q1) /\ q1.cgi_status = "BUFFER"
    BY <1>2 DEF Marks, Fields, Pipes
  <1>8. Marks(r, q2) /\ q2.cgi_status = r.cgi_status
    BY <1>2 DEF Marks, Fields, Pipes
  <1>9. Marks(r, q5) /\ q5.cgi_status = "DONE"
    BY <1>2 DEF Marks, Fields, Pipes
  <1> HIDE DEF q1, q2, q5, k, m, room
  <1>10. ASSUME r.cgi_status = "PARSE"
         PROVE  Outcome(w, v1)
    <2>1. u1 = [w EXCEPT !.r = q1] /\ v1 = process_cgi_header(u1)
      OBVIOUS
    <2> HIDE DEF u1, v1
    <2> QED BY <1>7, <1>10, <2>1, ParseSaid
  <1>11. ASSUME r.cgi_status # "PARSE"
         PROVE  Outcome(w, v2)
    <2> DEFINE x == 1
    <2>1. v2 = [w EXCEPT !.r = q2, !.ret = x] /\ x # 0
      OBVIOUS
    <2>2. r.cgi_status = "DONE" => s.pipe = <<>> /\ s.alive # "yes"
      BY <1>2 DEF Streamed
    <2> HIDE DEF v2, x
    <2> QED BY <1>8, <1>11, <2>1, <2>2, MarksOn
  <1>12. ASSUME k > 0
         PROVE  Outcome(w, v3)
    <2>1. k \in Nat /\ k <= Len(w.src[w.r.data_fd].pipe)
      BY <1>5 DEF m
    <2>2. w.r.off + Len(w.r.data) + k <= BUFFER_SIZE
      <3>1. r.off \in Nat /\ Listed(r.data) /\ BUFFER_SIZE \in Nat
        BY <1>2, BoaAssumption DEF Streamed
      <3>2. Len(r.data) \in Nat
        BY <3>1 DEF Listed
      <3> DEFINE a == Len(r.data)
      <3>3. a \in Nat /\ r.off + a + room = BUFFER_SIZE
        BY <1>4, <3>2
      <3> HIDE DEF a
      <3>4. r.off + a + k <= BUFFER_SIZE
        BY <1>4, <1>5, <3>1, <3>3
      <3> QED BY <3>4 DEF a
    <2>3. v3 = [w EXCEPT !.r.data = @ \o Take(w.src[w.r.data_fd].pipe, k),
                         !.src[w.r.data_fd].pipe = Drop(@, k), !.ret = 1]
      OBVIOUS
    <2> HIDE DEF v3
    <2> QED BY <1>12, <2>1, <2>2, <2>3, PieceRead
  <1>13. Outcome(w, v4)
    <2> DEFINE x == -1
    <2>1. v4 = [w EXCEPT !.ret = x] /\ x # 0
      OBVIOUS
    <2> HIDE DEF v4, x
    <2> QED BY <2>1, CopiesWait
  <1>14. ASSUME r.cgi_status = "PARSE", s.pipe = <<>>, s.alive # "yes"
         PROVE  Outcome(w, v5)
    <2>1. u5 = [w EXCEPT !.r = q5] /\ v5 = process_cgi_header(u5)
      OBVIOUS
    <2> HIDE DEF u5, v5
    <2> QED BY <1>9, <1>14, <2>1, ParseSaid
  <1>15. ASSUME r.cgi_status # "PARSE", s.pipe = <<>>, s.alive # "yes"
         PROVE  Outcome(w, v6)
    <2> DEFINE x == 1
    <2>1. v6 = [w EXCEPT !.r = q5, !.ret = x] /\ x # 0
      OBVIOUS
    <2> HIDE DEF v6, x
    <2> QED BY <1>9, <1>15, <2>1, MarksOn
  <1>16. ASSUME room # 0, ~(k > 0)
         PROVE  s.pipe = <<>>
    BY <1>5, <1>6, <1>16
  <1> HIDE DEF v1, v2, v3, v4, v5, v6
  <1> QED BY <1>1, <1>10, <1>11, <1>12, <1>13, <1>14, <1>15, <1>16

-----------------------------------------------------------------------------
(* A request that is read says nothing, until its headers are complete.     *)

\* What a handler may do to descriptors and sources before it answers.
Leads(u, f) ==
    /\ f.src = u.src /\ f.r.data_fd = u.r.data_fd
    /\ u.r.logline = "yes" => f.r.logline = "yes"
    /\ \A g \in AllFds : u.open[g] # "free" => f.open[g] # "free"

\* One after the other.
LEMMA LeadsTrans ==
    ASSUME NEW u, NEW f, NEW v, Leads(u, f), Leads(f, v)
    PROVE  Leads(u, v)
  BY DEF Leads

\* An outcome after that.
LEMMA OutcomeLed ==
    ASSUME NEW u, NEW f, NEW v, Leads(u, f), Outcome(f, v)
    PROVE  Outcome(u, v)
  BY DEF Leads, Outcome

\* That an answer is complete does not depend on keeping the connection.
LEMMA OverSquash ==
    ASSUME NEW r, Spoken(r), NEW n, NEW fds, NEW s, NEW q, q = SQUASH_KA(r)
    PROVE  /\ Spoken(q) /\ q.logline = r.logline /\ q.data_fd = r.data_fd
           /\ Over(r, n, fds, s) => Over(q, n, fds, s)
           /\ Going(r, n, fds, s) => Going(q, n, fds, s)
  <1>1. /\ Reworded(q, r) /\ q.keepalive = "stopped" /\ q.response_status = r.response_status
        /\ q.status = r.status
    BY SpokenSquash
  <1>2. /\ Spoken(q) /\ Said(q) = Said(r) /\ Alike(q, r) /\ q.got = r.got /\ q.buf = r.buf
        /\ q.start = r.start
    BY <1>1 DEF Reworded
  <1>3. /\ q.cgi_status = r.cgi_status /\ q.data = r.data /\ q.data_fd = r.data_fd
        /\ q.filepos = r.filepos /\ q.filesize = r.filesize /\ q.logline = r.logline
        /\ q.method = r.method /\ q.off = r.off /\ q.simple = r.simple /\ q.uri = r.uri
    BY <1>2 DEF Alike
  <1>4. Over(r, n, fds, s) => Over(q, n, fds, s)
    <2> SUFFICES ASSUME Over(r, n, fds, s) PROVE Over(q, n, fds, s)
      OBVIOUS
    <2>1. /\ \E k \in 0..Len(Said(q)) : Shaped(Said(q), k)
          /\ OneStatus(Said(q)) \/ Forkless(q)
          /\ q.status \in Pipes /\ q.cgi_status # "PARSE" /\ q.response_status < 400 => q.data = <<>>
      BY <1>1, <1>2, <1>3 DEF Over, Forkless
    <2>2. q.response_status = 200 /\ q.status # "DEAD" /\ q.method # "HEAD" /\ n.peer # "reset" =>
            IF q.data_fd = -1 THEN DataCount(Said(q)) = q.filesize
            ELSE /\ q.status \in Pipes /\ q.buf = <<>>
                 /\ DataCount(Said(q)) =
                       IF fds[q.data_fd] = "pipe"
                       THEN DataCount(Site[q.uri].out) - DataCount(s[q.data_fd].left)
                       ELSE q.filesize
      BY <1>1, <1>2, <1>3 DEF Over
    <2> QED BY <1>1, <2>1, <2>2 DEF Over
  <1>5. Going(r, n, fds, s) => Going(q, n, fds, s)
    <2> SUFFICES ASSUME Going(r, n, fds, s) PROVE Going(q, n, fds, s)
      OBVIOUS
    <2>1. q.status \in Early => Unread(q)
      BY <1>1, <1>2, <1>3 DEF Going, Unread, Silent
    <2>2. q.status = "WRITE" => Mapped(q)
      BY <1>1, <1>2, <1>3 DEF Going, Mapped
    <2>3. q.status \in Pipes => Streamed(q, fds, s)
      <3> SUFFICES ASSUME q.status \in Pipes PROVE Streamed(q, fds, s)
        OBVIOUS
      <3>1. Streamed(r, fds, s)
        BY <1>1 DEF Going
      <3>2. Coming(q, s) = Coming(r, s)
        BY <1>2, <1>3 DEF Coming
      <3>3. Piped(r, s) => Piped(q, s)
        BY <1>1, <1>2, <1>3, <3>2 DEF Piped, Silent
      <3>4. Filed(r, s) => Filed(q, s)
        BY <1>1, <1>2, <1>3, <3>2 DEF Filed
      <3> QED BY <1>1, <1>3, <3>1, <3>2, <3>3, <3>4 DEF Streamed
    <2>4. q.status \in {"DONE", "DEAD"} => Over(q, n, fds, s)
      BY <1>1, <1>4 DEF Going
    <2> QED BY <1>1, <2>1, <2>2, <2>3, <2>4 DEF Going
  <1> QED BY <1>2, <1>3, <1>4, <1>5

\* The same of an outcome.
LEMMA SquashedOutcome ==
    ASSUME NEW u, NEW t, Outcome(u, t), {"n", "r", "ret", "open", "src"} \subseteq DOMAIN t,
           NEW v, v = [t EXCEPT !.r = SQUASH_KA(@)]
    PROVE  Outcome(u, v) /\ v.ret = t.ret
  <1> DEFINE q == SQUASH_KA(t.r)
  <1>1. /\ v.r = q /\ v.n = t.n /\ v.open = t.open /\ v.src = t.src /\ v.ret = t.ret
    OBVIOUS
  <1>2. Spoken(t.r)
    BY DEF Outcome
  <1>3. /\ Spoken(q) /\ q.logline = t.r.logline
        /\ Over(t.r, t.n, t.open, t.src) => Over(q, t.n, t.open, t.src)
        /\ Going(t.r, t.n, t.open, t.src) => Going(q, t.n, t.open, t.src)
    BY <1>2, OverSquash
  <1> HIDE DEF q
  <1> QED BY <1>1, <1>3 DEF Outcome

\* A request whose headers are read, or have just been.
Reads(w) ==
    /\ Serves(w) /\ Silent(w.r) /\ w.r.status \in Headers \cup {"BODY_READ"}
    /\ w.r.data_fd = -1 /\ w.r.filesize = 0 /\ w.r.filepos = 0

LEMMA ReadsParts ==
    ASSUME NEW w, Reads(w)
    PROVE  /\ Serves(w) /\ Speaks(w) /\ Spoken(w.r) /\ Silent(w.r) /\ Said(w.r) = <<>> /\ w.r.status \notin Pipes
           /\ {"n", "open", "r", "ret", "src"} \subseteq DOMAIN w /\ Fields \subseteq DOMAIN w.r
  <1>1. Serves(w) /\ Speaks(w) /\ Spoken(w.r) /\ Silent(w.r)
    BY DEF Reads, Serves, Speaks
  <1>2. Said(w.r) = <<>>
    BY <1>1, SaidParts
  <1>3. w.r.status \notin Pipes
    BY EarlyHeaders DEF Reads
  <1> QED BY <1>1, <1>2, <1>3 DEF Serves, Speaks, Spoken

\* translate_uri (alias.c) refuses, or leaves it to what follows.
LEMMA TranslateSaid ==
    ASSUME NEW w, Reads(w), NEW t, t = translate_uri(w)
    PROVE  \/ t.ret = 0 /\ Outcome(w, t)
           \/ t.ret = 1 /\ Reads(t) /\ Leads(w, t) /\ t.r.keepalive = w.r.keepalive
  <1> DEFINE s == Site[w.r.uri]
             go == [w EXCEPT !.ret = 1]
             script == [w EXCEPT !.r.is_cgi = IF w.r.simple = "yes" THEN "NPH" ELSE "CGI",
                                 !.ret = 1]
             moved == IF w.r.method = "POST" THEN 400 ELSE 302
  <1>1. t \in {Refuse(w, 404), Refuse(w, 403), Refuse(w, moved), Refuse(w, 400), go, script}
    <2>1. init_script_alias(w) \in {Refuse(w, 404), Refuse(w, 403), script}
      <3>1. init_script_alias(w) = CASE s.kind = "missing"   -> Refuse(w, 404)
                                     [] s.kind = "forbidden" -> Refuse(w, 403)
                                     [] OTHER                -> script
        BY Zenon DEF init_script_alias
      <3> HIDE DEF s, script
      <3>2. CASE s.kind \in {"missing", "forbidden"}
        BY <3>1, <3>2
      <3>3. CASE s.kind \notin {"missing", "forbidden"}
        BY <3>1, <3>3
      <3> QED BY <3>2, <3>3
    <2>2. t = CASE s.via = "script"   -> init_script_alias(w)
                [] s.via = "redirect" -> Refuse(w, moved)
                [] s.via = "alias"    -> go
                [] OTHER              -> IF w.r.method = "POST" THEN Refuse(w, 400) ELSE go
      BY Zenon DEF translate_uri
    <2> HIDE DEF s, script, go, moved
    <2>3. CASE s.via = "script"
      BY <2>1, <2>2, <2>3
    <2>4. CASE s.via \in {"redirect", "alias"}
      BY <2>2, <2>4
    <2>5. CASE s.via \notin {"script", "redirect", "alias"}
      BY <2>2, <2>5
    <2> QED BY <2>3, <2>4, <2>5
  <1>2. /\ Serves(w) /\ Speaks(w) /\ Spoken(w.r) /\ Said(w.r) = <<>> /\ w.r.status \notin Pipes
        /\ {"n", "open", "r", "ret", "src"} \subseteq DOMAIN w /\ Fields \subseteq DOMAIN w.r
    BY ReadsParts
  <1>3. ASSUME NEW code \in Int, code # 200, t = Refuse(w, code)
        PROVE  t.ret = 0 /\ Outcome(w, t)
    <2>1. Outcome(w, t)
      BY ONLY <1>2, <1>3, RefusedAsIs
    <2>2. t.ret = 0
      <3>1. NoData(Said(w.r)) /\ (w.r.status \in Pipes => code >= 400) /\ Speaks(w)
        BY <1>2, OneToken
      <3> QED BY <1>2, <1>3, <3>1, RefusedOver
    <2> QED BY <2>1, <2>2
  <1>4. CASE t = go
    <2>1. /\ t.r = w.r /\ t.n = w.n /\ t.ret = 1 /\ t.open = w.open /\ t.src = w.src
          /\ DOMAIN t = DOMAIN w
      BY <1>2, <1>4
    <2> QED BY <2>1 DEF Reads, Serves, Speaks, Leads
  <1>5. CASE t = script
    <2> DEFINE kind == IF w.r.simple = "yes" THEN "NPH" ELSE "CGI"
               q == [w.r EXCEPT !.is_cgi = kind]
    <2>1. /\ t.r = q /\ t.n = w.n /\ t.ret = 1 /\ t.open = w.open /\ t.src = w.src
          /\ DOMAIN t = DOMAIN w
      BY <1>2, <1>5
    <2> HIDE DEF kind
    <2>2. /\ DOMAIN q = DOMAIN w.r /\ q.got = w.r.got /\ q.buf = w.r.buf /\ q.start = w.r.start
          /\ q.keepalive = w.r.keepalive /\ q.logline = w.r.logline /\ q.simple = w.r.simple
          /\ q.method = w.r.method /\ q.status = w.r.status /\ q.data_fd = w.r.data_fd
          /\ q.filesize = w.r.filesize /\ q.filepos = w.r.filepos
          /\ q.response_status = w.r.response_status
      BY <1>2 DEF Fields
    <2> HIDE DEF q
    <2>3. Spoken(q) /\ Silent(q)
      BY <1>2, <2>2 DEF Spoken, Silent, Reads
    <2>4. Serves(t)
      BY <1>2, <2>1, <2>3 DEF Serves, Speaks
    <2> QED BY <2>1, <2>2, <2>3, <2>4 DEF Reads, Leads
  <1>6. moved \in Int /\ moved # 200 /\ 404 \in Int /\ 404 # 200 /\ 403 \in Int /\ 403 # 200
        /\ 400 \in Int /\ 400 # 200
    OBVIOUS
  <1> HIDE DEF go, script, moved
  <1> DEFINE c1 == 404
             c2 == 403
             c3 == 400
  <1>7. c1 \in Int /\ c1 # 200 /\ c2 \in Int /\ c2 # 200 /\ c3 \in Int /\ c3 # 200
    BY <1>6
  <1>8. t \in {Refuse(w, c1), Refuse(w, c2), Refuse(w, moved), Refuse(w, c3), go, script}
    BY <1>1
  <1> HIDE DEF c1, c2, c3
  <1> QED BY <1>3, <1>4, <1>5, <1>6, <1>7, <1>8

\* A POST gets its temporary file, or is given up.
LEMMA PostSaid ==
    ASSUME NEW t, Reads(t), t.ret = 1, t.r.method = "POST", t.r.status \in {"BODY_READ", "ONE_LF"},
           NEW fault, NEW v, v = StartPost(t, fault)
    PROVE  \/ v.ret = 0 /\ Outcome(t, v)
           \/ v.ret = 1 /\ Reads(v) /\ Leads(t, v) /\ v.r.uri = t.r.uri
  <1> DEFINE p == t.r.post_data_fd
             lost == [f \in AllFds |-> IF f = p THEN "lost" ELSE t.open[f]]
             none == [t EXCEPT !.open = lost, !.r.post_data_fd = -1]
             fd == LowestFree(lost)
             some == [none EXCEPT !.open[fd] = "temp", !.r.post_data_fd = fd, !.r.temp = <<>>]
             Stay == Fields \ {"post_data_fd"}
  <1>1. v \in {GiveUp(none), some}
    BY Zenon DEF StartPost
  <1>2. /\ Serves(t) /\ Spoken(t.r) /\ Silent(t.r) /\ t.r.status \notin Pipes
        /\ {"n", "open", "r", "ret", "src"} \subseteq DOMAIN t /\ Fields \subseteq DOMAIN t.r
    BY ReadsParts
  <1>3. DOMAIN lost = AllFds /\ \A g \in AllFds : t.open[g] # "free" => lost[g] # "free"
    OBVIOUS
  <1> HIDE DEF p, lost, fd
  <1>4. /\ none.r = [t.r EXCEPT !.post_data_fd = -1] /\ none.n = t.n /\ none.src = t.src
        /\ none.open = lost /\ none.ret = t.ret /\ DOMAIN none = DOMAIN t
    BY <1>2
  <1> HIDE DEF none
  <1>5. /\ some.r = [none.r EXCEPT !.post_data_fd = fd, !.temp = <<>>] /\ some.n = t.n
        /\ some.src = t.src /\ some.open = [lost EXCEPT ![fd] = "temp"] /\ some.ret = t.ret
        /\ DOMAIN some = DOMAIN t
    BY <1>2, <1>4
  <1> HIDE DEF some
  <1>6. ASSUME NEW x, DOMAIN x = DOMAIN t, x.n = t.n, x.src = t.src, x.ret = t.ret,
               DOMAIN x.open = AllFds, \A g \in AllFds : t.open[g] # "free" => x.open[g] # "free",
               DOMAIN x.r = DOMAIN t.r, \A k \in Stay : x.r[k] = t.r[k]
        PROVE  Reads(x) /\ Leads(t, x) /\ x.ret = 1 /\ x.r.uri = t.r.uri
    <2> DEFINE q == x.r
    <2>1. /\ q.got = t.r.got /\ q.buf = t.r.buf /\ q.start = t.r.start
          /\ q.keepalive = t.r.keepalive /\ q.logline = t.r.logline /\ q.simple = t.r.simple
          /\ q.method = t.r.method /\ q.status = t.r.status /\ q.data_fd = t.r.data_fd
          /\ q.filesize = t.r.filesize /\ q.filepos = t.r.filepos /\ q.uri = t.r.uri
          /\ q.response_status = t.r.response_status
      BY <1>6 DEF Fields
    <2>2. Fields \subseteq DOMAIN q
      BY <1>2, <1>6
    <2> HIDE DEF q
    <2>3. Spoken(q) /\ Silent(q)
      BY <1>2, <2>1, <2>2 DEF Spoken, Silent
    <2>4. Serves(x)
      BY <1>2, <1>6, <2>3 DEF Serves, Speaks, q
    <2> QED BY <1>6, <2>1, <2>3, <2>4 DEF Reads, Leads, q
  <1>7. "post_data_fd" \notin Stay /\ "temp" \notin Stay /\ Stay \subseteq DOMAIN t.r
    BY <1>2 DEF Fields
  <1>8. Reads(none) /\ Leads(t, none) /\ none.ret = 1
    <2>1. DOMAIN none.r = DOMAIN t.r /\ \A k \in Stay : none.r[k] = t.r[k]
      BY <1>2, <1>4, <1>7
    <2> QED BY <1>3, <1>4, <1>6, <2>1
  <1>9. Reads(some) /\ Leads(t, some) /\ some.ret = 1 /\ some.r.uri = t.r.uri
    <2>1. DOMAIN some.r = DOMAIN t.r /\ \A k \in Stay : some.r[k] = t.r[k]
      BY <1>2, <1>4, <1>5, <1>7
    <2>2. DOMAIN some.open = AllFds /\ \A g \in AllFds : t.open[g] # "free" => some.open[g] # "free"
      BY <1>3, <1>5
    <2> QED BY <1>5, <1>6, <2>1, <2>2
  <1>10. CASE v = GiveUp(none)
    <2>1. /\ Serves(none) /\ Speaks(none) /\ Spoken(none.r) /\ Silent(none.r) /\ none.r.status \notin Pipes
      BY <1>8, ReadsParts
    <2>2. v = [none EXCEPT !.ret = 0]
      BY <1>10 DEF GiveUp
    <2>3. Speaks(v) /\ Around(none, v) /\ v.r = none.r /\ v.ret = 0
      BY <2>1, <2>2, SpeaksBack
    <2>7. Dropped(v.r, v.n)
      BY <1>2, <1>4, <2>3 DEF Dropped, Fields
    <2>4. Over(v.r, v.n, v.open, v.src)
      BY <2>1, <2>3, <2>7, SilentOver
    <2>5. Outcome(none, v)
      BY <2>1, <2>3, <2>4, AroundOutcome
    <2>6. Outcome(t, v)
      BY <1>8, <2>5, OutcomeLed
    <2> QED BY <2>3, <2>6
  <1> QED BY <1>1, <1>9, <1>10

\* Start: a POST is read on, everything else is answered.
Started(w, v) ==
    IF v.ret # 0 /\ v.r.method = "POST"
    THEN v.ret = 1 /\ Reads(v) /\ Leads(w, v) /\ v.r.uri \in DOMAIN Site
    ELSE Outcome(w, v)

LEMMA StartSaid ==
    ASSUME NEW w, NEW t, t.ret = 1, Reads(t), Leads(w, t), t.r.uri \in DOMAIN Site,
           t.r.status \in {"BODY_READ", "ONE_LF"}, NEW o0, NEW O, NEW c, Sound(t, o0, O, c), Bare(t.r),
           NEW fault, NEW v, v = Start(t, fault)
    PROVE  Started(w, v)
  <1> DEFINE begun == [t EXCEPT !.r.status = "WRITE"]
  <1>1. \/ t.r.method = "POST" /\ v = StartPost(t, fault)
        \/ t.r.method # "POST" /\ t.r.is_cgi # "no" /\ v = init_cgi(t, fault)
        \/ t.r.method # "POST" /\ t.r.is_cgi = "no" /\ v = init_get(begun, fault)
    <2> DEFINE last == [t EXCEPT !.r = SQUASH_KA(@)]
    <2>1. v = CASE t.ret = 0 -> last
                [] t.ret # 0 /\ t.r.method = "POST" -> StartPost(t, fault)
                [] t.ret # 0 /\ t.r.method # "POST" /\ t.r.is_cgi # "no" -> init_cgi(t, fault)
                [] OTHER -> init_get(begun, fault)
      BY Zenon DEF Start
    <2> HIDE DEF last, begun
    <2>2. t.ret # 0
      OBVIOUS
    <2>3. CASE t.r.method = "POST"
      BY <2>1, <2>2, <2>3
    <2>4. CASE t.r.method # "POST" /\ t.r.is_cgi # "no"
      BY <2>1, <2>2, <2>4
    <2>5. CASE t.r.method # "POST" /\ t.r.is_cgi = "no"
      BY <2>1, <2>2, <2>5
    <2> QED BY <2>3, <2>4, <2>5
  <1>2. /\ Serves(t) /\ Spoken(t.r) /\ Silent(t.r) /\ Said(t.r) = <<>> /\ t.r.status \notin Pipes
        /\ {"n", "open", "r", "ret", "src"} \subseteq DOMAIN t /\ Fields \subseteq DOMAIN t.r
    BY ReadsParts
  <1> HIDE DEF begun
  <1>3. CASE t.r.method = "POST" /\ v = StartPost(t, fault)
    <2>1. \/ v.ret = 0 /\ Outcome(t, v)
          \/ v.ret = 1 /\ Reads(v) /\ Leads(t, v) /\ v.r.uri = t.r.uri
      BY <1>3, PostSaid
    <2>2. v.r.method = "POST"
      <3>1. t.ret \in {0, 1}
        OBVIOUS
      <3>2. LET x == StartPost(t, fault) IN
            Good(t, x, o0, O, c) /\ Bare(x.r) /\ (x.ret # 0 => x.r.status = t.r.status)
        BY <3>1, PostSound
      <3> QED BY <1>3, <3>2 DEF Good
    <2>3. CASE v.ret = 0 /\ Outcome(t, v)
      <3>1. Outcome(w, v)
        BY <2>3, OutcomeLed
      <3> QED BY <2>3, <3>1 DEF Started
    <2>4. CASE v.ret = 1 /\ Reads(v) /\ Leads(t, v) /\ v.r.uri = t.r.uri
      <3>1. Leads(w, v)
        BY <2>4, LeadsTrans
      <3> QED BY <2>2, <2>4, <3>1 DEF Started
    <2> QED BY <2>1, <2>3, <2>4
  <1>4. CASE t.r.method # "POST" /\ t.r.is_cgi # "no" /\ v = init_cgi(t, fault)
    <2>1. v.r.method # "POST"
      <3>1. LET x == init_cgi(t, fault) IN
            Sound(x, o0, O, c) /\ x.r.method = t.r.method /\ x.ret \in {0, 1}
        BY CgiSound DEF Bare
      <3> QED BY <1>4, <3>1
    <2>2. t.r.response_status # 200 /\ NoData(Said(t.r))
      <3>1. t.r.response_status # 200
        BY <1>2 DEF Silent
      <3>2. NoData(<<>>)
        BY OneToken
      <3> QED BY <1>2, <3>1, <3>2
    <2>3. Outcome(t, v)
      BY ONLY <1>2, <1>4, <2>2, t.r.uri \in DOMAIN Site, CgiSaid
    <2>4. Outcome(w, v)
      BY <2>3, OutcomeLed
    <2> QED BY <2>1, <2>4 DEF Started
  <1>5. CASE t.r.method # "POST" /\ t.r.is_cgi = "no" /\ v = init_get(begun, fault)
    <2> DEFINE q == [t.r EXCEPT !.status = "WRITE"]
    <2>1. /\ begun.r = q /\ begun.n = t.n /\ begun.open = t.open /\ begun.src = t.src
          /\ begun.ret = t.ret /\ DOMAIN begun = DOMAIN t /\ begun = [t EXCEPT !.r = q]
      BY <1>2 DEF begun
    <2>2. Reworded(q, t.r) /\ q.response_status = t.r.response_status /\ q.status = "WRITE"
      BY <1>2, SpokenStatus
    <2> HIDE DEF q
    <2>3. Spoken(q) /\ Silent(q) /\ Alike(q, t.r)
      BY <1>2, <2>2 DEF Reworded, Silent
    <2>4. Serves(begun)
      BY <1>2, <2>1, <2>3 DEF Serves, Speaks
    <2>5. Fetches(begun) /\ begun.r.filesize = 0
      <3>1. /\ q.data_fd = -1 /\ q.filesize = 0 /\ q.filepos = 0 /\ q.is_cgi = "no"
            /\ q.method # "POST" /\ q.uri \in DOMAIN Site
        BY <1>5, <2>3 DEF Alike, Reads
      <3> QED BY <2>1, <2>2, <2>3, <2>4, <3>1 DEF Fetches
    <2>6. Outcome(begun, v)
      BY <1>5, <2>5, GetSaid
    <2>7. Leads(t, begun)
      BY <2>1, <2>3 DEF Leads, Alike
    <2>8. Outcome(w, v)
      BY <2>6, <2>7, LeadsTrans, OutcomeLed
    <2>9. v.r.method # "POST"
      <3>1. Near(t, begun) /\ begun.r.status \notin Early
        <4>1. "WRITE" \notin Pipes /\ "WRITE" \notin Early
          BY DEF Early, Headers, Pipes
        <4>2. HasParts(t)
          BY DEF Sound
        <4> QED BY <4>1, <4>2 DEF begun, Near, SameTables, HasParts, HasFields, SameHold, RequestTyped, NetTyped
      <3>2. Sound(begun, o0, O, c)
        BY <3>1, SoundNear
      <3>3. Bare(begun.r) /\ begun.r.uri \in DOMAIN Site
        <4>1. "WRITE" \notin Pipes
          BY DEF Pipes
        <4>2. SameHold(t.r, begun.r) /\ begun.r.status = "WRITE"
          BY <2>1, <2>2, <3>1 DEF Near
        <4> QED BY <2>5, <4>1, <4>2 DEF Bare, SameHold, Fetches
      <3>5. begun.r.method # "POST"
        BY <2>5 DEF Fetches
      <3>4. Good(begun, init_get(begun, fault), o0, O, c)
        BY <3>1, <3>2, <3>3, <3>5, GetSound
      <3> QED BY <1>5, <3>4, <3>5 DEF Good
    <2> QED BY <2>8, <2>9 DEF Started
  <1> QED BY <1>1, <1>3, <1>4, <1>5

\* process_header_end (request.c).
LEMMA EndSaid ==
    ASSUME NEW w, Reads(w), w.r.status \in {"BODY_READ", "ONE_LF"},
           NEW o0, NEW O, NEW c, Sound(w, o0, O, c), Bare(w.r),
           NEW fault, NEW v, v = process_header_end(w, fault)
    PROVE  Started(w, v)
  <1> DEFINE t == translate_uri(w)
  <1>1. \/ v = Refuse(w, 500) \/ v = Refuse(w, 400)
        \/ v = Start(t, fault) /\ w.r.uri \in DOMAIN Site
    BY DEF process_header_end
  <1>2. /\ Serves(w) /\ Speaks(w) /\ Spoken(w.r) /\ Said(w.r) = <<>> /\ w.r.status \notin Pipes
        /\ {"n", "open", "r", "ret", "src"} \subseteq DOMAIN w
    BY ReadsParts
  <1>3. ASSUME NEW code \in Int, code # 200, v = Refuse(w, code)
        PROVE  Started(w, v)
    <2>1. Outcome(w, v)
      BY ONLY <1>2, <1>3, RefusedAsIs
    <2>2. v.ret = 0
      <3>1. NoData(Said(w.r)) /\ (w.r.status \in Pipes => code >= 400) /\ Speaks(w)
        BY <1>2, OneToken
      <3> QED BY <1>2, <1>3, <3>1, RefusedOver
    <2> QED BY <2>1, <2>2 DEF Started
  <1>4. CASE v = Start(t, fault) /\ w.r.uri \in DOMAIN Site
    <2>1. HasParts(w)
      BY DEF Sound
    <2>2. Like(w, t) /\ t.ret \in {0, 1}
          /\ (t.ret # 0 => t.r.uri = w.r.uri /\ t.r.status = w.r.status)
      BY <2>1, TranslateLike, Zenon
    <2>3. \/ t.ret = 0 /\ Outcome(w, t)
          \/ t.ret = 1 /\ Reads(t) /\ Leads(w, t) /\ t.r.keepalive = w.r.keepalive
      BY TranslateSaid
    <2> HIDE DEF t
    <2>4. Sound(t, o0, O, c) /\ Bare(t.r)
      <3>1. Sound(t, o0, O, c)
        BY <2>2, SoundLike
      <3> QED BY <2>2, <3>1 DEF Like, Kin, SameHold, Bare
    <2>5. CASE t.ret = 0
      <3>1. v = [t EXCEPT !.r = SQUASH_KA(@)]
        BY <1>4, <2>5, Zenon DEF Start
      <3>2. {"n", "r", "ret", "open", "src"} \subseteq DOMAIN t
        BY <1>2, <2>2 DEF Like, SameTables
      <3>3. Outcome(w, t)
        BY <2>3, <2>5
      <3>4. Outcome(w, v) /\ v.ret = t.ret
        BY <3>1, <3>2, <3>3, SquashedOutcome
      <3> QED BY <2>5, <3>4 DEF Started
    <2>6. CASE t.ret # 0
      <3>1. t.ret = 1 /\ Reads(t) /\ Leads(w, t) /\ t.r.uri \in DOMAIN Site
        BY <1>4, <2>2, <2>3, <2>6
      <3>2. t.r.status \in {"BODY_READ", "ONE_LF"}
        BY <2>2, <2>6
      <3> QED BY <1>4, <2>4, <3>1, <3>2, StartSaid
    <2> QED BY <2>5, <2>6
  <1> DEFINE c1 == 500
             c2 == 400
  <1>5. c1 \in Int /\ c1 # 200 /\ c2 \in Int /\ c2 # 200
    OBVIOUS
  <1>6. \/ v = Refuse(w, c1) \/ v = Refuse(w, c2)
        \/ v = Start(t, fault) /\ w.r.uri \in DOMAIN Site
    BY <1>1
  <1> HIDE DEF c1, c2, t
  <1> QED BY <1>3, <1>4, <1>5, <1>6

\* A request that is read, with another record of it.
LEMMA ReadsAgain ==
    ASSUME NEW w, Reads(w), NEW q, Spoken(q), Silent(q), q.status \in Headers \cup {"BODY_READ"},
           q.data_fd = -1, q.filesize = 0, q.filepos = 0,
           w.r.logline = "yes" => q.logline = "yes", NEW v, v = [w EXCEPT !.r = q]
    PROVE  Reads(v) /\ Leads(w, v) /\ v.r = q /\ v.n = w.n /\ v.ret = w.ret
  <1>1. Serves(w) /\ {"n", "open", "r", "ret", "src"} \subseteq DOMAIN w
    BY ReadsParts
  <1>2. /\ v.r = q /\ v.n = w.n /\ v.ret = w.ret /\ v.open = w.open /\ v.src = w.src
        /\ DOMAIN v = DOMAIN w
    BY <1>1
  <1>3. Serves(v)
    BY <1>1, <1>2 DEF Serves, Speaks
  <1> QED BY <1>2, <1>3 DEF Reads, Leads

\* And with another return value.
LEMMA ReadsBack ==
    ASSUME NEW w, Reads(w), NEW x, NEW v, v = [w EXCEPT !.ret = x]
    PROVE  Reads(v) /\ Leads(w, v) /\ v.r = w.r /\ v.n = w.n /\ v.ret = x
  <1>1. Serves(w) /\ {"n", "open", "r", "ret", "src"} \subseteq DOMAIN w
    BY ReadsParts
  <1>2. /\ v.r = w.r /\ v.n = w.n /\ v.ret = x /\ v.open = w.open /\ v.src = w.src
        /\ DOMAIN v = DOMAIN w
    BY <1>1
  <1>3. Serves(v)
    BY <1>1, <1>2 DEF Serves, Speaks
  <1> QED BY <1>2, <1>3 DEF Reads, Leads

\* One that is given up, and one that is refused.
LEMMA ReadsNoMore ==
    ASSUME NEW w, Reads(w), NEW code \in Int, code # 200,
           NEW v, \/ v = Refuse(w, code)
                  \/ v = GiveUp(w) /\ (w.r.keepalive = "active" => Dropped(w.r, w.n))
    PROVE  v.ret = 0 /\ Outcome(w, v)
  <1>1. /\ Serves(w) /\ Speaks(w) /\ Spoken(w.r) /\ Said(w.r) = <<>> /\ Silent(w.r) /\ w.r.status \notin Pipes
    BY ReadsParts
  <1>2. CASE v = GiveUp(w) /\ (w.r.keepalive = "active" => Dropped(w.r, w.n))
    <2> DEFINE x == 0
    <2>1. v = [w EXCEPT !.ret = x] /\ Speaks(w)
      BY <1>1, <1>2 DEF GiveUp
    <2> HIDE DEF x
    <2>2. Speaks(v) /\ Around(w, v) /\ v.r = w.r /\ v.n = w.n /\ v.ret = x
      BY ONLY <2>1, SpeaksBack
    <2>3. Over(v.r, v.n, v.open, v.src)
      BY <1>1, <1>2, <2>2, SilentOver
    <2> QED BY <1>1, <2>2, <2>3, AroundOutcome DEF x
  <1>3. CASE v = Refuse(w, code)
    <2>1. Outcome(w, v)
      BY ONLY <1>1, <1>3, code \in Int, code # 200, RefusedAsIs
    <2>2. NoData(Said(w.r)) /\ (w.r.status \in Pipes => code >= 400)
      BY <1>1, OneToken
    <2>3. v.ret = 0
      BY <1>1, <1>3, <2>2, RefusedOver
    <2> QED BY <2>1, <2>3
  <1> QED BY <1>2, <1>3

\* What the end of the headers leaves is an outcome: a POST is read on.
LEMMA StartedOutcome ==
    ASSUME NEW w, NEW v, Started(w, v)
    PROVE  Outcome(w, v)
  <1>1. CASE v.ret # 0 /\ v.r.method = "POST"
    <2>1. Reads(v) /\ Leads(w, v) /\ v.r.uri \in DOMAIN Site
      BY <1>1 DEF Started
    <2>2. Serves(v) /\ Spoken(v.r) /\ Silent(v.r) /\ v.r.status \notin Pipes /\ v.r.status \in Early
      BY <2>1, ReadsParts, EarlyHeaders DEF Reads
    <2>3. Unread(v.r)
      BY <1>1, <2>1, <2>2 DEF Unread, Reads
    <2>4. Going(v.r, v.n, v.open, v.src)
      BY <2>2, <2>3, GoesOn
    <2> QED BY <1>1, <2>1, <2>2, <2>4 DEF Outcome, Leads, Serves
  <1>2. CASE ~(v.ret # 0 /\ v.r.method = "POST")
    BY <1>2 DEF Started
  <1> QED BY <1>1, <1>2

\* A POST whose headers are complete (read_header).
LEMMA BeginSaid ==
    ASSUME NEW w, Reads(w), w.r.method = "POST", w.r.uri \in DOMAIN Site, NEW v, v = PostBegin(w)
    PROVE  Outcome(w, v)
  <1> DEFINE r == [w.r EXCEPT !.status = "BODY_WRITE"]
             come == Drop(r.stream, r.parse_pos)
             part == Take(come, Least(Len(come), r.clen))
             q1 == [r EXCEPT !.data = come]
             q2 == [r EXCEPT !.filesize = r.clen, !.filepos = 0, !.data = part]
             bad == [w EXCEPT !.r = q1]
             on == [w EXCEPT !.r = q2, !.ret = 1]
  <1>1. v \in {Refuse(bad, 400), on}
    BY Zenon DEF PostBegin
  <1>2. /\ Serves(w) /\ Speaks(w) /\ Spoken(w.r) /\ Silent(w.r) /\ Said(w.r) = <<>>
        /\ {"n", "open", "r", "ret", "src"} \subseteq DOMAIN w /\ Fields \subseteq DOMAIN w.r
    BY ReadsParts
  <1> HIDE DEF come, part
  <1>3. /\ q1.got = w.r.got /\ q1.buf = w.r.buf /\ q1.start = w.r.start /\ DOMAIN q1 = DOMAIN w.r
        /\ q1.keepalive = w.r.keepalive /\ q1.logline = w.r.logline /\ q1.simple = w.r.simple
        /\ q1.method = w.r.method /\ q1.status = "BODY_WRITE"
    BY <1>2 DEF Fields
  <1>4. /\ q2.got = w.r.got /\ q2.buf = w.r.buf /\ q2.start = w.r.start /\ DOMAIN q2 = DOMAIN w.r
        /\ q2.keepalive = w.r.keepalive /\ q2.logline = w.r.logline /\ q2.simple = w.r.simple
        /\ q2.method = w.r.method /\ q2.status = "BODY_WRITE" /\ q2.uri = w.r.uri
        /\ q2.response_status = w.r.response_status
    BY <1>2 DEF Fields
  <1> HIDE DEF q1, q2
  <1>5. Spoken(q1) /\ Said(q1) = <<>>
    <2>1. Spoken(q1)
      BY <1>2, <1>3 DEF Spoken
    <2>2. Said(q1) = Said(w.r)
      BY <1>3 DEF Said
    <2> QED BY <1>2, <2>1, <2>2
  <1>6. Spoken(q2) /\ Silent(q2)
    BY <1>2, <1>4 DEF Spoken, Silent
  <1>7. CASE v = Refuse(bad, 400)
    <2> DEFINE code == 400
    <2>1. v = Refuse([w EXCEPT !.r = q1], code) /\ code \in Int /\ code # 200
      BY <1>7
    <2> HIDE DEF code
    <2>2. q1.status \notin Pipes
      BY <1>3, EarlyHeaders
    <2> QED BY ONLY <1>2, <1>3, <1>5, <2>1, <2>2, RefusedSilent
  <1>8. CASE v = on
    <2>1. /\ v.r = q2 /\ v.n = w.n /\ v.ret = 1 /\ v.open = w.open /\ v.src = w.src
          /\ DOMAIN v = DOMAIN w
      BY <1>2, <1>8
    <2>2. Unread(q2) /\ q2.status \in Early
      <3>1. "BODY_WRITE" \notin Headers /\ "BODY_WRITE" \in Early
        BY DEF Headers, Early
      <3> QED BY <1>4, <1>6, <3>1 DEF Unread
    <2>3. Going(v.r, v.n, v.open, v.src)
      BY <2>1, <2>2, GoesOn
    <2> QED BY <1>2, <1>4, <1>6, <2>1, <2>3 DEF Outcome, Serves
  <1> QED BY <1>1, <1>7, <1>8

\* After the headers.
LEMMA AfterEndSaid ==
    ASSUME NEW w, NEW e, Started(w, e), NEW v, v = AfterEnd(e)
    PROVE  Outcome(w, v)
  <1>1. CASE e.ret # 0 /\ e.r.method = "POST"
    <2>1. v = PostBegin(e) /\ Reads(e) /\ Leads(w, e) /\ e.r.uri \in DOMAIN Site
      BY <1>1 DEF AfterEnd, Started
    <2>2. Outcome(e, v)
      BY <1>1, <2>1, BeginSaid
    <2> QED BY <2>1, <2>2, OutcomeLed
  <1>2. CASE ~(e.ret # 0 /\ e.r.method = "POST")
    BY <1>2 DEF AfterEnd, Started
  <1> QED BY <1>1, <1>2

\* read_header between two tokens: it goes on, or is done.
Scans(u, w) ==
    IF w.ret = Go
    THEN /\ Reads(w) /\ Leads(u, w) /\ w.r.status \in Headers
         /\ w.r.simple = "yes" => w.r.method = "POST"
    ELSE Outcome(u, w)

\* A header line (process_option_line).
LEMMA OptionSaid ==
    ASSUME NEW w, Reads(w), w.ret = Go, w.r.status = "ONE_LF", w.r.logline = "yes",
           w.r.simple = "yes" => w.r.method = "POST",
           NEW line, NEW v, v = process_option_line(w, line)
    PROVE  Scans(w, v)
  <1> DEFINE r == w.r
             ka == IF line.t = "KEEP" THEN "active" ELSE "stopped"
             q1 == [r EXCEPT !.keepalive = ka]
             q2 == [r EXCEPT !.envs = @ + 1]
             q3 == [r EXCEPT !.clen = line.n]
             alive == [w EXCEPT !.r = q1]
             more == [w EXCEPT !.r = q2]
             long == [w EXCEPT !.r = q3]
  <1>1. v \in {alive, more, long, GiveUp(w)}
    <2> DEFINE a0 == [w EXCEPT !.r.keepalive = IF line.t = "KEEP" THEN "active" ELSE "stopped"]
               m0 == [w EXCEPT !.r = add_cgi_env(r)]
               l0 == [w EXCEPT !.r.clen = line.n]
               other == IF r.envs < CGI_ENV_MAX THEN m0 ELSE GiveUp(w)
    <2>1. v = CASE line.t \in {"KEEP", "CLOSE"} ->
                     IF ka_max > 0 /\ r.keepalive # "stopped" THEN a0 ELSE other
                [] line.t = "LENGTH" /\ r.clen = -1 -> l0
                [] line.t \in NoColon -> GiveUp(w)
                [] OTHER -> other
      BY Zenon DEF process_option_line
    <2>2. a0 = alive /\ m0 = more /\ l0 = long
      BY Zenon DEF add_cgi_env
    <2>3. other \in {m0, GiveUp(w)}
      BY Zenon
    <2> HIDE DEF alive, more, long, other, a0, m0, l0
    <2>4. CASE line.t \in {"KEEP", "CLOSE"}
      BY <2>1, <2>2, <2>3, <2>4
    <2>5. CASE line.t \notin {"KEEP", "CLOSE"} /\ (line.t = "LENGTH" \/ line.t \in NoColon)
      BY <2>1, <2>2, <2>3, <2>5
    <2>6. CASE line.t \notin {"KEEP", "CLOSE", "LENGTH"} \cup NoColon
      BY <2>1, <2>2, <2>3, <2>6
    <2> QED BY <2>4, <2>5, <2>6
  <1>2. /\ Spoken(r) /\ Silent(r) /\ Fields \subseteq DOMAIN r /\ r.status \in Headers
    BY ReadsParts DEF Headers
  <1> HIDE DEF ka
  <1>3. ASSUME NEW q, q \in {q1, q2, q3}
        PROVE  /\ q.got = r.got /\ q.buf = r.buf /\ q.start = r.start /\ DOMAIN q = DOMAIN r
               /\ q.logline = r.logline /\ q.simple = r.simple /\ q.method = r.method
               /\ q.status = r.status /\ q.data_fd = r.data_fd /\ q.filesize = r.filesize
               /\ q.filepos = r.filepos /\ q.response_status = r.response_status
    BY <1>2, <1>3 DEF Fields
  <1>4. ASSUME NEW q, q \in {q1, q2, q3}, v = [w EXCEPT !.r = q] PROVE Scans(w, v)
    <2>1. /\ q.got = r.got /\ q.buf = r.buf /\ q.start = r.start /\ DOMAIN q = DOMAIN r
          /\ q.logline = r.logline /\ q.simple = r.simple /\ q.method = r.method
          /\ q.status = r.status /\ q.data_fd = r.data_fd /\ q.filesize = r.filesize
          /\ q.filepos = r.filepos /\ q.response_status = r.response_status
      BY <1>3, <1>4
    <2>2. Spoken(q) /\ Silent(q)
      BY <1>2, <2>1 DEF Spoken, Silent
    <2>3. /\ q.status \in Headers \cup {"BODY_READ"} /\ q.data_fd = -1 /\ q.filesize = 0
          /\ q.filepos = 0 /\ (w.r.logline = "yes" => q.logline = "yes")
      BY <2>1 DEF Reads
    <2>4. Reads(v) /\ Leads(w, v) /\ v.r = q /\ v.n = w.n /\ v.ret = w.ret
      BY ONLY Reads(w), <1>4, <2>2, <2>3, ReadsAgain
    <2> QED BY <1>2, <2>1, <2>4 DEF Scans
  <1>5. CASE v = GiveUp(w)
    <2> DEFINE code == 400
    <2>1. code \in Int /\ code # 200 /\ Dropped(w.r, w.n)
      BY DEF Dropped
    <2> HIDE DEF code
    <2>2. v.ret = 0 /\ Outcome(w, v)
      BY <1>5, <2>1, ReadsNoMore
    <2> QED BY <2>2 DEF Scans, Go
  <1> HIDE DEF q1, q2, q3
  <1> QED BY <1>1, <1>4, <1>5

\* The request line (process_logline).
LEMMA LogSaid ==
    ASSUME NEW w, Reads(w), w.ret = Go, w.r.status \in Headers, w.r.logline = "no",
           NEW line, NEW v, v = process_logline(w, line)
    PROVE  \/ v.ret = 0 /\ Outcome(w, v)
           \/ /\ v.ret = Go /\ Reads(v) /\ Leads(w, v) /\ v.r.status = w.r.status
              /\ v.r.simple \in {"yes", "no"}
  <1> DEFINE r == [w.r EXCEPT !.logline = "yes"]
             method == CASE line.t \in {"GET", "GET09"}   -> "GET"
                         [] line.t \in {"POST", "POST09"} -> "POST"
                         [] line.t = "HEAD"               -> "HEAD"
                         [] OTHER                         -> "none"
             simple == IF line.t \in {"GET09", "POST09"} THEN "yes" ELSE "no"
             r1 == [r EXCEPT !.method = method, !.uri = line.n, !.simple = simple]
             bad == [w EXCEPT !.r = r]
             on == [w EXCEPT !.r = r1]
  <1>1. v \in {Refuse(bad, 501), on}
    BY Zenon DEF process_logline
  <1>2. Spoken(w.r) /\ Silent(w.r) /\ Fields \subseteq DOMAIN w.r
    BY ReadsParts
  <1>3. simple \in {"yes", "no"}
    OBVIOUS
  <1> HIDE DEF method, simple
  <1>4. /\ r.got = w.r.got /\ r.buf = w.r.buf /\ r.start = w.r.start /\ DOMAIN r = DOMAIN w.r
        /\ r.keepalive = w.r.keepalive /\ r.logline = "yes"
        /\ r.status = w.r.status /\ r.data_fd = w.r.data_fd /\ r.filesize = w.r.filesize
        /\ r.filepos = w.r.filepos /\ r.response_status = w.r.response_status
    BY <1>2 DEF Fields
  <1>5. /\ r1.got = w.r.got /\ r1.buf = w.r.buf /\ r1.start = w.r.start /\ DOMAIN r1 = DOMAIN w.r
        /\ r1.keepalive = w.r.keepalive /\ r1.logline = "yes" /\ r1.simple = simple
        /\ r1.status = w.r.status /\ r1.data_fd = w.r.data_fd /\ r1.filesize = w.r.filesize
        /\ r1.filepos = w.r.filepos /\ r1.response_status = w.r.response_status
    BY <1>2 DEF Fields
  <1> HIDE DEF r, r1
  <1>6. w.r.keepalive # "active"
    BY <1>2 DEF Spoken
  <1>7. Spoken(r) /\ Silent(r) /\ Spoken(r1) /\ Silent(r1)
    BY <1>2, <1>4, <1>5, <1>6 DEF Spoken, Silent
  <1>8. CASE v = on
    <2>1. /\ r1.status \in Headers \cup {"BODY_READ"} /\ r1.data_fd = -1 /\ r1.filesize = 0
          /\ r1.filepos = 0 /\ (w.r.logline = "yes" => r1.logline = "yes")
      BY <1>5 DEF Reads
    <2>2. Reads(v) /\ Leads(w, v) /\ v.r = r1 /\ v.n = w.n /\ v.ret = w.ret
      BY ONLY Reads(w), <1>7, <1>8, <2>1, ReadsAgain
    <2> QED BY <1>3, <1>5, <2>2
  <1>9. CASE v = Refuse(bad, 501)
    <2> DEFINE code == 501
    <2>1. code \in Int /\ code # 200 /\ v = Refuse(bad, code)
      BY <1>9
    <2> HIDE DEF code
    <2>2. /\ r.status \in Headers \cup {"BODY_READ"} /\ r.data_fd = -1 /\ r.filesize = 0
          /\ r.filepos = 0 /\ (w.r.logline = "yes" => r.logline = "yes")
      BY <1>4 DEF Reads
    <2>3. Reads(bad) /\ Leads(w, bad)
      BY ONLY Reads(w), <1>7, <2>2, ReadsAgain
    <2> HIDE DEF bad
    <2>4. v.ret = 0 /\ Outcome(bad, v)
      BY <2>1, <2>3, ReadsNoMore
    <2> QED BY <2>3, <2>4, OutcomeLed
  <1> QED BY <1>1, <1>8, <1>9

\* One token of the stream.
LEMMA ScanSaid ==
    ASSUME NEW u, NEW w, Scans(u, w), NEW o0, NEW O, NEW c, Scanning(w, o0, O, c),
           NEW tok \in Token, NEW fault, NEW v, v = Scan(w, tok, fault)
    PROVE  Scans(u, v)
  <1>1. CASE w.ret # Go
    BY <1>1, Zenon DEF Scan
  <1>2. CASE w.ret = Go
    <2> DEFINE s == HeaderStatus(w.r.status, tok.t)
               line == IF tok.t \in {"CR", "LF"} \/ w.r.line # NoLine THEN w.r.line ELSE tok
               pq == [w.r EXCEPT !.status = s, !.parse_pos = w.r.parse_pos + 1, !.line = line]
               p == [w EXCEPT !.r = pq]
               fq == [pq EXCEPT !.line = NoLine]
               fresh == [p EXCEPT !.r = fq]
               p1 == [p EXCEPT !.ret = 1]
               log == process_logline(fresh, line)
               option == process_option_line(fresh, line)
               end == process_header_end(p1, fault)
    <2>1. /\ Reads(w) /\ Leads(u, w) /\ w.r.status \in Headers
          /\ w.r.simple = "yes" => w.r.method = "POST"
      BY <1>2 DEF Scans
    <2>2. /\ HasParts(w) /\ HasFields(w.r) /\ Sound(w, o0, O, c) /\ Bare(w.r) /\ RequestTyped(w.r)
          /\ w.r.status \in Early
      <3>1. Sound(w, o0, O, c) /\ w.r.status \in Early
        BY <2>1, EarlyHeaders DEF Scanning
      <3>2. Bare(w.r)
        BY <3>1, SoundBare
      <3> QED BY <3>1, <3>2 DEF Sound, HasParts
    <2>3. /\ Spoken(w.r) /\ Silent(w.r) /\ Fields \subseteq DOMAIN w.r
          /\ {"n", "open", "r", "ret", "src"} \subseteq DOMAIN w
      BY <2>1, ReadsParts
    <2>4. \/ v = p /\ s # "BODY_READ"
          \/ v = option /\ s = "ONE_LF" /\ w.r.logline = "yes"
          \/ v = AfterFirst(log, line, fault) /\ s = "ONE_LF" /\ w.r.logline = "no"
          \/ v = AfterEnd(end) /\ s = "BODY_READ"
      <3> DEFINE p0 == [w EXCEPT !.r.status = s, !.r.parse_pos = @ + 1,
                                 !.r.line = IF tok.t \in {"CR", "LF"} \/ @ # NoLine THEN @ ELSE tok]
                 f0 == [p0 EXCEPT !.r.line = NoLine]
      <3>1. p0 = p /\ f0 = fresh /\ p0.r.line = line
        BY <2>2, <2>3 DEF HasFields
      <3>2. v = CASE w.ret # Go -> w
                  [] w.ret = Go /\ s = "ONE_LF" /\ w.r.logline = "yes" -> process_option_line(f0, p0.r.line)
                  [] w.ret = Go /\ s = "ONE_LF" /\ w.r.logline = "no" ->
                       AfterFirst(process_logline(f0, p0.r.line), p0.r.line, fault)
                  [] w.ret = Go /\ s = "BODY_READ" ->
                       AfterEnd(process_header_end([p0 EXCEPT !.ret = 1], fault))
                  [] OTHER -> p0
        BY Zenon DEF Scan
      <3> HIDE DEF p0, f0, p, fresh, s, line
      <3>3. v = CASE w.ret # Go -> w
                  [] w.ret = Go /\ s = "ONE_LF" /\ w.r.logline = "yes" -> option
                  [] w.ret = Go /\ s = "ONE_LF" /\ w.r.logline = "no" -> AfterFirst(log, line, fault)
                  [] w.ret = Go /\ s = "BODY_READ" -> AfterEnd(end)
                  [] OTHER -> p
        BY <3>1, <3>2
      <3> HIDE DEF log, option, end
      <3>4. CASE s = "ONE_LF" /\ w.r.logline = "yes"
        BY <1>2, <3>3, <3>4
      <3>5. CASE s = "ONE_LF" /\ w.r.logline = "no"
        BY <1>2, <3>3, <3>5
      <3>6. CASE s = "BODY_READ"
        BY <1>2, <3>3, <3>6
      <3>7. CASE s # "BODY_READ" /\ ~(s = "ONE_LF" /\ w.r.logline \in {"yes", "no"})
        BY <1>2, <3>3, <3>7
      <3> QED BY <3>4, <3>5, <3>6, <3>7
    <2>5. s \in Headers \cup {"BODY_READ"} /\ s \in Early
      BY <2>1, HeaderStep, EarlyHeaders
    <2>6. line \in Token /\ NoLine \in Token
      BY <2>2 DEF NoLine, Tok, Token, RequestTyped
    <2> HIDE DEF s, line
    <2>7. ASSUME NEW q, q \in {pq, fq}
          PROVE  /\ q.got = w.r.got /\ q.buf = w.r.buf /\ q.start = w.r.start /\ DOMAIN q = DOMAIN w.r
                 /\ q.keepalive = w.r.keepalive /\ q.logline = w.r.logline /\ q.simple = w.r.simple
                 /\ q.method = w.r.method /\ q.status = s /\ q.data_fd = w.r.data_fd
                 /\ q.filesize = w.r.filesize /\ q.filepos = w.r.filepos
                 /\ q.response_status = w.r.response_status
      BY <2>3, <2>7 DEF Fields
    <2>8. ASSUME NEW q, q \in {pq, fq}
          PROVE  /\ Spoken(q) /\ Silent(q) /\ q.status \in Headers \cup {"BODY_READ"}
                 /\ q.data_fd = -1 /\ q.filesize = 0 /\ q.filepos = 0
                 /\ q.simple = "yes" => q.method = "POST"
                 /\ w.r.logline = "yes" <=> q.logline = "yes"
                 /\ w.r.logline = "no" <=> q.logline = "no"
      <3>1. /\ q.got = w.r.got /\ q.buf = w.r.buf /\ q.start = w.r.start /\ DOMAIN q = DOMAIN w.r
            /\ q.keepalive = w.r.keepalive /\ q.logline = w.r.logline /\ q.simple = w.r.simple
            /\ q.method = w.r.method /\ q.status = s /\ q.data_fd = w.r.data_fd
            /\ q.filesize = w.r.filesize /\ q.filepos = w.r.filepos
            /\ q.response_status = w.r.response_status
        BY <2>7, <2>8
      <3>2. Spoken(q) /\ Silent(q)
        BY <2>3, <3>1 DEF Spoken, Silent
      <3> QED BY <2>1, <2>5, <3>1, <3>2 DEF Reads
    <2>9. Reads(p) /\ Leads(w, p) /\ p.r = pq /\ p.ret = Go /\ pq.status = s
      <3>1. /\ Spoken(pq) /\ Silent(pq) /\ pq.status \in Headers \cup {"BODY_READ"}
            /\ pq.data_fd = -1 /\ pq.filesize = 0 /\ pq.filepos = 0
            /\ w.r.logline = "yes" => pq.logline = "yes"
        BY <2>8
      <3>2. pq.status = s
        BY <2>7
      <3> HIDE DEF pq
      <3>3. Reads(p) /\ Leads(w, p) /\ p.r = pq /\ p.ret = w.ret
        BY ONLY <2>1, <3>1, ReadsAgain
      <3> QED BY <1>2, <3>2, <3>3
    <2>10. /\ fq.status = s /\ Spoken(fq) /\ Silent(fq) /\ fq.status \in Headers \cup {"BODY_READ"}
           /\ fq.data_fd = -1 /\ fq.filesize = 0 /\ fq.filepos = 0
           /\ fq.simple = "yes" => fq.method = "POST"
           /\ pq.logline = "yes" => fq.logline = "yes"
           /\ w.r.logline = "yes" <=> fq.logline = "yes"
           /\ w.r.logline = "no" <=> fq.logline = "no"
           /\ pq.simple = "yes" => pq.method = "POST"
      BY <2>7, <2>8
    <2>11. Near(w, p) /\ RequestTyped(pq)
      <3>1. RequestTyped(pq)
        BY <2>2, <2>5, <2>6 DEF RequestTyped, HasFields
      <3> QED BY <2>2, <2>5, <2>9, <3>1, EarlyHeaders DEF Near, SameTables, SameHold, HasParts, HasFields
    <2>12. Near(p, fresh) /\ Like(p, p1)
      <3>1. HasParts(p) /\ HasFields(pq)
        BY <2>2, <2>9 DEF HasParts, HasFields
      <3>2. SameHold(pq, fq) /\ fq.status = pq.status /\ (RequestTyped(pq) => RequestTyped(fq))
        BY <2>6, <3>1 DEF SameHold, HasFields, RequestTyped
      <3> HIDE DEF pq, fq
      <3>3. Near(p, fresh)
        BY <2>9, <3>1, <3>2 DEF Near, SameTables, HasParts
      <3> HIDE DEF p
      <3> QED BY <3>1, <3>3, Returned
    <2> HIDE DEF pq, fq
    <2>13. Reads(fresh) /\ Leads(p, fresh) /\ fresh.r = fq /\ fresh.ret = Go
      <3>1. p.r.logline = "yes" => fq.logline = "yes"
        BY <2>9, <2>10
      <3>2. Reads(p) /\ p.ret = Go
        BY <2>9
      <3> HIDE DEF p
      <3>3. Reads(fresh) /\ Leads(p, fresh) /\ fresh.r = fq /\ fresh.ret = p.ret
        BY ONLY <2>10, <3>1, <3>2, ReadsAgain
      <3> QED BY <3>2, <3>3
    <2>14. Reads(p1) /\ Leads(p, p1) /\ p1.r = p.r
      <3> DEFINE x == 1
      <3>1. Reads(p) /\ p1 = [p EXCEPT !.ret = x]
        BY <2>9
      <3> HIDE DEF x, p, p1
      <3> QED BY ONLY <3>1, ReadsBack
    <2> HIDE DEF p, fresh, p1
    <2>15. Sound(p, o0, O, c) /\ Bare(p.r) /\ HasParts(p)
      <3>1. Sound(p, o0, O, c) /\ Bare(p.r)
        BY <2>2, <2>11, EarlyStep
      <3> QED BY <3>1 DEF Sound
    <2>16. Sound(fresh, o0, O, c) /\ Bare(fresh.r) /\ HasParts(fresh) /\ Sound(p1, o0, O, c) /\ Bare(p1.r)
      <3>1. Sound(fresh, o0, O, c) /\ Bare(fresh.r)
        BY <2>12, <2>15, EarlyStep
      <3>2. Sound(p1, o0, O, c)
        BY <2>12, <2>15, SoundLike
      <3> QED BY <2>12, <2>15, <3>1, <3>2 DEF Sound, Like, Kin, SameHold, Bare
    <2>17. Leads(u, p) /\ Leads(u, fresh) /\ Leads(u, p1)
      BY <2>1, <2>9, <2>13, <2>14, LeadsTrans
    <2>18. CASE v = p /\ s # "BODY_READ"
      <3>1. s \in Headers
        BY <2>5, <2>18
      <3> QED BY <2>9, <2>10, <2>17, <2>18, <3>1 DEF Scans
    <2>19. ASSUME NEW x, NEW y, Reads(x), Leads(u, x), Scans(x, y) PROVE Scans(u, y)
      <3>1. y.ret = Go /\ Leads(x, y) => Leads(u, y)
        BY <2>19, LeadsTrans
      <3>2. y.ret # Go /\ Outcome(x, y) => Outcome(u, y)
        BY <2>19, OutcomeLed
      <3> QED BY <2>19, <3>1, <3>2 DEF Scans
    <2>20. CASE v = option /\ s = "ONE_LF" /\ w.r.logline = "yes"
      <3>1. /\ Reads(fresh) /\ fresh.ret = Go /\ fresh.r.status = "ONE_LF" /\ fresh.r.logline = "yes"
            /\ fresh.r.simple = "yes" => fresh.r.method = "POST"
        BY <2>10, <2>13, <2>20
      <3>2. Scans(fresh, v)
        BY ONLY <2>20, <3>1, OptionSaid
      <3> QED BY <2>17, <2>19, <3>1, <3>2
    <2>21. CASE v = AfterFirst(log, line, fault) /\ s = "ONE_LF" /\ w.r.logline = "no"
      <3>1. Reads(fresh) /\ fresh.ret = Go /\ fresh.r.status \in Headers /\ fresh.r.logline = "no"
        <4>1. "ONE_LF" \in Headers
          BY DEF Headers
        <4> QED BY <2>10, <2>13, <2>21, <4>1
      <3>2. Near(fresh, log) /\ log.ret \in {fresh.ret, 0} /\ (log.ret # 0 => log.r.status = fresh.r.status)
        BY <2>16, LogNear, Zenon
      <3>3. \/ log.ret = 0 /\ Outcome(fresh, log)
            \/ /\ log.ret = Go /\ Reads(log) /\ Leads(fresh, log) /\ log.r.status = fresh.r.status
               /\ log.r.simple \in {"yes", "no"}
        BY ONLY <3>1, LogSaid
      <3> HIDE DEF log
      <3>4. CASE log.ret = 0 /\ Outcome(fresh, log)
        <4>1. v = log
          BY <2>21, <3>4 DEF AfterFirst, Go
        <4>2. Outcome(u, log)
          BY <2>17, <3>4, OutcomeLed
        <4> QED BY <3>4, <4>1, <4>2 DEF Scans, Go
      <3>5. CASE /\ log.ret = Go /\ Reads(log) /\ Leads(fresh, log) /\ log.r.status = fresh.r.status
                 /\ log.r.simple \in {"yes", "no"}
        <4>1. Leads(u, log)
          BY <2>17, <3>5, LeadsTrans
        <4>2. CASE log.r.simple = "no"
          <5>1. v = log
            BY <2>21, <4>2 DEF AfterFirst
          <5> QED BY <3>1, <3>5, <4>1, <4>2, <5>1 DEF Scans
        <4>3. CASE log.r.simple = "yes"
          <5> DEFINE sq == [log.r EXCEPT !.line = line]
                     same == [log EXCEPT !.r = sq]
                     l1 == [same EXCEPT !.ret = 1]
                     y == 1
          <5>1. v = process_header_end(l1, fault)
            <6> DEFINE x == [log EXCEPT !.r.line = line]
            <6>1. v = process_header_end([x EXCEPT !.ret = 1], fault)
              BY <2>21, <3>5, <4>3 DEF AfterFirst
            <6>2. x = same
              OBVIOUS
            <6> QED BY <6>1, <6>2
          <5>11. Sound(log, o0, O, c) /\ Bare(log.r) /\ HasParts(log)
            <6>1. Sound(log, o0, O, c) /\ Bare(log.r)
              BY <2>16, <3>2, EarlyStep
            <6> QED BY <6>1 DEF Sound
          <5>12. /\ Spoken(log.r) /\ Silent(log.r) /\ Fields \subseteq DOMAIN log.r
                 /\ {"n", "open", "r", "ret", "src"} \subseteq DOMAIN log
            BY <3>5, ReadsParts
          <5>13. /\ sq.got = log.r.got /\ sq.buf = log.r.buf /\ sq.start = log.r.start
                 /\ DOMAIN sq = DOMAIN log.r /\ sq.keepalive = log.r.keepalive
                 /\ sq.logline = log.r.logline /\ sq.simple = log.r.simple
                 /\ sq.method = log.r.method /\ sq.status = log.r.status
                 /\ sq.data_fd = log.r.data_fd /\ sq.filesize = log.r.filesize
                 /\ sq.filepos = log.r.filepos /\ sq.response_status = log.r.response_status
            BY <5>12 DEF Fields
          <5>14. /\ RequestTyped(sq) /\ SameHold(log.r, sq)
            BY <2>6, <5>11 DEF Sound, HasParts, HasFields, SameHold, RequestTyped
          <5>15. same.r = sq /\ same.n = log.n /\ SameTables(log, same)
            BY <5>11 DEF HasParts, SameTables
          <5> HIDE DEF sq
          <5>16. Near(log, same)
            BY <5>11, <5>13, <5>14, <5>15 DEF Near, Sound
          <5>17. /\ Spoken(sq) /\ Silent(sq) /\ sq.status \in Headers \cup {"BODY_READ"}
                 /\ sq.data_fd = -1 /\ sq.filesize = 0 /\ sq.filepos = 0
                 /\ log.r.logline = "yes" => sq.logline = "yes"
            BY <3>5, <5>12, <5>13 DEF Spoken, Silent, Reads
          <5>18. Reads(same) /\ Leads(log, same) /\ same.ret = log.ret
            BY ONLY <3>5, <5>17, ReadsAgain
          <5> HIDE DEF same
          <5>2. Sound(same, o0, O, c) /\ Bare(same.r) /\ HasParts(same)
            <6>1. Sound(same, o0, O, c) /\ Bare(same.r)
              BY <5>11, <5>16, EarlyStep
            <6> QED BY <6>1 DEF Sound
          <5>3. Like(same, l1)
            BY <5>2, Returned
          <5>4. l1 = [same EXCEPT !.ret = y] /\ Reads(same)
            BY <5>18
          <5> HIDE DEF l1, y
          <5>19. Reads(l1) /\ Leads(same, l1) /\ l1.r = same.r
            BY ONLY <5>4, ReadsBack
          <5>5. Reads(l1) /\ Leads(log, l1) /\ l1.r.status \in {"BODY_READ", "ONE_LF"}
            <6>1. l1.r.status = "ONE_LF"
              BY <2>10, <2>13, <2>21, <3>5, <5>13, <5>15, <5>19
            <6> QED BY <5>18, <5>19, <6>1, LeadsTrans
          <5>6. Sound(l1, o0, O, c) /\ Bare(l1.r)
            <6>1. Sound(l1, o0, O, c)
              BY <5>2, <5>3, SoundLike
            <6> QED BY <5>2, <5>3, <6>1 DEF Like, Kin, SameHold, Bare
          <5>7. Started(l1, v)
            BY ONLY <5>1, <5>5, <5>6, EndSaid
          <5>8. Outcome(l1, v)
            BY <5>7, StartedOutcome
          <5>9. Outcome(u, v)
            BY <4>1, <5>5, <5>8, LeadsTrans, OutcomeLed
          <5>10. v.ret # Go
            <6>1. Good(l1, v, o0, O, c)
              BY <5>1, <5>6, EndSound, Zenon
            <6> QED BY <6>1 DEF Good, Go
          <5> QED BY <5>9, <5>10 DEF Scans
        <4> QED BY <3>5, <4>2, <4>3
      <3> QED BY <3>3, <3>4, <3>5
    <2>22. CASE v = AfterEnd(end) /\ s = "BODY_READ"
      <3>6. p1.r.status \in {"BODY_READ", "ONE_LF"}
        BY <2>9, <2>14, <2>22
      <3>1. Started(p1, end)
        BY ONLY <2>14, <2>16, <3>6, EndSaid
      <3>2. Good(p1, end, o0, O, c)
        BY <2>16, EndSound, Zenon
      <3>3. Scanning(v, o0, O, c) /\ v.ret # Go
        <4>1. /\ Good(p1, end, o0, O, c)
              /\ end.r.method = "POST" /\ end.ret # 0 => Bare(end.r) /\ end.r.status = p1.r.status
          BY <2>16, EndSound, Zenon
        <4>2. p1.r.status \in Early
          <5>1. p1.r.status \in Headers \cup {"BODY_READ"}
            BY <2>14 DEF Reads
          <5> QED BY <5>1, EarlyHeaders
        <4> HIDE DEF end
        <4>3. v.ret \in {0, 1} /\ Sound(v, o0, O, c)
          BY <2>22, <4>1, <4>2, BeginSound DEF AfterEnd, Good
        <4> QED BY <4>3 DEF Scanning, Go
      <3> HIDE DEF end
      <3>4. Outcome(p1, v)
        BY <2>22, <3>1, AfterEndSaid
      <3>5. Outcome(u, v)
        BY <2>17, <3>4, OutcomeLed
      <3> QED BY <3>3, <3>5 DEF Scans
    <2> QED BY <2>4, <2>18, <2>20, <2>21, <2>22
  <1> QED BY <1>1, <1>2

\* The whole loop, by induction over the tokens.
LEMMA ScannedSaid ==
    ASSUME NEW u, NEW w, Scans(u, w), NEW o0, NEW O, NEW c, Scanning(w, o0, O, c),
           NEW toks \in Seq(Token), NEW fault
    PROVE  Scans(u, Scanned(w, toks, fault)) /\ Scanning(Scanned(w, toks, fault), o0, O, c)
  <1>1. PICK at : /\ Scanned(w, toks, fault) = at[Len(toks)]
                  /\ at[0] = w
                  /\ \A k \in 1..Len(toks) : at[k] = Scan(at[k - 1], toks[k], fault)
    <2>1. Len(toks) \in Nat
      OBVIOUS
    <2>2. ScannedBy(w, toks, fault)
      BY <2>1, ScannedSteps
    <2> QED BY <2>2 DEF ScannedBy
  <1> DEFINE Both(x) == Scans(u, x) /\ Scanning(x, o0, O, c)
             S == {n \in Nat : n <= Len(toks) => Both(at[n])}
  <1>2. 0 \in S
    BY <1>1
  <1>3. ASSUME NEW n \in S PROVE n + 1 \in S
    <2> SUFFICES ASSUME n + 1 <= Len(toks) PROVE Both(at[n + 1])
      OBVIOUS
    <2>1. n \in Nat /\ n + 1 \in 1..Len(toks) /\ (n + 1) - 1 = n
      OBVIOUS
    <2>2. at[n + 1] = Scan(at[n], toks[n + 1], fault)
      BY <1>1, <2>1
    <2>3. Scans(u, at[n]) /\ Scanning(at[n], o0, O, c)
      BY <2>1
    <2>4. toks[n + 1] \in Token
      BY <2>1
    <2> QED BY <2>2, <2>3, <2>4, ScanSaid, ScanSound
  <1>4. Len(toks) \in S
    <2> HIDE DEF S
    <2> QED BY <1>2, <1>3, Induct
  <1>5. Both(at[Len(toks)])
    <2>1. Len(toks) \in Nat
      OBVIOUS
    <2> HIDE DEF Both
    <2> QED BY <1>4, <2>1
  <1> QED BY <1>1, <1>5

\* All that has come is parsed: read.
LEMMA MoreSaid ==
    ASSUME NEW w, Reads(w), w.r.status \in Headers, w.r.simple = "yes" => w.r.method = "POST",
           NEW v, v = ReadMore(w)
    PROVE  Outcome(w, v)
  <1> DEFINE r == w.r
             k == Least(CLIENT_STREAM_SIZE - Len(r.stream), Len(w.n.inq))
             q1 == [r EXCEPT !.status = "DEAD"]
             q2 == [r EXCEPT !.stream = r.stream \o Take(w.n.inq, k)]
             n2 == [w.n EXCEPT !.inq = Drop(w.n.inq, k)]
             dead == [w EXCEPT !.r.status = "DEAD"]
             on == [w EXCEPT !.r.stream = @ \o Take(w.n.inq, k), !.n.inq = Drop(@, k), !.ret = 1]
  <1>1. \/ v = GiveUp(dead)
        \/ v = [w EXCEPT !.ret = -1]
        \/ v = GiveUp(w) /\ w.n.peer # "open"
        \/ v = on
    BY Zenon DEF ReadMore
  <1>2. /\ Serves(w) /\ Speaks(w) /\ Spoken(r) /\ Silent(r)
        /\ {"n", "open", "r", "ret", "src"} \subseteq DOMAIN w /\ Fields \subseteq DOMAIN r
    BY ReadsParts
  <1>3. Unread(r) /\ r.status \in Early
    <2>1. "BODY_READ" \notin Headers /\ "BODY_WRITE" \notin Headers
      BY DEF Headers
    <2> QED BY <1>2, <2>1, EarlyHeaders DEF Unread, Reads
  <1>4. CASE v = GiveUp(dead)
    <2>1. /\ v.r = q1 /\ v.n = w.n /\ v.ret = 0 /\ v.open = w.open /\ v.src = w.src
      BY <1>2, <1>4 DEF GiveUp
    <2>2. Reworded(q1, r) /\ q1.status = "DEAD" /\ q1.response_status = r.response_status
      BY <1>2, SpokenStatus
    <2> HIDE DEF q1
    <2>3. Spoken(q1) /\ Silent(q1) /\ q1.logline = r.logline /\ q1.status \notin Pipes
      BY <1>2, <2>2 DEF Reworded, Silent, Alike, Pipes
    <2>4. Over(q1, v.n, v.open, v.src)
      BY <2>2, <2>3, SilentOver
    <2> QED BY <1>2, <2>1, <2>3, <2>4 DEF Outcome, Serves
  <1>5. CASE v = GiveUp(w) /\ w.n.peer # "open"
    <2> DEFINE code == 400
    <2>1. code \in Int /\ code # 200 /\ Dropped(w.r, w.n)
      BY <1>5 DEF Dropped
    <2> HIDE DEF code
    <2> QED BY <1>5, <2>1, ReadsNoMore
  <1>6. CASE v = [w EXCEPT !.ret = -1]
    <2>1. /\ v.r = r /\ v.n = w.n /\ v.ret = -1 /\ v.open = w.open /\ v.src = w.src
      BY <1>2, <1>6
    <2>2. Going(v.r, v.n, v.open, v.src)
      BY <1>3, <2>1, GoesOn
    <2> QED BY <1>2, <2>1, <2>2 DEF Outcome, Serves
  <1>7. CASE v = on
    <2> HIDE DEF k
    <2>1. /\ v.r = q2 /\ v.n = n2 /\ v.ret = 1 /\ v.open = w.open /\ v.src = w.src
      BY <1>2, <1>7
    <2>2. \A x \in Fields : q2[x] = r[x]
      <3>1. "stream" \notin Fields
        BY DEF Fields
      <3> QED BY <1>2, <3>1
    <2>3. DOMAIN q2 = DOMAIN r
      OBVIOUS
    <2> HIDE DEF q2
    <2>4. /\ q2.got = r.got /\ q2.buf = r.buf /\ q2.start = r.start
          /\ q2.keepalive = r.keepalive /\ q2.logline = r.logline /\ q2.simple = r.simple
          /\ q2.method = r.method /\ q2.status = r.status /\ q2.data_fd = r.data_fd
          /\ q2.filesize = r.filesize /\ q2.filepos = r.filepos /\ q2.uri = r.uri
          /\ q2.response_status = r.response_status
      BY <2>2 DEF Fields
    <2>5. Spoken(q2) /\ Unread(q2) /\ q2.status \in Early
      <3>1. Spoken(q2) /\ Silent(q2)
        BY <1>2, <2>3, <2>4 DEF Spoken, Silent
      <3> QED BY <1>3, <2>4, <3>1 DEF Unread
    <2>6. Going(v.r, v.n, v.open, v.src)
      BY <2>1, <2>5, GoesOn
    <2> QED BY <1>2, <2>1, <2>4, <2>5, <2>6 DEF Outcome, Serves
  <1> QED BY <1>1, <1>4, <1>5, <1>6, <1>7

\* read_header.
LEMMA ReadHeaderSaid ==
    ASSUME NEW w, Reads(w), w.r.status \in Headers, w.r.simple = "yes" => w.r.method = "POST",
           NEW o0, NEW O, NEW c, Sound(w, o0, O, c),
           NEW fault, NEW v, v = read_header(w, fault)
    PROVE  Outcome(w, v)
  <1> DEFINE g == [w EXCEPT !.ret = Go]
             toks == Drop(w.r.stream, w.r.parse_pos)
             u == Scanned(g, toks, fault)
  <1>1. Reads(g) /\ Leads(w, g) /\ g.r = w.r /\ g.ret = Go
    BY ReadsBack
  <1>2. Scans(w, g)
    BY <1>1 DEF Scans
  <1>3. Scanning(g, o0, O, c)
    <2>1. Like(w, g)
      BY Returned DEF Sound
    <2>2. Sound(g, o0, O, c)
      BY <2>1, SoundLike
    <2> QED BY <1>1, <2>2 DEF Scanning
  <1>4. toks \in Seq(Token)
    <2>1. /\ w.r.stream \in Seq(Token) /\ w.r.parse_pos \in Int /\ w.r.parse_pos >= 0
      BY DEF Sound, RequestTyped
    <2> QED BY <2>1, Pieces
  <1>5. v = AfterScan(u)
    BY DEF read_header
  <1> HIDE DEF g, toks
  <1>6. Scans(w, u)
    BY <1>2, <1>3, <1>4, ScannedSaid
  <1> HIDE DEF u
  <1>7. CASE u.ret # Go
    BY <1>5, <1>6, <1>7 DEF AfterScan, Scans
  <1>8. CASE u.ret = Go
    <2>1. /\ v = ReadMore(u) /\ Reads(u) /\ Leads(w, u) /\ u.r.status \in Headers
          /\ u.r.simple = "yes" => u.r.method = "POST"
      BY <1>5, <1>6, <1>8 DEF AfterScan, Scans
    <2>2. Outcome(u, v)
      BY ONLY <2>1, MoreSaid
    <2> QED BY <2>1, <2>2, OutcomeLed
  <1> QED BY <1>7, <1>8

\* A POST whose body is read and saved.
Saves(w) ==
    /\ Serves(w) /\ Unread(w.r) /\ w.r.status \in {"BODY_READ", "BODY_WRITE"} /\ w.r.data_fd = -1

\* What does not speak of the answer changes nothing of it.
SavedAs(w, v) ==
    /\ {"n", "open", "r", "ret", "src"} \subseteq DOMAIN v
    /\ v.open = w.open /\ v.src = w.src /\ DOMAIN v.n = DOMAIN w.n /\ v.n.room = w.n.room
    /\ v.r.status \in {"BODY_READ", "BODY_WRITE"} /\ DOMAIN v.r = DOMAIN w.r
    /\ \A x \in Fields \ {"status", "data", "filepos"} : v.r[x] = w.r[x]

LEMMA SavesAgain ==
    ASSUME NEW w, Saves(w), NEW v, SavedAs(w, v)
    PROVE  Saves(v) /\ Leads(w, v) /\ (v.ret # 0 => Outcome(w, v))
  <1>0. /\ {"n", "open", "r", "ret", "src"} \subseteq DOMAIN v
        /\ v.open = w.open /\ v.src = w.src /\ DOMAIN v.n = DOMAIN w.n /\ v.n.room = w.n.room
        /\ v.r.status \in {"BODY_READ", "BODY_WRITE"} /\ DOMAIN v.r = DOMAIN w.r
        /\ \A x \in Fields \ {"status", "data", "filepos"} : v.r[x] = w.r[x]
    BY DEF SavedAs
  <1> DEFINE r == w.r
             q == v.r
  <1>1. Serves(w) /\ Spoken(r) /\ Unread(r) /\ Silent(r) /\ Fields \subseteq DOMAIN r
    BY DEF Saves, Serves, Speaks, Spoken, Unread
  <1>2. /\ q.got = r.got /\ q.buf = r.buf /\ q.start = r.start
        /\ q.keepalive = r.keepalive /\ q.logline = r.logline /\ q.simple = r.simple
        /\ q.method = r.method /\ q.data_fd = r.data_fd
        /\ q.uri = r.uri /\ q.response_status = r.response_status
    BY <1>0 DEF Fields
  <1>3. DOMAIN q = DOMAIN r /\ q.status \in {"BODY_READ", "BODY_WRITE"}
    BY <1>0
  <1> HIDE DEF q
  <1>4. Spoken(q) /\ Silent(q)
    BY <1>1, <1>2, <1>3 DEF Spoken, Silent
  <1>5. Unread(q) /\ q.status \in Early
    <2>1. "BODY_READ" \notin Headers /\ "BODY_WRITE" \notin Headers
      BY DEF Headers
    <2>2. r.uri \in DOMAIN Site /\ (r.simple = "yes" => r.method = "POST")
      BY <1>1 DEF Unread, Saves
    <2> QED BY <1>2, <1>3, <1>4, <2>1, <2>2, EarlyHeaders DEF Unread
  <1>6. Serves(v)
    BY <1>0, <1>1, <1>4 DEF Serves, Speaks, q
  <1>7. Going(q, v.n, v.open, v.src)
    BY <1>5, GoesOn
  <1>8. Saves(v) /\ Leads(w, v)
    BY <1>0, <1>2, <1>3, <1>5, <1>6 DEF Saves, Leads, q
  <1>9. v.ret # 0 => Outcome(w, v)
    BY <1>0, <1>2, <1>4, <1>6, <1>7 DEF Outcome, Serves, q
  <1> QED BY <1>8, <1>9

\* One that is refused.
LEMMA SavesNoMore ==
    ASSUME NEW w, Saves(w), NEW code \in Int, code # 200, NEW v, v = Refuse(w, code)
    PROVE  Outcome(w, v)
  <1>1. Serves(w) /\ w.r.status \notin Pipes
    BY EarlyHeaders DEF Saves
  <1>2. Said(w.r) = <<>>
    BY SaidParts DEF Saves, Serves, Speaks, Unread
  <1> QED BY ONLY <1>1, <1>2, code \in Int, code # 200, v = Refuse(w, code), RefusedAsIs

\* read_body.
LEMMA BodySaid ==
    ASSUME NEW w, Saves(w), NEW v, v = read_body(w)
    PROVE  Outcome(w, v)
  <1> DEFINE r == w.r
             k == Least(Least(r.filesize - r.filepos, BUFFER_SIZE - Len(r.data)), Len(w.n.inq))
             full == [w EXCEPT !.r.status = "BODY_WRITE", !.ret = 1]
             waits == [w EXCEPT !.ret = -1]
             on == [w EXCEPT !.r.status = "BODY_WRITE", !.r.data = @ \o Take(w.n.inq, k),
                             !.n.inq = Drop(@, k), !.ret = 1]
  <1>1. v \in {full, on, waits, Refuse(w, 400), Refuse(w, 500)}
    <2> DEFINE rest == CASE w.n.peer = "open"  -> waits
                         [] w.n.peer = "fin"   -> Refuse(w, 400)
                         [] OTHER              -> Refuse(w, 500)
    <2>1. rest \in {waits, Refuse(w, 400), Refuse(w, 500)}
      <3>1. CASE w.n.peer = "open"
        BY <3>1
      <3>2. CASE w.n.peer = "fin"
        BY <3>2
      <3>3. CASE w.n.peer \notin {"open", "fin"}
        BY <3>3
      <3> QED BY <3>1, <3>2, <3>3
    <2>2. v \in {full, on, rest}
      BY Zenon DEF read_body
    <2> HIDE DEF rest, full, on, k, waits
    <2> QED BY <2>1, <2>2
  <1>2. {"n", "open", "r", "ret", "src"} \subseteq DOMAIN w /\ Fields \subseteq DOMAIN r
    BY DEF Saves, Serves, Speaks, Spoken
  <1> HIDE DEF k
  <1>3. CASE v = full
    <2>1. /\ {"n", "open", "r", "ret", "src"} \subseteq DOMAIN v /\ v.r = [r EXCEPT !.status = "BODY_WRITE"]
          /\ v.n = w.n /\ v.open = w.open /\ v.src = w.src /\ v.ret = 1
      BY <1>2, <1>3
    <2>2. /\ v.r.status = "BODY_WRITE" /\ DOMAIN v.r = DOMAIN r
          /\ \A x \in Fields \ {"status", "data", "filepos"} : v.r[x] = r[x]
      BY <1>2, <2>1 DEF Fields
    <2>9. SavedAs(w, v) /\ v.ret # 0
      BY <2>1, <2>2 DEF SavedAs
    <2> QED BY <2>9, SavesAgain
  <1>4. CASE v = on
    <2>1. /\ {"n", "open", "r", "ret", "src"} \subseteq DOMAIN v
          /\ v.r = [r EXCEPT !.status = "BODY_WRITE", !.data = @ \o Take(w.n.inq, k)]
          /\ v.n = [w.n EXCEPT !.inq = Drop(@, k)] /\ v.open = w.open /\ v.src = w.src /\ v.ret = 1
      BY <1>2, <1>4
    <2>2. /\ v.r.status = "BODY_WRITE" /\ DOMAIN v.r = DOMAIN r
      BY <1>2, <2>1 DEF Fields
    <2>3. \A x \in Fields \ {"status", "data", "filepos"} : v.r[x] = r[x]
      BY <1>2, <2>1
    <2>4. DOMAIN v.n = DOMAIN w.n /\ v.n.room = w.n.room
      BY <2>1 DEF Saves, Serves, Speaks
    <2>9. SavedAs(w, v) /\ v.ret # 0
      BY <2>1, <2>2, <2>3, <2>4 DEF SavedAs
    <2> QED BY <2>9, SavesAgain
  <1>5. CASE v = waits
    <2>1. /\ {"n", "open", "r", "ret", "src"} \subseteq DOMAIN v /\ v.r = r
          /\ v.n = w.n /\ v.open = w.open /\ v.src = w.src /\ v.ret = -1
      BY <1>2, <1>5
    <2>2. v.r.status \in {"BODY_READ", "BODY_WRITE"}
      BY <2>1 DEF Saves
    <2>9. SavedAs(w, v) /\ v.ret # 0
      BY <2>1, <2>2 DEF SavedAs
    <2> QED BY <2>9, SavesAgain
  <1>6. ASSUME NEW code \in Int, code # 200, v = Refuse(w, code) PROVE Outcome(w, v)
    BY <1>6, SavesNoMore
  <1> DEFINE c1 == 400
             c2 == 500
  <1>7. c1 \in Int /\ c1 # 200 /\ c2 \in Int /\ c2 # 200
    OBVIOUS
  <1>8. v \in {full, on, waits, Refuse(w, c1), Refuse(w, c2)}
    BY <1>1
  <1> HIDE DEF c1, c2, full, on, waits
  <1> QED BY <1>3, <1>4, <1>5, <1>6, <1>7, <1>8

\* write_body; the CGI program starts when all has been saved.
LEMMA SaveSaid ==
    ASSUME NEW w, Saves(w), NEW fault, NEW v, v = write_body(w, fault)
    PROVE  Outcome(w, v)
  <1> DEFINE r == w.r
             k == Least(Len(r.data), r.filesize - r.filepos)
             empty == [w EXCEPT !.r.data = <<>>]
             back == [empty EXCEPT !.r.status = "BODY_READ", !.ret = 1]
             on == [w EXCEPT !.r.filepos = @ + k, !.r.data = Drop(@, k),
                             !.r.temp = @ \o Take(r.data, k), !.ret = 1]
  <1>1. v \in {init_cgi(empty, fault), back, Refuse(w, 500), on}
    BY Zenon DEF write_body
  <1>2. {"n", "open", "r", "ret", "src"} \subseteq DOMAIN w /\ Fields \subseteq DOMAIN r
    BY DEF Saves, Serves, Speaks, Spoken
  <1>3. r.status \in {"BODY_READ", "BODY_WRITE"}
    BY DEF Saves
  <1> HIDE DEF k
  <1>4. /\ DOMAIN empty = DOMAIN w /\ empty.r = [r EXCEPT !.data = <<>>] /\ empty.n = w.n
        /\ empty.open = w.open /\ empty.src = w.src
    BY <1>2
  <1> HIDE DEF empty
  <1>5. CASE v = init_cgi(empty, fault)
    <2>1. /\ empty.r.status \in {"BODY_READ", "BODY_WRITE"} /\ DOMAIN empty.r = DOMAIN r
          /\ \A x \in Fields \ {"status", "data", "filepos"} : empty.r[x] = r[x]
      BY <1>2, <1>3, <1>4 DEF Fields
    <2>9. SavedAs(w, empty)
      BY <1>2, <1>4, <2>1 DEF SavedAs
    <2>2. Saves(empty) /\ Leads(w, empty)
      BY <2>9, SavesAgain
    <2>3. /\ Serves(empty) /\ Silent(empty.r) /\ empty.r.status \notin Pipes /\ empty.r.uri \in DOMAIN Site
          /\ empty.r.response_status # 200 /\ Spoken(empty.r)
      BY <2>2, EarlyHeaders DEF Saves, Unread, Silent, Serves, Speaks
    <2>4. Said(empty.r) = <<>>
      BY <2>3, SaidParts
    <2>5. NoData(Said(empty.r))
      <3>1. NoData(<<>>)
        BY OneToken
      <3> QED BY <2>4, <3>1
    <2>6. Outcome(empty, v)
      BY ONLY <1>5, <2>3, <2>4, <2>5, CgiSaid
    <2> QED BY <2>2, <2>6, OutcomeLed
  <1>6. CASE v = back
    <2>1. /\ {"n", "open", "r", "ret", "src"} \subseteq DOMAIN v
          /\ v.r = [r EXCEPT !.data = <<>>, !.status = "BODY_READ"]
          /\ v.n = w.n /\ v.open = w.open /\ v.src = w.src /\ v.ret = 1
      BY <1>2, <1>4, <1>6
    <2>2. /\ v.r.status = "BODY_READ" /\ DOMAIN v.r = DOMAIN r
      BY <1>2, <2>1 DEF Fields
    <2>3. \A x \in Fields \ {"status", "data", "filepos"} : v.r[x] = r[x]
      BY <1>2, <2>1
    <2>9. SavedAs(w, v) /\ v.ret # 0
      BY <2>1, <2>2, <2>3 DEF SavedAs
    <2> QED BY <2>9, SavesAgain
  <1>7. CASE v = on
    <2>1. /\ {"n", "open", "r", "ret", "src"} \subseteq DOMAIN v
          /\ v.r = [r EXCEPT !.filepos = @ + k, !.data = Drop(@, k), !.temp = @ \o Take(r.data, k)]
          /\ v.n = w.n /\ v.open = w.open /\ v.src = w.src /\ v.ret = 1
      BY <1>2, <1>7
    <2>2. v.r.status = r.status /\ DOMAIN v.r = DOMAIN r
      BY <1>2, <2>1 DEF Fields
    <2>3. \A x \in Fields \ {"status", "data", "filepos"} : v.r[x] = r[x]
      <3>1. "temp" \notin Fields
        BY DEF Fields
      <3> QED BY <1>2, <2>1, <3>1
    <2>9. SavedAs(w, v) /\ v.ret # 0
      BY <1>3, <2>1, <2>2, <2>3 DEF SavedAs
    <2> QED BY <2>9, SavesAgain
  <1>8. CASE v = Refuse(w, 500)
    <2> DEFINE code == 500
    <2>1. code \in Int /\ code # 200 /\ v = Refuse(w, code)
      BY <1>8
    <2> HIDE DEF code
    <2> QED BY <2>1, SavesNoMore
  <1> HIDE DEF back, on
  <1> QED BY <1>1, <1>5, <1>6, <1>7, <1>8

-----------------------------------------------------------------------------
(* Answers: the loop.                                                       *)

\* The shape of what has been said.
Formed(a, r) == (\E k : Shaped(a, k)) /\ (OneStatus(a) \/ Forkless(r))

\* A request at work, between two rounds.
Works(r, n, fds, s) ==
    /\ Spoken(r) /\ SourcesListed(s) /\ (r.status \in Pipes => r.data_fd \in AllFds)
    /\ Going(r, n, fds, s)

\* Whatever a request is at, what has been said for it has the right shape, and so has
\* what the client has got.
LEMMA GoingFormed ==
    ASSUME NEW r, NEW n, NEW fds, NEW s, Works(r, n, fds, s)
    PROVE  Formed(Said(r), r) /\ Formed(r.got, r)
  <1> DEFINE a == Said(r)
             d == Drop(r.buf, r.start)
  <1>1. Spoken(r) /\ SourcesListed(s) /\ Going(r, n, fds, s) /\ (r.status \in Pipes => r.data_fd \in AllFds)
    BY DEF Works
  <1>2. Listed(a) /\ Listed(r.got) /\ Listed(d) /\ (Silent(r) => a = <<>>) /\ a = r.got \o d
    BY <1>1, SaidParts DEF Said
  <1>3. Formed(a, r)
    <2>1. CASE r.status \in Early
      <3>1. a = <<>>
        BY <1>1, <1>2, <2>1 DEF Going, Unread
      <3>2. NoData(<<>>) /\ OneStatus(<<>>)
        BY OneToken
      <3>3. Listed(<<>>)
        BY ListedNew
      <3>4. \E k : Shaped(<<>>, k)
        BY <3>2, <3>3, ShapedNone
      <3> QED BY <3>1, <3>2, <3>4 DEF Formed
    <2>2. CASE r.status = "WRITE"
      <3>1. Mapped(r)
        BY <1>1, <2>2 DEF Going
      <3> QED BY <3>1 DEF Mapped, Formed
    <2>3. CASE r.status \in Pipes
      <3> DEFINE c == Coming(r, s)
                 o == r.data \o (s[r.data_fd].pipe \o s[r.data_fd].left)
      <3>1. Streamed(r, fds, s) /\ r.data_fd \in AllFds
        BY <1>1, <2>3 DEF Going
      <3>2. c = a \o o /\ Listed(o)
        BY <1>1, <3>1, ComingParts DEF Streamed
      <3>3. OneStatus(c) /\ \E k : Shaped(c, k)
        BY <3>1 DEF Streamed, Piped, Filed
      <3>4. OneStatus(a) /\ \E k : Shaped(a, k)
        <4> HIDE DEF a, o, c
        <4> QED BY <1>2, <3>2, <3>3, ShapedFront
      <3> QED BY <3>4 DEF Formed
    <2>4. CASE r.status \in {"DONE", "DEAD"}
      <3>1. Over(r, n, fds, s)
        BY <1>1, <2>4 DEF Going
      <3> QED BY <3>1 DEF Over, Formed
    <2>5. r.status \in Early \cup Pipes \cup {"WRITE", "DONE", "DEAD"}
      BY <1>1 DEF Going
    <2> QED BY <2>1, <2>2, <2>3, <2>4, <2>5, Zenon
  <1>4. Formed(r.got, r)
    <2> DEFINE g == r.got
    <2>1. Listed(g) /\ Listed(d) /\ a = g \o d
      BY <1>2
    <2> HIDE DEF g, d, a
    <2>2. (\E k : Shaped(a, k)) => \E k : Shaped(g, k)
      BY <2>1, ShapedFront
    <2>3. OneStatus(a) => OneStatus(g)
      BY <2>1, ShapedFront
    <2>4. Formed(g, r)
      BY <1>3, <2>2, <2>3 DEF Formed
    <2> QED BY <2>4 DEF g
  <1> QED BY <1>3, <1>4

\* A dead request, with what had been said of it.
LEMMA FormedDead ==
    ASSUME NEW r, NEW q, Spoken(q), q.status = "DEAD", q.uri = r.uri,
           q.response_status = r.response_status, Formed(Said(q), r), NEW n, NEW fds, NEW s
    PROVE  Over(q, n, fds, s)
  <1>1. PICK k : Shaped(Said(q), k)
    BY DEF Formed
  <1>2. OneStatus(Said(q)) \/ Forkless(q)
    BY DEF Formed, Forkless
  <1> QED BY <1>1, <1>2, DeadOver

\* A buffer of which a part has gone out: nothing else has changed.
LEMMA GoingFlushed ==
    ASSUME NEW r, NEW n, NEW fds, NEW s, Works(r, n, fds, s), NEW q, NEW m,
           Spoken(q), Said(q) = Said(r), Alike(q, r), q.keepalive = r.keepalive,
           q.response_status = r.response_status, q.status = r.status, m.peer = n.peer,
           r.buf # <<>> \/ r.status = "DONE", r.buf = <<>> => q.buf = <<>>
    PROVE  Going(q, m, fds, s)
  <1>1. Going(r, n, fds, s)
    BY DEF Works
  <1>2. /\ q.cgi_status = r.cgi_status /\ q.data = r.data /\ q.data_fd = r.data_fd
        /\ q.filepos = r.filepos /\ q.filesize = r.filesize /\ q.logline = r.logline
        /\ q.method = r.method /\ q.off = r.off /\ q.simple = r.simple /\ q.uri = r.uri
    BY DEF Alike
  <1>3. r.status \notin Early
    <2> SUFFICES ASSUME r.status \in Early PROVE FALSE
      OBVIOUS
    <2>1. r.buf = <<>>
      BY <1>1 DEF Going, Unread, Silent
    <2>2. "DONE" \notin Early
      BY DEF Early, Headers
    <2> QED BY <2>1, <2>2
  <1>4. CASE r.status = "WRITE"
    <2>1. Mapped(r)
      BY <1>1, <1>4 DEF Going
    <2>2. Mapped(q)
      BY <1>2, <2>1 DEF Mapped
    <2> QED BY <1>4, <2>2, GoesOn
  <1>5. CASE r.status \in Pipes
    <2>1. Streamed(r, fds, s) /\ r.buf # <<>>
      <3>1. "DONE" \notin Pipes
        BY DEF Pipes
      <3> QED BY <1>1, <1>5, <3>1 DEF Going
    <2>2. Coming(q, s) = Coming(r, s)
      BY <1>2 DEF Coming
    <2>3. ~Silent(r)
      BY <2>1 DEF Silent
    <2>4. Piped(r, s) => Piped(q, s)
      BY <1>2, <2>2, <2>3 DEF Piped
    <2>5. Filed(r, s) => Filed(q, s)
      BY <1>2, <2>2 DEF Filed
    <2>6. Streamed(q, fds, s)
      BY <1>2, <2>1, <2>2, <2>4, <2>5 DEF Streamed
    <2> QED BY <1>5, <2>6, GoesOn
  <1>6. CASE r.status = "DONE"
    <2>1. Over(r, n, fds, s) /\ r.status \notin Pipes
      BY <1>1, <1>6 DEF Going, Pipes
    <2>5. ASSUME q.keepalive = "active", ~Whole(q)
          PROVE  q.got = <<>> /\ q.buf = <<>> /\ Dropped(q, m)
      <3>1. r.got = <<>> /\ r.buf = <<>> /\ Dropped(r, n)
        BY <1>2, <1>6, <2>1, <2>5 DEF Over, Whole
      <3>2. m.peer = "reset"
        <4>1. "DONE" \notin Headers
          BY DEF Headers
        <4> QED BY <1>6, <3>1, <4>1 DEF Dropped
      <3>3. Spoken(r)
        BY DEF Works
      <3>4. Said(r) = <<>> /\ q.got = <<>>
        BY <3>1, <3>3, SaidParts
      <3> QED BY <3>1, <3>2, <3>4 DEF Dropped
    <2>2. /\ \E k \in 0..Len(Said(q)) : Shaped(Said(q), k)
          /\ OneStatus(Said(q)) \/ Forkless(q)
      BY <1>2, <2>1 DEF Over, Forkless
    <2>3. q.response_status = 200 /\ q.status # "DEAD" /\ q.method # "HEAD" /\ m.peer # "reset" =>
             q.data_fd = -1 /\ DataCount(Said(q)) = q.filesize
      BY <1>2, <2>1 DEF Over
    <2>4. Over(q, m, fds, s)
      BY <2>1, <2>2, <2>3, <2>5 DEF Over
    <2> QED BY <1>6, <2>4, GoesOn
  <1>7. CASE r.status = "DEAD"
    <2>1. Formed(Said(r), r)
      BY GoingFormed
    <2>2. Over(q, m, fds, s)
      BY <1>2, <1>7, <2>1, FormedDead
    <2> QED BY <1>7, <2>2, GoesOn
  <1> QED BY <1>1, <1>3, <1>4, <1>5, <1>6, <1>7 DEF Going

\* The record of a request at work.
Tends(w) == Serves(w) /\ Works(w.r, w.n, w.open, w.src)

\* What process_requests makes of a flush: the request dies with its client, or goes on, or
\* is done.
Ends(w, u, v) ==
    /\ u = req_flush(w)
    /\ u.ret = -2 => v = [u EXCEPT !.r.status = "DEAD", !.ret = 0]
    /\ u.ret # -2 => v \in {u, [u EXCEPT !.ret = 1]} /\ (v.ret = 0 => w.r.status = "DONE")

LEMMA EndsSaid ==
    ASSUME NEW w, Tends(w), w.r.status # "DEAD", w.r.buf # <<>> \/ w.r.status = "DONE",
           NEW u, NEW v, Ends(w, u, v)
    PROVE  Outcome(w, v)
  <1> DEFINE r == w.r
  <1>1. Serves(w) /\ Speaks(w) /\ Works(r, w.n, w.open, w.src) /\ u = req_flush(w)
        /\ {"open", "src"} \subseteq DOMAIN w
    BY DEF Tends, Serves, Ends
  <1>2. /\ Speaks(u) /\ Around(w, u) /\ Alike(u.r, r)
        /\ u.r.keepalive = r.keepalive /\ u.r.response_status = r.response_status
        /\ \/ u.r.status = "DEAD" /\ Said(u.r) = r.got /\ u.ret = -2
           \/ u.r.status = r.status /\ Said(u.r) = Said(r) /\ u.ret # -2
        /\ r.buf = <<>> => u.r.buf = <<>>
    BY <1>1, FlushedSaid, FlushEmpties
  <1>3. Spoken(u.r) /\ u.n.peer = w.n.peer /\ u.open = w.open /\ u.src = w.src
    BY <1>1, <1>2 DEF Speaks, Around
  <1>4. CASE u.ret = -2
    <2> DEFINE q == [u.r EXCEPT !.status = "DEAD"]
               a == [u EXCEPT !.r = q]
    <2>1. Reworded(q, u.r) /\ q.response_status = u.r.response_status /\ q.status = "DEAD"
      BY <1>3, SpokenStatus
    <2> HIDE DEF q
    <2>2. Spoken(q) /\ Said(q) = r.got /\ q.uri = r.uri /\ q.logline = r.logline
      BY <1>2, <1>4, <2>1 DEF Reworded, Alike
    <2>3. Speaks(a) /\ Around(u, a) /\ a.r = q
      <3>1. Speaks(u) /\ Spoken(q) /\ a = [u EXCEPT !.r = q]
        BY <1>2, <2>2
      <3> HIDE DEF a
      <3>2. Speaks(a) /\ Around(u, a) /\ a.r = q /\ a.n = u.n /\ a.ret = u.ret
        BY ONLY <3>1, SpeaksSwap
      <3> QED BY <3>2
    <2>4. v = [a EXCEPT !.ret = 0]
      <3>1. v = [u EXCEPT !.r.status = "DEAD", !.ret = 0]
        BY <1>4 DEF Ends
      <3>2. {"r", "ret"} \subseteq DOMAIN u
        BY <1>2 DEF Speaks
      <3> QED BY <3>1, <3>2 DEF q
    <2> HIDE DEF a
    <2>5. Speaks(v) /\ Around(a, v) /\ v.r = q /\ v.ret = 0
      <3>1. Speaks(a) /\ v = [a EXCEPT !.ret = 0]
        BY <2>3, <2>4
      <3>2. Speaks(v) /\ Around(a, v) /\ v.r = a.r /\ v.n = a.n /\ v.ret = 0
        BY ONLY <3>1, SpeaksBack
      <3> QED BY <2>3, <3>2
    <2>6. Formed(r.got, r)
      BY <1>1, GoingFormed
    <2>7. Over(v.r, v.n, v.open, v.src)
      <3>1. q.status = "DEAD" /\ q.response_status = r.response_status /\ Formed(Said(q), r)
        BY <1>2, <2>1, <2>2, <2>6
      <3> QED BY <2>2, <2>5, <3>1, FormedDead
    <2>8. Around(w, v) /\ v.r.logline = r.logline
      BY <1>2, <2>2, <2>3, <2>5, AroundTrans
    <2> QED BY <1>1, <2>5, <2>7, <2>8, AroundOutcome
  <1>5. CASE u.ret # -2
    <2>1. v \in {u, [u EXCEPT !.ret = 1]} /\ (v.ret = 0 => r.status = "DONE")
      BY <1>5 DEF Ends
    <2>2. Speaks(v) /\ Around(u, v) /\ v.r = u.r
      <3>1. CASE v = u
        BY <1>2, <3>1 DEF Around
      <3>2. CASE v = [u EXCEPT !.ret = 1]
        <4>1. Speaks(u)
          BY <1>2
        <4>2. Speaks(v) /\ Around(u, v) /\ v.r = u.r /\ v.n = u.n /\ v.ret = 1
          BY ONLY <3>2, <4>1, SpeaksBack
        <4> QED BY <4>2
      <3> QED BY <2>1, <3>1, <3>2
    <2>3. Around(w, v) /\ v.r.logline = r.logline
      BY <1>2, <2>2, AroundTrans DEF Alike
    <2>4. v.open = w.open /\ v.src = w.src /\ v.n.peer = w.n.peer
      BY <1>1, <2>3 DEF Around
    <2>5. Going(v.r, v.n, v.open, v.src)
      <3> DEFINE q == v.r
                 m == v.n
      <3>1. Spoken(q) /\ Said(q) = Said(r) /\ Alike(q, r) /\ q.keepalive = r.keepalive
        BY <1>2, <1>3, <1>5, <2>2
      <3>2. q.response_status = r.response_status /\ q.status = r.status /\ m.peer = w.n.peer
            /\ (r.buf = <<>> => q.buf = <<>>)
        BY <1>2, <1>5, <2>2, <2>4
      <3> HIDE DEF q, m
      <3>3. Going(q, m, w.open, w.src)
        BY <1>1, <3>1, <3>2, GoingFlushed
      <3> QED BY <2>4, <3>3 DEF q, m
    <2>6. CASE v.ret = 0
      <3>1. v.r.status = "DONE"
        BY <1>2, <1>5, <2>1, <2>2, <2>6
      <3>2. Over(v.r, v.n, v.open, v.src)
        BY <2>5, <3>1 DEF Going
      <3> QED BY <1>1, <2>2, <2>3, <2>6, <3>2, AroundOutcome
    <2>7. CASE v.ret # 0
      BY <1>1, <2>2, <2>3, <2>5, <2>7, AroundGoes
    <2> QED BY <2>6, <2>7
  <1> QED BY <1>4, <1>5

\* What was still in the buffer of a dead request is forgotten.
LEMMA DeadSaid ==
    ASSUME NEW w, Tends(w), w.r.status = "DEAD",
           NEW v, v = [w EXCEPT !.r = [SQUASH_KA(@) EXCEPT !.buf = <<>>, !.start = 0], !.ret = 0]
    PROVE  Outcome(w, v)
  <1> DEFINE r == w.r
             k == SQUASH_KA(r)
             q == [k EXCEPT !.buf = <<>>, !.start = 0]
  <1>1. Serves(w) /\ Speaks(w) /\ Spoken(r) /\ Works(r, w.n, w.open, w.src)
        /\ {"n", "r", "ret", "open", "src"} \subseteq DOMAIN w
    BY DEF Tends, Serves, Speaks
  <1>2. v.r = q /\ v.n = w.n /\ v.open = w.open /\ v.src = w.src /\ v.ret = 0 /\ DOMAIN v = DOMAIN w
    BY <1>1
  <1>3. Reworded(k, r) /\ k.keepalive = "stopped" /\ k.response_status = r.response_status /\ k.status = "DEAD"
    BY <1>1, SpokenSquash
  <1>4. Spoken(k) /\ k.got = r.got /\ k.uri = r.uri /\ k.logline = r.logline
    BY <1>3 DEF Reworded, Alike
  <1> HIDE DEF k
  <1>5. Fields \subseteq DOMAIN k
    BY <1>4 DEF Spoken
  <1>6. /\ Fields \subseteq DOMAIN q /\ q.buf = <<>> /\ q.start = 0 /\ q.got = r.got /\ q.uri = r.uri
        /\ q.logline = r.logline /\ q.keepalive = "stopped" /\ q.response_status = r.response_status
        /\ q.status = "DEAD"
    BY <1>3, <1>4, <1>5 DEF Fields
  <1> HIDE DEF q
  <1>7. Listed(<<>>) /\ 0 \in 0..Len(<<>>) /\ Listed(r.got)
    BY <1>1, ListedNew, SaidParts
  <1>8. Spoken(q)
    BY <1>6, <1>7 DEF Spoken
  <1>9. Said(q) = r.got
    BY <1>6, <1>8, SaidParts
  <1>10. Formed(Said(q), r)
    BY <1>1, <1>9, GoingFormed
  <1>11. Over(q, w.n, w.open, w.src)
    BY <1>6, <1>8, <1>10, FormedDead
  <1>12. SourcesListed(w.src)
    BY <1>1 DEF Serves
  <1> QED BY <1>2, <1>6, <1>8, <1>11, <1>12 DEF Outcome

\* The request at hand, before its handler runs.
LEMMA WorkTended ==
    ASSUME BoaInv, IdleInv, AnswerInv, stage = "handle", NEW f \in Requests
    PROVE  Tends(Work(f)) /\ Work(f).r = req[f] /\ RequestOK(req[f], open)
  <1> DEFINE w == Work(f)
  <1>1. w.r = req[f] /\ w.n = net[f] /\ w.open = open /\ w.src = src
        /\ {"n", "r", "ret", "open", "src"} \subseteq DOMAIN w
    BY DEF Work
  <1> HIDE DEF w
  <1>2. f \in Fds
    BY RequestsFinite DEF BoaInv
  <1>3. Spoken(req[f]) /\ SourcesListed(src) /\ RequestOK(req[f], open)
    BY <1>2 DEF AnswerInv, BoaInv
  <1>4. {"peer", "room"} \subseteq DOMAIN net[f] /\ net[f].room \in Nat /\ DOMAIN open = AllFds
    <2>1. NetTyped(net[f]) /\ SizedNet(net[f]) /\ DOMAIN open = AllFds
      BY <1>2 DEF IdleInv, BoaInv, InputsOK, TablesOK
    <2> QED BY <2>1 DEF NetTyped, NoNet, SizedNet
  <1>5. Serves(w)
    BY <1>1, <1>3, <1>4 DEF Serves, Speaks
  <1>6. Going(req[f], net[f], open, src)
    BY DEF AnswerInv, JustOver
  <1>7. req[f].status \in Pipes => req[f].data_fd \in AllFds
    BY <1>3 DEF RequestOK
  <1>8. Works(w.r, w.n, w.open, w.src)
    BY <1>1, <1>3, <1>6, <1>7 DEF Works
  <1> QED BY <1>1, <1>3, <1>5, <1>8 DEF Tends, w

\* By what its status says of it.
LEMMA TendedParts ==
    ASSUME NEW w, Tends(w), RequestOK(w.r, w.open), w.r.buf = <<>>
    PROVE  /\ w.r.status \in Headers => Reads(w) /\ (w.r.simple = "yes" => w.r.method = "POST")
           /\ w.r.status \in {"BODY_READ", "BODY_WRITE"} => Saves(w)
           /\ w.r.status = "WRITE" => Serves(w) /\ Mapped(w.r)
           /\ w.r.status \in Pipes => Copies(w)
  <1>1. Serves(w) /\ Going(w.r, w.n, w.open, w.src) /\ (w.r.status \in Pipes => w.r.data_fd \in AllFds)
    BY DEF Tends, Works
  <1>2. ASSUME w.r.status \in Early
        PROVE  Unread(w.r) /\ Silent(w.r) /\ w.r.data_fd = -1
    BY <1>1, <1>2 DEF Going, Unread, RequestOK
  <1>3. w.r.status \in Headers => Reads(w) /\ (w.r.simple = "yes" => w.r.method = "POST")
    BY <1>1, <1>2, EarlyHeaders DEF Reads, Unread
  <1>4. w.r.status \in {"BODY_READ", "BODY_WRITE"} => Saves(w)
    BY <1>1, <1>2, EarlyHeaders DEF Saves
  <1>5. w.r.status = "WRITE" => Serves(w) /\ Mapped(w.r)
    BY <1>1 DEF Going
  <1>6. w.r.status \in Pipes => Copies(w)
    BY <1>1 DEF Going, Copies
  <1> QED BY <1>3, <1>4, <1>5, <1>6

\* Each status of process_requests' switch, and the flush.
LEMMA RunSaid ==
    ASSUME BoaInv, IdleInv, AnswerInv,
           \/ ReadHeader \/ ReadBody \/ WriteBody \/ ProcessGet \/ ReadFromPipe \/ WriteFromPipe
           \/ Flush \/ Done \/ Dead
    PROVE  \E f \in Requests : \E v :
              /\ stage = "handle" /\ f = Head(todo) /\ f \in Fds
              /\ Outcome(Work(f), v) /\ Handled(f, v)
  <1>0. stage = "handle"
    BY DEF ReadHeader, ReadBody, WriteBody, ProcessGet, ReadFromPipe, WriteFromPipe, Flush, Done,
           Dead, Running
  <1>1. PICK f \in Fds : f = Head(todo) /\ f \in Requests
    BY <1>0, AtHand
  <1> DEFINE w == Work(f)
  <1>2. Tends(w) /\ w.r = req[f] /\ w.open = open /\ RequestOK(w.r, w.open)
    <2>1. Tends(Work(f)) /\ Work(f).r = req[f] /\ RequestOK(req[f], open)
      BY <1>0, <1>1, WorkTended
    <2>2. w.open = open
      BY DEF Work
    <2> QED BY <2>1, <2>2
  <1>3. Sound(w, open, Others(f), Uses(f))
    BY <1>1, WorkSound
  <1> SUFFICES \E v : Outcome(w, v) /\ Handled(f, v)
    BY <1>0, <1>1
  <1> HIDE DEF w
  <1>4. CASE ReadHeader
    <2>1. req[f].status \in Headers /\ req[f].buf = <<>>
      <3>1. {"DONE", "DEAD"} \cap Headers = {} /\ "READ_HEADER" \in Headers
        BY DEF Headers
      <3>2. req[f].status \in Headers /\ (req[f].buf # <<>> => Headers \subseteq {"DONE", "DEAD"})
        BY <1>1, <1>4 DEF ReadHeader, Running
      <3> QED BY <3>1, <3>2
    <2>2. PICK fault : \E v \in {read_header(w, fault)} : Handled(f, v)
      BY <1>1, <1>4 DEF ReadHeader, RunWith, w
    <2> DEFINE v == read_header(w, fault)
    <2>3. Reads(w) /\ w.r.status \in Headers /\ (w.r.simple = "yes" => w.r.method = "POST")
      BY <1>2, <2>1, TendedParts
    <2>4. v = read_header(w, fault)
      OBVIOUS
    <2> HIDE DEF v
    <2>5. Outcome(w, v)
      BY ONLY <1>3, <2>3, <2>4, ReadHeaderSaid
    <2> QED BY <2>2, <2>5 DEF v
  <1>5. CASE ReadBody
    <2>1. req[f].status = "BODY_READ" /\ req[f].buf = <<>>
      BY <1>1, <1>5 DEF ReadBody, Running
    <2>2. \E v \in {read_body(w)} : Handled(f, v)
      BY <1>1, <1>5 DEF ReadBody, Run, w
    <2>3. Saves(w)
      BY <1>2, <2>1, TendedParts
    <2>4. Outcome(w, read_body(w))
      BY ONLY <2>3, BodySaid
    <2> QED BY <2>2, <2>4
  <1>6. CASE WriteBody
    <2>1. req[f].status = "BODY_WRITE" /\ req[f].buf = <<>>
      BY <1>1, <1>6 DEF WriteBody, Running
    <2>2. PICK fault : \E v \in {write_body(w, fault)} : Handled(f, v)
      BY <1>1, <1>6 DEF WriteBody, RunWith, w
    <2>3. Saves(w)
      BY <1>2, <2>1, TendedParts
    <2>4. Outcome(w, write_body(w, fault))
      BY ONLY <2>3, SaveSaid
    <2> QED BY <2>2, <2>4
  <1>7. CASE ProcessGet
    <2>1. req[f].status = "WRITE" /\ req[f].buf = <<>>
      BY <1>1, <1>7 DEF ProcessGet, Running
    <2>2. PICK fault : \E v \in {process_get(w, fault)} : Handled(f, v)
      BY <1>1, <1>7 DEF ProcessGet, RunWith, w
    <2>3. Serves(w) /\ Mapped(w.r) /\ w.r.buf = <<>> /\ w.r.status = "WRITE"
      BY <1>2, <2>1, TendedParts
    <2>4. Outcome(w, process_get(w, fault))
      BY ONLY <2>3, ProcessGetSaid
    <2> QED BY <2>2, <2>4
  <1>8. CASE ReadFromPipe
    <2>1. req[f].status = "PIPE_READ" /\ req[f].buf = <<>>
      BY <1>1, <1>8 DEF ReadFromPipe, Running
    <2>2. \E v \in {read_from_pipe(w)} : Handled(f, v)
      BY <1>1, <1>8 DEF ReadFromPipe, Run, w
    <2>3. Copies(w) /\ w.r.status = "PIPE_READ"
      BY <1>2, <2>1, TendedParts DEF Pipes
    <2>4. Outcome(w, read_from_pipe(w))
      BY ONLY <2>3, ReadFromPipeSaid
    <2> QED BY <2>2, <2>4
  <1>9. CASE WriteFromPipe
    <2>1. req[f].status = "PIPE_WRITE" /\ req[f].buf = <<>>
      BY <1>1, <1>9 DEF WriteFromPipe, Running
    <2>2. \E v \in {write_from_pipe(w)} : Handled(f, v)
      BY <1>1, <1>9 DEF WriteFromPipe, Run, w
    <2>3. Copies(w) /\ w.r.status = "PIPE_WRITE"
      BY <1>2, <2>1, TendedParts DEF Pipes
    <2>4. Outcome(w, write_from_pipe(w))
      BY ONLY <2>3, WriteFromPipeSaid
    <2> QED BY <2>2, <2>4
  <1>10. CASE Flush \/ Done
    <2> DEFINE u == req_flush(w)
               v1 == IF u.ret = -2 THEN [u EXCEPT !.r.status = "DEAD", !.ret = 0]
                     ELSE IF u.ret >= 0 THEN [u EXCEPT !.ret = 1] ELSE u
               v2 == IF u.ret = -2 THEN [u EXCEPT !.r.status = "DEAD", !.ret = 0]
                     ELSE IF u.ret > 0 THEN [u EXCEPT !.ret = 1] ELSE u
    <2>1. /\ w.r.buf # <<>> \/ w.r.status = "DONE"
          /\ w.r.status # "DEAD"
          /\ \/ w.r.status = "DONE" /\ Handled(f, v2)
             \/ Handled(f, v1)
      <3>1. CASE Flush
        <4>1. Handled(f, v1) /\ req[f].buf # <<>> /\ req[f].status \notin {"DONE", "DEAD"}
          BY <1>1, <3>1, Zenon DEF Flush, Run, w
        <4> HIDE DEF v1, v2, u
        <4> QED BY <1>2, <4>1
      <3>2. CASE Done
        <4>1. Handled(f, v2) /\ req[f].status \in {"DONE"}
          BY <1>1, <3>2, Zenon DEF Done, Running, Run, w
        <4> HIDE DEF v1, v2, u
        <4> QED BY <1>2, <4>1
      <3> QED BY <1>10, <3>1, <3>2
    <2>2. {"n", "r", "ret"} \subseteq DOMAIN u /\ (u.ret # -2 => u.ret = -1 \/ u.ret = Len(u.r.buf))
      <3>1. Speaks(w)
        BY <1>2 DEF Tends, Serves
      <3>2. Speaks(u) /\ (u.ret # -2 => u.ret = -1 \/ u.ret = Len(u.r.buf))
        BY <3>1, FlushedSaid
      <3> QED BY <3>2 DEF Speaks
    <2>3. u.ret # -2 => u.ret \in Int
      <3>1. Spoken(u.r)
        <4>1. Speaks(w)
          BY <1>2 DEF Tends, Serves
        <4>2. Speaks(u)
          BY <4>1, FlushedSaid
        <4> HIDE DEF u
        <4> QED BY <4>2 DEF Speaks
      <3> HIDE DEF u
      <3>2. Len(u.r.buf) \in Nat
        BY <3>1, SaidParts
      <3> QED BY <2>2, <3>2
    <2>4. u = req_flush(w)
      OBVIOUS
    <2> HIDE DEF u
    <2>5. Ends(w, u, v1)
      <3>1. CASE u.ret = -2
        BY <2>4, <3>1 DEF Ends
      <3>2. CASE u.ret # -2
        <4>1. v1 \in {u, [u EXCEPT !.ret = 1]} /\ v1.ret # 0
          BY <2>2, <2>3, <3>2
        <4> HIDE DEF v1
        <4> QED BY <2>4, <3>2, <4>1 DEF Ends
      <3> QED BY <3>1, <3>2
    <2>6. w.r.status = "DONE" => Ends(w, u, v2)
      <3>1. CASE u.ret = -2
        BY <2>4, <3>1 DEF Ends
      <3>2. CASE u.ret # -2
        <4>1. v2 \in {u, [u EXCEPT !.ret = 1]}
          BY <3>2
        <4> HIDE DEF v2
        <4> QED BY <2>4, <3>2, <4>1 DEF Ends
      <3> QED BY <3>1, <3>2
    <2> HIDE DEF v1, v2
    <2>7. PICK v \in {v1, v2} : Ends(w, u, v) /\ Handled(f, v)
      BY <2>1, <2>5, <2>6
    <2>8. Tends(w) /\ w.r.status # "DEAD" /\ (w.r.buf # <<>> \/ w.r.status = "DONE") /\ Ends(w, u, v)
      BY <1>2, <2>1, <2>7
    <2>9. Outcome(w, v)
      BY ONLY <2>8, EndsSaid
    <2> QED BY <2>7, <2>9
  <1>11. CASE Dead
    <2> DEFINE v == [w EXCEPT !.r = [SQUASH_KA(@) EXCEPT !.buf = <<>>, !.start = 0], !.ret = 0]
    <2>1. Handled(f, v) /\ req[f].status = "DEAD"
      BY <1>1, <1>11 DEF Dead, Running, Run, w
    <2>2. v = [w EXCEPT !.r = [SQUASH_KA(@) EXCEPT !.buf = <<>>, !.start = 0], !.ret = 0]
      OBVIOUS
    <2> HIDE DEF v
    <2>3. Tends(w) /\ w.r.status = "DEAD"
      BY <1>2, <2>1
    <2>4. Outcome(w, v)
      BY ONLY <2>2, <2>3, DeadSaid
    <2> QED BY <2>1, <2>4
  <1> QED BY <1>4, <1>5, <1>6, <1>7, <1>8, <1>9, <1>10, <1>11

\* Whether an answer goes on or is over depends on the request, on its own descriptor, and
\* on whether its client is still there.
LEMMA GoingElsewhere ==
    ASSUME NEW r, NEW n, NEW fds, NEW s, NEW m, NEW fds2, NEW s2,
           r.data_fd # -1 => fds2[r.data_fd] = fds[r.data_fd] /\ s2[r.data_fd] = s[r.data_fd],
           r.status \in Pipes => r.data_fd # -1, n.peer = "reset" => m.peer = "reset",
           n.peer # "open" => m.peer # "open"
    PROVE  /\ Over(r, n, fds, s) => Over(r, m, fds2, s2)
           /\ Going(r, n, fds, s) => Going(r, m, fds2, s2)
  <1>1. ASSUME Over(r, n, fds, s)
        PROVE  Over(r, m, fds2, s2)
    <2>1. /\ \E k \in 0..Len(Said(r)) : Shaped(Said(r), k)
          /\ OneStatus(Said(r)) \/ Forkless(r)
          /\ r.status \in Pipes /\ r.cgi_status # "PARSE" /\ r.response_status < 400 => r.data = <<>>
          /\ r.keepalive = "active" /\ r.status # "DEAD" =>
                (r.got = <<>> /\ r.buf = <<>> /\ Dropped(r, m)) \/ Whole(r)
      BY <1>1 DEF Over, Dropped
    <2>2. r.response_status = 200 /\ r.status # "DEAD" /\ r.method # "HEAD" /\ m.peer # "reset" =>
             IF r.data_fd = -1 THEN DataCount(Said(r)) = r.filesize
             ELSE /\ r.status \in Pipes /\ r.buf = <<>>
                  /\ DataCount(Said(r)) =
                        IF fds2[r.data_fd] = "pipe"
                        THEN DataCount(Site[r.uri].out) - DataCount(s2[r.data_fd].left)
                        ELSE r.filesize
      BY <1>1 DEF Over
    <2> QED BY <2>1, <2>2 DEF Over
  <1>2. ASSUME Going(r, n, fds, s), r.status \in Pipes
        PROVE  Streamed(r, fds2, s2)
    <2>1. Streamed(r, fds, s) /\ fds2[r.data_fd] = fds[r.data_fd] /\ s2[r.data_fd] = s[r.data_fd]
      BY <1>2 DEF Going
    <2>2. Coming(r, s2) = Coming(r, s)
      BY <2>1 DEF Coming
    <2>3. Piped(r, s) => Piped(r, s2)
      BY <2>2 DEF Piped
    <2>4. Filed(r, s) => Filed(r, s2)
      BY <2>1, <2>2 DEF Filed
    <2> QED BY <2>1, <2>2, <2>3, <2>4 DEF Streamed
  <1> QED BY <1>1, <1>2 DEF Going

\* The handlers.
LEMMA AnswerRun ==
    ASSUME BoaInv, IdleInv, AnswerInv,
           \/ ReadHeader \/ ReadBody \/ WriteBody \/ ProcessGet \/ ReadFromPipe \/ WriteFromPipe
           \/ Flush \/ Done \/ Dead
    PROVE  AnswerInv'
  <1>1. PICK f \in Requests : \E v :
              /\ stage = "handle" /\ f = Head(todo) /\ f \in Fds
              /\ Outcome(Work(f), v) /\ Handled(f, v)
    BY RunSaid
  <1>2. PICK v : /\ stage = "handle" /\ f = Head(todo) /\ f \in Fds
                 /\ Outcome(Work(f), v) /\ Handled(f, v)
    BY <1>1
  <1>3. PICK g0 \in Requests : \E v0 :
              /\ stage = "handle" /\ g0 = Head(todo) /\ g0 \in Fds
              /\ Sound(v0, open, Others(g0), Uses(g0)) /\ Handled(g0, v0)
              /\ v0.ret = -1 => Sleepy(v0.r)
    BY RunSound
  <1>4. PICK v0 : Sound(v0, open, Others(f), Uses(f)) /\ Handled(f, v0)
    BY <1>2, <1>3
  <1> DEFINE q == IF sigterm_flag # 0 THEN SQUASH_KA(v.r) ELSE v.r
  <1>5. /\ req' = [req EXCEPT ![f] = q] /\ net' = [net EXCEPT ![f] = v.n] /\ src' = v.src
        /\ open' = v.open /\ ret' = v.ret /\ UNCHANGED <<todo, ready, block>>
        /\ stage' \in {"accept", "dispose"} /\ open' = v0.open
    BY <1>2, <1>4 DEF Handled
  <1>6. /\ Spoken(v.r) /\ SourcesListed(v.src)
        /\ req[f].logline = "yes" => v.r.logline = "yes"
        /\ \A g \in AllFds : open[g] # "free" /\ g # req[f].data_fd => v.src[g] = src[g]
        /\ IF v.ret = 0 THEN Over(v.r, v.n, v.open, v.src) ELSE Going(v.r, v.n, v.open, v.src)
    BY <1>2 DEF Outcome, Work
  <1>7. /\ Spoken(q)
        /\ IF v.ret = 0 THEN Over(q, v.n, v.open, v.src) ELSE Going(q, v.n, v.open, v.src)
    <2>1. CASE sigterm_flag # 0
      <3> DEFINE k == SQUASH_KA(v.r)
      <3>1. k = SQUASH_KA(v.r) /\ Spoken(v.r) /\ q = k
        BY <1>6, <2>1
      <3> HIDE DEF k, q
      <3>2. /\ Spoken(k)
            /\ Over(v.r, v.n, v.open, v.src) => Over(k, v.n, v.open, v.src)
            /\ Going(v.r, v.n, v.open, v.src) => Going(k, v.n, v.open, v.src)
        BY <3>1, OverSquash
      <3> QED BY <1>6, <3>1, <3>2
    <2>2. CASE sigterm_flag = 0
      <3>1. q = v.r
        BY <2>2
      <3> QED BY <1>6, <3>1
    <2> QED BY <2>1, <2>2
  <1> HIDE DEF q
  <1>8. DOMAIN req = Fds /\ DOMAIN net = Fds /\ Requests \subseteq Fds
    BY RequestsFinite DEF BoaInv, TablesOK, InputsOK
  <1>9. req'[f] = q /\ net'[f] = v.n /\ \A g \in Fds \ {f} : req'[g] = req[g] /\ net'[g] = net[g]
    BY <1>2, <1>5, <1>8
  <1>10. Requests' = Requests
    BY <1>5 DEF Requests
  <1>11. \A g \in Fds : Spoken(req'[g])
    BY <1>7, <1>9 DEF AnswerInv
  <1>12. \A g \in Fds \ Requests : req'[g].logline = "no"
    BY <1>9 DEF AnswerInv
  <1>13. ASSUME NEW g \in Requests
         PROVE  (IF JustOver(g) THEN Over(req[g], net[g], open, src)
                 ELSE Going(req[g], net[g], open, src))'
    <2>1. CASE g = f
      <3>1. JustOver(g)' <=> v.ret = 0
        BY <1>2, <1>5, <2>1 DEF JustOver
      <3> QED BY <1>5, <1>7, <1>9, <2>1, <3>1
    <2>2. CASE g # f
      <3>1. ~JustOver(g) /\ ~JustOver(g)'
        BY <1>2, <1>5, <2>2 DEF JustOver
      <3>2. Going(req[g], net[g], open, src)
        BY <3>1 DEF AnswerInv
      <3>3. RequestOK(req[g], open)
        BY DEF BoaInv
      <3>4. req[g].data_fd # -1 =>
               /\ req[g].data_fd \in AllFds /\ open[req[g].data_fd] # "free"
               /\ req[g].data_fd \in Others(f) /\ req[g].data_fd # req[f].data_fd
        <4> SUFFICES ASSUME req[g].data_fd # -1
                     PROVE  /\ req[g].data_fd \in AllFds /\ open[req[g].data_fd] # "free"
                            /\ req[g].data_fd \in Others(f) /\ req[g].data_fd # req[f].data_fd
          OBVIOUS
        <4>1. req[g].data_fd \in HeldBy(req[g])
          BY DEF HeldBy
        <4>2. HeldBy(req[g]) \cap HeldBy(req[f]) = {}
          BY <2>2 DEF BoaInv, Accounted
        <4>3. req[g].data_fd # req[f].data_fd
          BY <4>1, <4>2 DEF HeldBy
        <4>4. req[g].data_fd \in Others(f)
          BY <2>2, <4>1 DEF Others
        <4> QED BY <3>3, <4>3, <4>4 DEF RequestOK
      <3>5. req[g].data_fd # -1 => open'[req[g].data_fd] = open[req[g].data_fd]
        BY <1>4, <1>5, <3>4 DEF Sound, Holds
      <3>6. req[g].data_fd # -1 => src'[req[g].data_fd] = src[req[g].data_fd]
        BY <1>5, <1>6, <3>4
      <3>7. req[g].status \in Pipes => req[g].data_fd # -1
        BY <3>3 DEF RequestOK
      <3>8. Going(req[g], net[g], open', src')
        BY <3>2, <3>5, <3>6, <3>7, GoingElsewhere
      <3>9. req'[g] = req[g] /\ net'[g] = net[g]
        BY <1>8, <1>9, <2>2
      <3> QED BY <3>1, <3>8, <3>9
    <2> QED BY <2>1, <2>2
  <1>14. SourcesListed(src')
    BY <1>5, <1>6
  <1> QED BY <1>10, <1>11, <1>12, <1>13, <1>14 DEF AnswerInv

\* A request that is given up is dead, with what had been said of it.
LEMMA DeadGoes ==
    ASSUME NEW r, NEW n, NEW fds, NEW s, Works(r, n, fds, s), NEW q, q = [r EXCEPT !.status = "DEAD"]
    PROVE  Spoken(q) /\ q.logline = r.logline /\ Going(q, n, fds, s)
  <1>1. Spoken(r) /\ Formed(Said(r), r)
    <2>1. Formed(Said(r), r)
      BY GoingFormed
    <2> QED BY <2>1 DEF Works
  <1>2. Reworded(q, r) /\ q.response_status = r.response_status /\ q.status = "DEAD"
    BY <1>1, SpokenStatus
  <1>3. Spoken(q) /\ Said(q) = Said(r) /\ q.uri = r.uri /\ q.logline = r.logline
    BY <1>2 DEF Reworded, Alike
  <1>4. Over(q, n, fds, s)
    BY <1>1, <1>2, <1>3, FormedDead
  <1> QED BY <1>2, <1>3, <1>4, GoesOn

\* What is said depends on these fields only.
LEMMA SameFields ==
    ASSUME NEW r, Spoken(r), NEW q, Fields \subseteq DOMAIN q, \A x \in Fields : q[x] = r[x]
    PROVE  /\ Spoken(q) /\ q.logline = r.logline
           /\ \A n, fds, s : Going(r, n, fds, s) => Going(q, n, fds, s)
           /\ \A n, fds, s : Over(r, n, fds, s) => Over(q, n, fds, s)
  <1>1. /\ q.cgi_status = r.cgi_status /\ q.data = r.data /\ q.data_fd = r.data_fd
        /\ q.filepos = r.filepos /\ q.filesize = r.filesize /\ q.logline = r.logline
        /\ q.method = r.method /\ q.off = r.off /\ q.simple = r.simple /\ q.uri = r.uri
        /\ q.keepalive = r.keepalive /\ q.response_status = r.response_status
        /\ q.status = r.status /\ q.got = r.got /\ q.buf = r.buf /\ q.start = r.start
        /\ q.post_data_fd = r.post_data_fd
    BY DEF Fields
  <1>2. Spoken(q)
    BY <1>1 DEF Spoken
  <1>3. Said(q) = Said(r) /\ \A s : Coming(q, s) = Coming(r, s)
    BY <1>1 DEF Said, Coming
  <1>4. \A n, fds, s : Over(r, n, fds, s) => Over(q, n, fds, s)
    <2> SUFFICES ASSUME NEW n, NEW fds, NEW s, Over(r, n, fds, s) PROVE Over(q, n, fds, s)
      OBVIOUS
    <2>1. /\ \E k \in 0..Len(Said(q)) : Shaped(Said(q), k)
          /\ OneStatus(Said(q)) \/ Forkless(q)
          /\ q.status \in Pipes /\ q.cgi_status # "PARSE" /\ q.response_status < 400 => q.data = <<>>
          /\ q.keepalive = "active" /\ q.status # "DEAD" =>
                (q.got = <<>> /\ q.buf = <<>> /\ Dropped(q, n)) \/ Whole(q)
      BY <1>1, <1>3 DEF Over, Forkless, Whole, Dropped
    <2>2. q.response_status = 200 /\ q.status # "DEAD" /\ q.method # "HEAD" /\ n.peer # "reset" =>
            IF q.data_fd = -1 THEN DataCount(Said(q)) = q.filesize
            ELSE /\ q.status \in Pipes /\ q.buf = <<>>
                 /\ DataCount(Said(q)) =
                       IF fds[q.data_fd] = "pipe"
                       THEN DataCount(Site[q.uri].out) - DataCount(s[q.data_fd].left)
                       ELSE q.filesize
      BY <1>1, <1>3 DEF Over
    <2> QED BY <2>1, <2>2 DEF Over
  <1>5. \A n, fds, s : Going(r, n, fds, s) => Going(q, n, fds, s)
    <2> SUFFICES ASSUME NEW n, NEW fds, NEW s, Going(r, n, fds, s) PROVE Going(q, n, fds, s)
      OBVIOUS
    <2>1. q.status \in Early => Unread(q)
      BY <1>1 DEF Going, Unread, Silent
    <2>2. q.status = "WRITE" => Mapped(q)
      BY <1>1, <1>3 DEF Going, Mapped
    <2>3. q.status \in Pipes => Streamed(q, fds, s)
      <3> SUFFICES ASSUME q.status \in Pipes PROVE Streamed(q, fds, s)
        OBVIOUS
      <3>1. Streamed(r, fds, s)
        BY <1>1 DEF Going
      <3>2. Piped(r, s) => Piped(q, s)
        BY <1>1, <1>3 DEF Piped, Silent
      <3>3. Filed(r, s) => Filed(q, s)
        BY <1>1, <1>3 DEF Filed
      <3> QED BY <1>1, <1>3, <3>1, <3>2, <3>3 DEF Streamed
    <2>4. q.status \in {"DONE", "DEAD"} => Over(q, n, fds, s)
      BY <1>1, <1>4 DEF Going
    <2> QED BY <1>1, <2>1, <2>2, <2>3, <2>4 DEF Going
  <1> QED BY <1>1, <1>2, <1>4, <1>5

\* fdset_update gives up some requests and changes nothing in the others: q has req, which
\* was p.
Fated(q, p) ==
    /\ {"bits", "block", "max_fd", "ready", "req"} \subseteq DOMAIN q
    /\ DOMAIN q.req = Fds
    /\ \A g \in Fds : q.req[g] \in {p[g], [p[g] EXCEPT !.status = "DEAD"], [p[g] EXCEPT !.status = @]}

\* One turn of its loop.
LEMMA WakeFated ==
    ASSUME NEW p, \A g \in Fds : "status" \in DOMAIN p[g], NEW q, Fated(q, p), NEW f \in Fds
    PROVE  Fated(Wake(q, f), p)
  <1> DEFINE s == IF TimedOut(q.req[f]) THEN "DEAD" ELSE q.req[f].status
             r == [q.req[f] EXCEPT !.status = s]
             a == Awaits(f, r)
             bits1 == q.bits \ {a}
             block1 == dequeue(q.block, f)
             ready1 == <<f>> \o q.ready
             bits2 == q.bits \cup {a}
             max2 == IF a[2] > q.max_fd THEN a[2] ELSE q.max_fd
             woken == [q EXCEPT !.req[f] = r, !.bits = bits1, !.block = block1, !.ready = ready1]
             asleep == [q EXCEPT !.bits = bits2, !.max_fd = max2]
  <1>1. Wake(q, f) \in {woken, asleep}
    BY Zenon DEF Wake
  <1>2. r \in {p[f], [p[f] EXCEPT !.status = "DEAD"], [p[f] EXCEPT !.status = @]}
    <2> DEFINE x == p[f]
               y == q.req[f]
               z == x.status
    <2>1. y \in {x, [x EXCEPT !.status = "DEAD"], [x EXCEPT !.status = z]} /\ "status" \in DOMAIN x
      BY DEF Fated
    <2>2. s \in {"DEAD", y.status} /\ r = [y EXCEPT !.status = s]
      OBVIOUS
    <2> SUFFICES r \in {x, [x EXCEPT !.status = "DEAD"], [x EXCEPT !.status = z]}
      OBVIOUS
    <2>3. z = x.status
      OBVIOUS
    <2> HIDE DEF s, x, y, z, r
    <2>4. y.status \in {"DEAD", z}
      BY <2>1, <2>3
    <2>5. s \in {"DEAD", z}
      BY <2>2, <2>4
    <2>6. r = [x EXCEPT !.status = s]
      <3>1. CASE y = x
        BY <2>2, <3>1
      <3>2. CASE y = [x EXCEPT !.status = "DEAD"]
        BY <2>1, <2>2, <3>2
      <3>3. CASE y = [x EXCEPT !.status = z]
        BY <2>1, <2>2, <3>3
      <3> QED BY <2>1, <3>1, <3>2, <3>3
    <2> QED BY <2>5, <2>6
  <1> HIDE DEF r, bits1, bits2, block1, ready1, max2
  <1>3. /\ DOMAIN asleep = DOMAIN q /\ asleep.req = q.req
        /\ DOMAIN woken = DOMAIN q /\ woken.req = [q.req EXCEPT ![f] = r]
    BY DEF Fated
  <1> HIDE DEF woken, asleep
  <1>4. Fated(woken, p) /\ Fated(asleep, p)
    BY <1>2, <1>3 DEF Fated
  <1> QED BY <1>1, <1>4

\* The whole loop, by induction over the blocked requests.
LEMMA WokenFated ==
    ASSUME NEW p, \A g \in Fds : "status" \in DOMAIN p[g], NEW q0, Fated(q0, p), NEW list \in Seq(Fds)
    PROVE  Fated(Woken(q0, list), p)
  <1>1. PICK q : /\ Woken(q0, list) = q[Len(list)]
                 /\ q[0] = q0
                 /\ \A k \in 1..Len(list) : q[k] = Wake(q[k - 1], list[k])
    <2>1. Len(list) \in Nat
      OBVIOUS
    <2> DEFINE Steps(x, u) == \E q : /\ Woken(x, u) = q[Len(u)]
                                     /\ q[0] = x
                                     /\ \A k \in 1..Len(u) : q[k] = Wake(q[k - 1], u[k])
    <2>2. \A x, u : Len(u) \in Nat => Steps(x, u)
      BY WokenSteps
    <2> HIDE DEF Steps
    <2>3. Steps(q0, list)
      BY <2>1, <2>2
    <2> QED BY <2>3 DEF Steps
  <1> DEFINE S == {n \in Nat : n <= Len(list) => Fated(q[n], p)}
  <1>2. 0 \in S
    BY <1>1
  <1>3. ASSUME NEW n \in S PROVE n + 1 \in S
    <2> SUFFICES ASSUME n + 1 <= Len(list) PROVE Fated(q[n + 1], p)
      OBVIOUS
    <2>1. n \in Nat /\ n + 1 \in 1..Len(list) /\ (n + 1) - 1 = n
      OBVIOUS
    <2>2. q[n + 1] = Wake(q[n], list[n + 1])
      BY <1>1, <2>1
    <2>3. Fated(q[n], p) /\ list[n + 1] \in Fds
      BY <2>1
    <2> QED BY <2>2, <2>3, WakeFated
  <1>4. Len(list) \in S
    <2> HIDE DEF S
    <2> QED BY <1>2, <1>3, Induct
  <1> QED BY <1>1, <1>4

\* A request between two rounds.
LEMMA RequestWorks ==
    ASSUME BoaInv, AnswerInv, NEW f \in Requests
    PROVE  /\ Spoken(req[f]) /\ RequestOK(req[f], open) /\ f \in Fds
           /\ req[f].status \in Pipes => req[f].data_fd # -1 /\ req[f].data_fd \in AllFds
           /\ ~JustOver(f) => /\ Going(req[f], net[f], open, src)
                              /\ Works(req[f], net[f], open, src)
  <1>1. f \in Fds /\ RequestOK(req[f], open)
    BY RequestsFinite DEF BoaInv
  <1>2. Spoken(req[f]) /\ SourcesListed(src) /\ (~JustOver(f) => Going(req[f], net[f], open, src))
    BY <1>1 DEF AnswerInv
  <1>3. req[f].status \in Pipes => req[f].data_fd # -1 /\ req[f].data_fd \in AllFds
    BY <1>1 DEF RequestOK
  <1> QED BY <1>1, <1>2, <1>3 DEF Works

\* The requests are the sockets.
LEMMA SocketsAre ==
    ASSUME BoaInv
    PROVE  Requests = {f \in AllFds : open[f] = "socket"}
  BY DEF BoaInv, Accounted

\* The top of the loop, and fdset_update.
LEMMA AnswerTop ==
    ASSUME BoaInv, BoaInv', AnswerInv, Signals \/ fdset_update
    PROVE  AnswerInv'
  <1>1. CASE Signals
    <2>1. /\ UNCHANGED <<ready, block, req, net, src>> /\ stage \notin {"accept", "dispose"}
          /\ stage' \notin {"accept", "dispose"}
          /\ open' = IF sigterm_flag = 1 THEN [open EXCEPT ![server_s] = "free"] ELSE open
      BY <1>1 DEF Signals
    <2>2. ASSUME NEW f \in Requests PROVE Going(req[f], net[f], open', src)
      <3>1. /\ RequestOK(req[f], open) /\ Going(req[f], net[f], open, src)
            /\ req[f].status \in Pipes => req[f].data_fd # -1
        BY <2>1, RequestWorks DEF JustOver
      <3>2. req[f].data_fd # -1 => open'[req[f].data_fd] = open[req[f].data_fd]
        <4>1. sigterm_flag = 1 => open[server_s] = "listen"
          BY DEF BoaInv, TablesOK
        <4>2. open \in [AllFds -> {"listen", "free", "socket", "pipe", "file", "temp", "lost"}]
          BY DEF BoaInv, TablesOK
        <4>3. req[f].data_fd # -1 => open[req[f].data_fd] # "listen" /\ req[f].data_fd \in AllFds
          BY <3>1 DEF RequestOK
        <4> DEFINE d == req[f].data_fd
        <4> HIDE DEF d
        <4> QED BY <2>1, <4>1, <4>2, <4>3
      <3> QED BY <3>1, <3>2, GoingElsewhere
    <2>3. Requests' = Requests
      BY <2>1 DEF Requests
    <2> QED BY <2>1, <2>2, <2>3 DEF AnswerInv, JustOver
  <1>2. CASE fdset_update
    <2> DEFINE q0 == [bits |-> bits, block |-> block, max_fd |-> max_fd,
                      ready |-> ready, req |-> req]
               q == Woken(q0, block)
    <2>1. /\ req' = q.req /\ stage = "update" /\ stage' = "first" /\ UNCHANGED <<net, src, open>>
      BY <1>2, Zenon DEF fdset_update
    <2>2. Fated(q0, req)
      BY DEF Fated, BoaInv, TablesOK
    <2>3. \A g \in Fds : "status" \in DOMAIN req[g]
      BY DEF AnswerInv, Spoken, Fields
    <2>4. block \in Seq(Fds)
      BY DEF BoaInv, ListsOK
    <2> HIDE DEF q0
    <2>5. Fated(q, req)
      BY ONLY <2>2, <2>3, <2>4, WokenFated
    <2> HIDE DEF q
    <2>6. \A g \in Fds : req'[g] \in {req[g], [req[g] EXCEPT !.status = "DEAD"],
                                      [req[g] EXCEPT !.status = @]}
      BY <2>1, <2>5 DEF Fated
    <2>7. Requests' = Requests
      <3>1. Requests = {f \in AllFds : open[f] = "socket"}
        BY SocketsAre
      <3>2. Requests' = {f \in AllFds : open'[f] = "socket"}
        BY DEF BoaInv, Accounted
      <3> QED BY <2>1, <3>1, <3>2
    <2>8. ASSUME NEW f \in Requests PROVE Going(req'[f], net[f], open, src)
      <3>1. Works(req[f], net[f], open, src) /\ Going(req[f], net[f], open, src) /\ f \in Fds
        BY <2>1, RequestWorks DEF JustOver
      <3>2. CASE req'[f] = req[f]
        BY <3>1, <3>2
      <3>3. CASE req'[f] = [req[f] EXCEPT !.status = "DEAD"]
        <4> DEFINE x == req[f]
                   y == req'[f]
                   m == net[f]
        <4>1. Works(x, m, open, src) /\ y = [x EXCEPT !.status = "DEAD"]
          BY <3>1, <3>3
        <4> HIDE DEF x, y, m
        <4>2. Going(y, m, open, src)
          BY ONLY <4>1, DeadGoes
        <4> QED BY <4>2 DEF y, m
      <3>4. CASE req'[f] = [req[f] EXCEPT !.status = @]
        <4>1. Spoken(req[f])
          BY <3>1 DEF Works
        <4>2. Fields \subseteq DOMAIN req'[f] /\ \A x \in Fields : req'[f][x] = req[f][x]
          BY <3>4, <4>1 DEF Spoken
        <4> QED BY <3>1, <4>1, <4>2, SameFields
      <3> QED BY <2>6, <3>1, <3>2, <3>3, <3>4
    <2>9. ASSUME NEW f \in Fds PROVE Spoken(req'[f]) /\ req'[f].logline = req[f].logline
      <3>1. Spoken(req[f])
        BY DEF AnswerInv
      <3>2. CASE req'[f] = req[f]
        BY <3>1, <3>2
      <3>3. CASE req'[f] = [req[f] EXCEPT !.status = "DEAD"]
        BY <3>1, <3>3, SpokenStatus DEF Reworded, Alike
      <3>4. CASE req'[f] = [req[f] EXCEPT !.status = @]
        <4>1. Fields \subseteq DOMAIN req'[f] /\ \A x \in Fields : req'[f][x] = req[f][x]
          BY <3>1, <3>4 DEF Spoken
        <4> QED BY <3>1, <4>1, SameFields
      <3> QED BY <2>6, <3>2, <3>3, <3>4
    <2> QED BY <2>1, <2>7, <2>8, <2>9 DEF AnswerInv, JustOver
  <1> QED BY <1>1, <1>2

\* A new connection, or the next request on an old one.
LEMMA FreshSpoken ==
    ASSUME NEW n, NEW s, NEW r, r = NewRequest(n, s)
    PROVE  /\ Spoken(r) /\ Unread(r) /\ r.logline = "no" /\ r.status = "READ_HEADER"
           /\ r.data_fd = -1 /\ Said(r) = <<>>
           /\ \A m, fds, c : Going(r, m, fds, c)
  <1>1. /\ Fields \subseteq DOMAIN r /\ r.got = <<>> /\ r.buf = <<>> /\ r.start = 0
        /\ r.keepalive = "inactive" /\ r.logline = "no" /\ r.simple = "no" /\ r.response_status = 0
        /\ r.filesize = 0 /\ r.filepos = 0 /\ r.status = "READ_HEADER" /\ r.data_fd = -1
    BY DEF NewRequest, Fields
  <1>2. Listed(<<>>) /\ 0 \in 0..Len(<<>>)
    BY ListedNew
  <1>3. Spoken(r)
    BY <1>1, <1>2 DEF Spoken
  <1>4. Unread(r)
    BY <1>1 DEF Unread, Silent
  <1>5. Said(r) = <<>>
    BY <1>3, <1>4, SaidParts DEF Unread
  <1>6. "READ_HEADER" \in Early
    BY DEF Early, Headers
  <1>7. ASSUME NEW m, NEW fds, NEW c PROVE Going(r, m, fds, c)
    BY <1>1, <1>4, <1>6, GoesOn
  <1> QED BY <1>1, <1>3, <1>4, <1>5, <1>7

\* A connection too many is told so and closed.
Late(k, x, w0, w, q) ==
    /\ w0 = [r |-> NewRequest(k, <<>>), n |-> [NoNet EXCEPT !.more = x], ret |-> 0]
    /\ w = send_r(w0, 503) /\ q = [w.r EXCEPT !.status = "DONE"]

\* It says nothing else.
LEMMA LateSpoken ==
    ASSUME NEW k, NEW x, NEW w0, NEW w, NEW q, Late(k, x, w0, w, q)
    PROVE  /\ Spoken(q) /\ \A m, fds, c : Going(q, m, fds, c)
           /\ q.status = "DONE" /\ q.keepalive # "active"
  <1> USE DEF Late
  <1> DEFINE code == 503
             conn == NewRequest(k, <<>>)
             v == Refuse(w0, code)
  <1>1. Spoken(conn) /\ Said(conn) = <<>> /\ conn.status = "READ_HEADER"
    BY FreshSpoken
  <1>2. w0.r = conn /\ {"n", "r", "ret"} \subseteq DOMAIN w0 /\ {"peer", "room"} \subseteq DOMAIN w0.n
        /\ w0.n.room \in Nat
    BY BoaAssumption DEF NoNet
  <1> HIDE DEF conn
  <1>3. Speaks(w0) /\ Said(w0.r) = <<>> /\ NoData(Said(w0.r))
    <2>1. NoData(<<>>)
      BY OneToken
    <2> QED BY <1>1, <1>2, <2>1 DEF Speaks
  <1>4. code \in Int /\ code # 200 /\ code >= 400
    OBVIOUS
  <1>5. v.r = w.r
    <2>1. v = [send_r(w0, code) EXCEPT !.ret = 0]
      BY DEF Refuse
    <2>2. "r" \in DOMAIN w
      <3>1. w = send_r(w0, code)
        OBVIOUS
      <3> HIDE DEF code
      <3>2. Sends(w0, w, code)
        BY <1>3, <1>4, <3>1, SentSaid
      <3> QED BY <3>2 DEF Sends, Speaks
    <2>3. w = send_r(w0, code)
      OBVIOUS
    <2> HIDE DEF v, code
    <2> QED BY <2>1, <2>2, <2>3
  <1>6. v = Refuse(w0, code) /\ (w0.r.status \in Pipes => code >= 400)
    BY <1>4
  <1> HIDE DEF v, code
  <1>7. Plain(v.r) /\ v.r.response_status = code
    BY ONLY <1>3, <1>4, <1>6, RefusedOver
  <1>8. Plain(w.r) /\ w.r.response_status = code /\ Spoken(w.r)
    BY <1>5, <1>7 DEF Plain
  <1> DEFINE r == w.r
  <1>9. Spoken(r) /\ q = [r EXCEPT !.status = "DONE"]
    BY <1>8
  <1> HIDE DEF r
  <1>10. /\ Reworded(q, r) /\ q.keepalive = r.keepalive /\ q.response_status = r.response_status
         /\ q.status = "DONE"
    BY ONLY <1>9, SpokenStatus
  <1>11. Spoken(q) /\ Said(q) = Said(r) /\ q.uri = r.uri
    BY <1>10 DEF Reworded, Alike
  <1>12. Plain(q)
    <2>1. NoData(Said(r)) /\ (OneStatus(Said(r)) \/ Forkless(r)) /\ r.keepalive # "active" /\ r.response_status # 200
      BY <1>8 DEF Plain, r
    <2>2. "DONE" \notin Pipes
      BY DEF Pipes
    <2> QED BY <1>10, <1>11, <2>1, <2>2 DEF Plain, Forkless
  <1>13. ASSUME NEW m, NEW fds, NEW c PROVE Going(q, m, fds, c)
    <2>1. Over(q, m, fds, c)
      BY <1>12, PlainOver
    <2> QED BY <1>10, <2>1, GoesOn
  <1>14. q.status = "DONE" /\ q.keepalive # "active"
    BY <1>10, <1>12 DEF Plain
  <1> QED BY <1>11, <1>13, <1>14

\* process_requests up to its loop, and the connections taken between two requests.
LEMMA AnswerTake ==
    ASSUME BoaInv, BoaInv', AnswerInv, First \/ Accept
    PROVE  AnswerInv'
  <1>1. /\ UNCHANGED <<block, ret, src>>
        /\ \/ stage = "first" /\ stage' \in {"poll", "handle"}
           \/ stage = "accept" /\ stage' = "dispose" /\ UNCHANGED todo
    BY DEF First, Accept, Round
  <1>2. stage = "accept" => Head(todo) \in Requests
    BY AtHand
  <1>3. ASSUME NEW f \in Requests PROVE JustOver(f)' <=> JustOver(f)
    BY <1>1 DEF JustOver
  <1>4. CASE UNCHANGED <<req, net, open>>
    <2>1. Requests' = Requests
      <3>1. Requests = {f \in AllFds : open[f] = "socket"}
        BY SocketsAre
      <3>2. Requests' = {f \in AllFds : open'[f] = "socket"}
        BY DEF BoaInv, Accounted
      <3> QED BY <1>4, <3>1, <3>2
    <2>2. ASSUME NEW f \in Requests
          PROVE  (IF JustOver(f) THEN Over(req[f], net[f], open, src) ELSE Going(req[f], net[f], open, src))'
      <3>1. IF JustOver(f) THEN Over(req[f], net[f], open, src) ELSE Going(req[f], net[f], open, src)
        BY DEF AnswerInv
      <3> QED BY <1>1, <1>3, <1>4, <3>1
    <2>3. SourcesListed(src') /\ (\A f \in Fds : Spoken(req'[f])) /\ \A f \in Fds \ Requests : req'[f].logline = "no"
      BY <1>1, <1>4 DEF AnswerInv
    <2> QED BY <2>1, <2>2, <2>3 DEF AnswerInv
  <1>5. CASE ~UNCHANGED <<req, net, open>>
    <2>1. get_request /\ UNCHANGED block
      BY <1>1, <1>5 DEF First, Accept
    <2>4. PICK fd \in Fds : fd = LowestFree(open) /\ fd \notin Requests /\ open[fd] = "free"
      BY <2>1, <1>5, GotLists
    <2> DEFINE conn == NewRequest(ka_max, <<>>)
               nw == [NoNet EXCEPT !.more = Head(backlog)]
               w0 == [r |-> conn, n |-> nw, ret |-> 0]
               w == send_r(w0, 503)
               late == [w.r EXCEPT !.status = "DONE"]
               tooMany == fd > max_connections
               r1 == IF tooMany THEN late ELSE conn
               n1 == IF tooMany THEN w.n ELSE nw
    <2>5. /\ req' = [req EXCEPT ![fd] = r1] /\ net' = [net EXCEPT ![fd] = n1]
          /\ open' = [open EXCEPT ![fd] = "socket"]
      BY <1>5, <2>1, <2>4, Zenon DEF get_request
    <2>6. /\ Spoken(conn) /\ \A m, fds, c : Going(conn, m, fds, c)
      <3>1. conn = NewRequest(ka_max, <<>>)
        OBVIOUS
      <3> HIDE DEF conn
      <3> QED BY ONLY <3>1, FreshSpoken
    <2>7. /\ Spoken(late) /\ \A m, fds, c : Going(late, m, fds, c)
      <3>1. w0 = [r |-> NewRequest(ka_max, <<>>), n |-> [NoNet EXCEPT !.more = Head(backlog)], ret |-> 0]
        OBVIOUS
      <3>2. w = send_r(w0, 503)
        OBVIOUS
      <3>3. late = [w.r EXCEPT !.status = "DONE"]
        OBVIOUS
      <3> HIDE DEF w0, w, late
      <3>4. Spoken(late) /\ \A m, fds, c : Going(late, m, fds, c)
        <4> DEFINE x == Head(backlog)
                   k == ka_max
        <4>1. w0 = [r |-> NewRequest(k, <<>>), n |-> [NoNet EXCEPT !.more = x], ret |-> 0]
          BY <3>1
        <4> HIDE DEF x, k
        <4>2. Late(k, x, w0, w, late)
          BY <3>2, <3>3, <4>1 DEF Late
        <4> QED BY ONLY <4>2, LateSpoken
      <3> QED BY <3>4
    <2> HIDE DEF conn, late, w, tooMany, n1
    <2>8. /\ Spoken(r1) /\ \A m, fds, c : Going(r1, m, fds, c)
      BY <2>6, <2>7
    <2> HIDE DEF r1
    <2>9. DOMAIN req = Fds /\ DOMAIN net = Fds /\ DOMAIN open = AllFds /\ fd \in AllFds
      BY DEF BoaInv, TablesOK, InputsOK, AllFds
    <2>10. open[fd] = "free"
      BY <2>4
    <2>11. Requests' = Requests \cup {fd}
      <3>1. Requests = {f \in AllFds : open[f] = "socket"}
        BY SocketsAre
      <3>2. Requests' = {f \in AllFds : open'[f] = "socket"}
        BY DEF BoaInv, Accounted
      <3> QED BY <2>5, <2>9, <3>1, <3>2
    <2>12. req'[fd] = r1 /\ \A g \in Fds \ {fd} : req'[g] = req[g] /\ net'[g] = net[g]
      BY <2>5, <2>9
    <2>13. ASSUME NEW g \in Requests
           PROVE  (IF JustOver(g) THEN Over(req[g], net[g], open, src)
                   ELSE Going(req[g], net[g], open, src))'
      <3>1. RequestOK(req[g], open) /\ g \in Fds /\ (req[g].status \in Pipes => req[g].data_fd # -1)
        BY RequestWorks
      <3>2. req[g].data_fd # -1 => open'[req[g].data_fd] = open[req[g].data_fd]
        <4>1. req[g].data_fd # -1 => req[g].data_fd \in AllFds /\ open[req[g].data_fd] # "free"
          BY <3>1 DEF RequestOK
        <4> QED BY <2>5, <2>9, <2>10, <4>1
      <3>3. /\ Over(req[g], net[g], open, src) => Over(req[g], net[g], open', src')
            /\ Going(req[g], net[g], open, src) => Going(req[g], net[g], open', src')
        <4> DEFINE o2 == open'
                   s2 == src'
        <4>1. req[g].data_fd # -1 => o2[req[g].data_fd] = open[req[g].data_fd] /\ s2[req[g].data_fd] = src[req[g].data_fd]
          BY <1>1, <3>2
        <4> HIDE DEF o2, s2
        <4>2. /\ Over(req[g], net[g], open, src) => Over(req[g], net[g], o2, s2)
              /\ Going(req[g], net[g], open, src) => Going(req[g], net[g], o2, s2)
          BY <3>1, <4>1, GoingElsewhere
        <4> QED BY <4>2 DEF o2, s2
      <3>4. IF JustOver(g) THEN Over(req[g], net[g], open, src) ELSE Going(req[g], net[g], open, src)
        BY DEF AnswerInv
      <3>5. req'[g] = req[g] /\ net'[g] = net[g]
        BY <2>4, <2>12, <3>1
      <3> QED BY <1>3, <3>3, <3>4, <3>5
    <2>14. ~JustOver(fd)'
      BY <1>1, <1>2, <2>4 DEF JustOver
    <2>15. Going(req'[fd], net'[fd], open', src')
      BY <2>8, <2>12
    <2>16. SourcesListed(src') /\ (\A f \in Fds : Spoken(req'[f]))
      BY <1>1, <2>8, <2>12 DEF AnswerInv
    <2>17. \A f \in Fds \ Requests' : req'[f].logline = "no"
      BY <2>11, <2>12 DEF AnswerInv
    <2> QED BY <2>11, <2>13, <2>14, <2>15, <2>16, <2>17 DEF AnswerInv
  <1> QED BY <1>4, <1>5

\* An answer that is complete, but not yet written.
LEMMA OverDone ==
    ASSUME NEW r, Spoken(r), NEW n, NEW fds, NEW s, Over(r, n, fds, s), r.buf # <<>>, r.status # "DEAD",
           NEW q, q = [r EXCEPT !.status = "DONE", !.age = 0]
    PROVE  Spoken(q) /\ Going(q, n, fds, s)
  <1> DEFINE d == [r EXCEPT !.status = "DONE"]
  <1>1. Reworded(d, r) /\ d.keepalive = r.keepalive /\ d.response_status = r.response_status
        /\ d.status = "DONE"
    BY SpokenStatus
  <1>2. Spoken(d) /\ Said(d) = Said(r) /\ d.method = r.method /\ d.filesize = r.filesize
        /\ d.data_fd = r.data_fd /\ d.uri = r.uri
    BY <1>1 DEF Reworded, Alike
  <1>3. q = [d EXCEPT !.age = 0]
    <2>1. "status" \in DOMAIN r
      BY DEF Spoken, Fields
    <2> QED BY <2>1
  <1> HIDE DEF d
  <1>4. Fields \subseteq DOMAIN q /\ \A x \in Fields : q[x] = d[x]
    <2>1. Fields \subseteq DOMAIN d /\ "age" \notin Fields
      BY <1>2 DEF Spoken, Fields
    <2> QED BY <1>3, <2>1
  <1>5. d.status \notin Pipes
    BY <1>1 DEF Pipes
  <1>6. Over(d, n, fds, s)
    <2>1. /\ \E k \in 0..Len(Said(d)) : Shaped(Said(d), k)
          /\ OneStatus(Said(d)) \/ Forkless(d)
          /\ d.keepalive = "active" /\ d.status # "DEAD" => Whole(d)
      BY <1>1, <1>2 DEF Over, Forkless, Whole
    <2>2. d.response_status = 200 /\ d.status # "DEAD" /\ d.method # "HEAD" /\ n.peer # "reset" =>
             d.data_fd = -1 /\ DataCount(Said(d)) = d.filesize
      BY <1>1, <1>2 DEF Over
    <2> QED BY <1>5, <2>1, <2>2 DEF Over
  <1>7. Going(d, n, fds, s)
    BY <1>1, <1>6, GoesOn
  <1>8. Spoken(d) /\ Fields \subseteq DOMAIN q /\ \A x \in Fields : q[x] = d[x]
    BY <1>2, <1>4
  <1>9. Spoken(q) /\ \A m, f, c : Going(d, m, f, c) => Going(q, m, f, c)
    BY ONLY <1>8, SameFields
  <1> QED BY <1>7, <1>9

\* What is done with a request that has been run.
LEMMA AnswerDispose ==
    ASSUME BoaInv, BoaInv', AnswerInv, Dispose
    PROVE  AnswerInv'
  <1>1. PICK f \in Requests : f = Head(todo)
    BY AtHand DEF Dispose
  <1> DEFINE r == req[f]
  <1>2. stage = "dispose" /\ stage' \notin {"accept", "dispose"}
    BY DEF Dispose, Round
  <1>3. DOMAIN req = Fds /\ DOMAIN net = Fds /\ DOMAIN open = AllFds /\ f \in Fds /\ f \in AllFds
    BY RequestsFinite DEF BoaInv, TablesOK, InputsOK, AllFds
  <1>4. Spoken(r) /\ RequestOK(r, open)
    BY RequestWorks
  <1>5. IF ret = 0 THEN Over(r, net[f], open, src) ELSE Going(r, net[f], open, src)
    BY <1>1, <1>2 DEF AnswerInv, JustOver
  <1>6. Requests = {g \in AllFds : open[g] = "socket"} /\ Requests' = {g \in AllFds : open'[g] = "socket"}
    BY SocketsAre DEF BoaInv, Accounted
  <1> HIDE DEF r
  <1>7. ASSUME NEW q, Spoken(q), req'[f] = q, \A g \in Fds \ {f} : req'[g] = req[g] /\ net'[g] = net[g],
               SourcesListed(src'), Requests' \subseteq Requests,
               f \in Requests' => Going(q, net'[f], open', src'),
               f \notin Requests' => q.logline = "no", Requests \ {f} \subseteq Requests',
               \A d \in AllFds : open[d] # "free" /\ d \notin {f} \cup HeldBy(r) =>
                   open'[d] = open[d] /\ src'[d] = src[d]
        PROVE  AnswerInv'
    <2>1. ASSUME NEW g \in Requests, g # f
          PROVE  Going(req'[g], net'[g], open', src')
      <3>1. Going(req[g], net[g], open, src) /\ RequestOK(req[g], open) /\ g \in Fds
            /\ (req[g].status \in Pipes => req[g].data_fd # -1)
        BY <1>1, <2>1, RequestWorks DEF JustOver
      <3>2. req[g].data_fd # -1 =>
               open'[req[g].data_fd] = open[req[g].data_fd] /\ src'[req[g].data_fd] = src[req[g].data_fd]
        <4> SUFFICES ASSUME req[g].data_fd # -1
                     PROVE  open'[req[g].data_fd] = open[req[g].data_fd] /\ src'[req[g].data_fd] = src[req[g].data_fd]
          OBVIOUS
        <4>1. req[g].data_fd \in AllFds /\ open[req[g].data_fd] \notin {"free", "socket"}
          BY <3>1 DEF RequestOK
        <4>2. req[g].data_fd # f
          BY <1>6, <4>1
        <4>3. req[g].data_fd \in HeldBy(req[g])
          BY DEF HeldBy
        <4>4. HeldBy(req[g]) \cap HeldBy(r) = {}
          BY <2>1 DEF BoaInv, Accounted, r
        <4> QED BY <1>7, <4>1, <4>2, <4>3, <4>4
      <3> DEFINE o2 == open'
                 s2 == src'
      <3>3. req[g].data_fd # -1 => o2[req[g].data_fd] = open[req[g].data_fd] /\ s2[req[g].data_fd] = src[req[g].data_fd]
        BY <3>2
      <3> HIDE DEF o2, s2
      <3>4. Going(req[g], net[g], o2, s2)
        BY <3>1, <3>3, GoingElsewhere
      <3> QED BY <1>7, <2>1, <3>1, <3>4 DEF o2, s2
    <2>2. \A g \in Requests' : Going(req'[g], net'[g], open', src')
      BY <1>7, <2>1
    <2>3. \A g \in Fds : Spoken(req'[g])
      BY <1>7 DEF AnswerInv
    <2>4. \A g \in Fds \ Requests' : req'[g].logline = "no"
      BY <1>7 DEF AnswerInv
    <2> QED BY <1>2, <1>7, <2>2, <2>3, <2>4 DEF AnswerInv, JustOver
  <1>8. CASE ret = -1
    <2>1. UNCHANGED <<req, net, open, src>>
      BY <1>1, <1>8 DEF Dispose, data
    <2>2. Going(r, net[f], open, src)
      BY <1>5, <1>8
    <2>3. SourcesListed(src')
      BY <2>1 DEF AnswerInv
    <2> QED BY <1>4, <1>6, <1>7, <2>1, <2>2, <2>3 DEF r
  <1>9. CASE ret # -1 /\ ~free_request(f)
    <2> DEFINE done == [r EXCEPT !.status = "DONE", !.age = 0]
               on == [r EXCEPT !.age = 0]
    <2>1. /\ UNCHANGED <<net, open, src>>
          /\ \/ /\ ret = 0 /\ r.buf # <<>> /\ r.status # "DEAD"
                /\ req' = [req EXCEPT ![f].status = "DONE", ![f].age = 0]
             \/ ret > 0 /\ req' = [req EXCEPT ![f].age = 0]
      BY <1>1, <1>9 DEF Dispose, r
    <2>2. \/ /\ ret = 0 /\ r.buf # <<>> /\ r.status # "DEAD"
             /\ req' = [req EXCEPT ![f] = done]
          \/ ret > 0 /\ req' = [req EXCEPT ![f] = on]
      BY <1>3, <2>1 DEF r
    <2>3. ASSUME ret = 0, r.buf # <<>>, r.status # "DEAD"
          PROVE  Spoken(done) /\ Going(done, net[f], open, src)
      <3>1. Over(r, net[f], open, src)
        BY <1>5, <2>3
      <3>2. done = [r EXCEPT !.status = "DONE", !.age = 0]
        OBVIOUS
      <3> HIDE DEF done
      <3> DEFINE m == net[f]
      <3>3. Over(r, m, open, src)
        BY <3>1
      <3> HIDE DEF m
      <3>4. Spoken(done) /\ Going(done, m, open, src)
        BY <1>4, <2>3, <3>2, <3>3, OverDone
      <3> QED BY <3>4 DEF m
    <2>4. ASSUME ret > 0
          PROVE  Spoken(on) /\ Going(on, net[f], open, src)
      <3>1. Going(r, net[f], open, src)
        BY <1>5, <2>4
      <3>2. Fields \subseteq DOMAIN on /\ \A x \in Fields : on[x] = r[x]
        <4>1. Fields \subseteq DOMAIN r /\ "age" \notin Fields
          BY <1>4 DEF Spoken, Fields
        <4> QED BY <4>1
      <3> HIDE DEF on
      <3> QED BY <1>4, <3>1, <3>2, SameFields
    <2> HIDE DEF done, on
    <2>5. PICK q : Spoken(q) /\ Going(q, net[f], open, src) /\ req' = [req EXCEPT ![f] = q]
      BY <2>2, <2>3, <2>4
    <2>6. req'[f] = q /\ \A g \in Fds \ {f} : req'[g] = req[g] /\ net'[g] = net[g]
      BY <1>3, <2>1, <2>5
    <2>7. SourcesListed(src')
      BY <2>1 DEF AnswerInv
    <2> QED BY <1>6, <1>7, <2>1, <2>5, <2>6, <2>7
  <1>10. CASE ret # -1 /\ free_request(f)
    <2> DEFINE gone == IF Kept(r) THEN Released(f) ELSE {f} \cup Released(f)
    <2>1. /\ open' = [g \in AllFds |-> IF g \in gone THEN "free" ELSE open[g]]
          /\ src' = [g \in AllFds |-> IF g \in gone THEN NoSrc ELSE src[g]]
      BY <1>10 DEF free_request, r
    <2>2. Released(f) = HeldBy(r) /\ f \notin HeldBy(r)
      <3>1. Released(f) = HeldBy(r)
        BY DEF Released, HeldBy, r
      <3>2. \A d \in HeldBy(r) : open[d] # "socket"
        BY <1>4 DEF RequestOK, HeldBy
      <3> QED BY <1>6, <3>1, <3>2
    <2>3. gone = IF Kept(r) THEN HeldBy(r) ELSE {f} \cup HeldBy(r)
      BY <2>2
    <2> HIDE DEF gone
    <2>4. SourcesListed(src')
      <3>1. {"alive", "left", "pipe"} \subseteq DOMAIN NoSrc /\ Listed(NoSrc.pipe) /\ Listed(NoSrc.left)
        BY ListedNew DEF NoSrc
      <3> QED BY <2>1, <3>1 DEF AnswerInv, SourcesListed
    <2>5. \A d \in AllFds : d \notin {f} \cup HeldBy(r) => open'[d] = open[d] /\ src'[d] = src[d]
      BY <2>1, <2>3
    <2>6. \A d \in HeldBy(r) : open[d] # "socket"
      BY <1>4 DEF RequestOK, HeldBy
    <2>7. CASE Kept(r)
      <3> DEFINE q == NextOn(r)
      <3>1. req' = [req EXCEPT ![f] = q] /\ UNCHANGED net
        BY <1>10, <2>7 DEF free_request, r
      <3>2. Requests' = Requests
        BY <1>6, <2>1, <2>3, <2>6, <2>7
      <3>3. Spoken(q) /\ \A m, fds, c : Going(q, m, fds, c)
        <4>1. q = NewRequest(r.kacount - 1, Drop(r.stream, r.parse_pos))
          BY DEF NextOn
        <4> HIDE DEF q
        <4> DEFINE k == r.kacount - 1
                   s == Drop(r.stream, r.parse_pos)
        <4>2. q = NewRequest(k, s)
          BY <4>1
        <4> HIDE DEF k, s
        <4> QED BY ONLY <4>2, FreshSpoken
      <3> HIDE DEF q
      <3>4. req'[f] = q /\ \A g \in Fds \ {f} : req'[g] = req[g] /\ net'[g] = net[g]
        BY <1>3, <3>1
      <3> QED BY <1>7, <2>4, <2>5, <3>2, <3>3, <3>4
    <2>8. CASE ~Kept(r)
      <3>1. req' = [req EXCEPT ![f] = NoReq] /\ net' = [net EXCEPT ![f] = NoNet]
        BY <1>10, <2>8 DEF free_request, r
      <3>2. Requests' = Requests \ {f}
        BY <1>6, <2>1, <2>3, <2>6, <2>8
      <3>3. Spoken(NoReq) /\ NoReq.logline = "no"
        BY FreshSpoken DEF NoReq
      <3>4. req'[f] = NoReq /\ \A g \in Fds \ {f} : req'[g] = req[g] /\ net'[g] = net[g]
        BY <1>3, <3>1
      <3> QED BY <1>7, <2>4, <2>5, <3>2, <3>3, <3>4
    <2> QED BY <2>7, <2>8
  <1> QED BY <1>8, <1>9, <1>10

\* The next token of a source goes into its pipe.
LEMMA Produced ==
    ASSUME NEW p, NEW l, Listed(p), Listed(l), l # <<>>
    PROVE  /\ Listed(Append(p, Head(l))) /\ Listed(Tail(l))
           /\ Append(p, Head(l)) \o Tail(l) = p \o l
  <1> DEFINE U == ToSet(p) \cup ToSet(l)
             x == Append(p, Head(l))
             y == Tail(l)
  <1>1. p \in Seq(U) /\ l \in Seq(U)
    BY SeqMonotonic DEF Listed
  <1> HIDE DEF U
  <1>2. x \in Seq(U) /\ y \in Seq(U)
    BY <1>1
  <1>3. x \o y = p \o l
    BY <1>1
  <1> HIDE DEF x, y
  <1>4. Listed(x) /\ Listed(y)
    BY <1>2, ListedAny
  <1> QED BY <1>3, <1>4 DEF x, y

\* A program goes on, ends or crashes.
Continues(e, e2) ==
    \/ /\ e.left # <<>> /\ e2.left = Tail(e.left) /\ e2.pipe = Append(e.pipe, Head(e.left))
    \/ e2.left = e.left /\ e2.pipe = e.pipe

\* All that its pipe has given and will give is the same.
LEMMA GoingProduced ==
    ASSUME NEW r, NEW n, NEW fds, NEW s, Works(r, n, fds, s), NEW s2, r.data_fd \in AllFds,
           fds[r.data_fd] = "pipe", s[r.data_fd].alive = "yes",
           Continues(s[r.data_fd], s2[r.data_fd])
    PROVE  Going(r, n, fds, s2)
  <1> DEFINE e == s[r.data_fd]
             e2 == s2[r.data_fd]
  <1>1. Spoken(r) /\ SourcesListed(s) /\ Going(r, n, fds, s)
    BY DEF Works
  <1>2. Listed(e.pipe) /\ Listed(e.left)
    BY <1>1 DEF SourcesListed
  <1>3. e2.pipe \o e2.left = e.pipe \o e.left
    <2>1. Continues(e, e2)
      OBVIOUS
    <2> HIDE DEF e, e2
    <2>2. CASE e.left # <<>> /\ e2.left = Tail(e.left) /\ e2.pipe = Append(e.pipe, Head(e.left))
      <3> DEFINE p == e.pipe
                 l == e.left
      <3>1. Listed(p) /\ Listed(l) /\ l # <<>>
        BY <1>2, <2>2
      <3> HIDE DEF p, l
      <3>2. Append(p, Head(l)) \o Tail(l) = p \o l
        BY <3>1, Produced
      <3> QED BY <2>2, <3>2 DEF p, l
    <2>3. CASE e2.left = e.left /\ e2.pipe = e.pipe
      BY <2>3
    <2> QED BY <2>1, <2>2, <2>3 DEF Continues
  <1>4. Coming(r, s2) = Coming(r, s)
    BY <1>3 DEF Coming
  <1>5. CASE r.status \in Pipes
    <2>1. Streamed(r, fds, s)
      BY <1>1, <1>5 DEF Going
    <2>2. Piped(r, s) /\ r.cgi_status # "DONE"
      BY <2>1 DEF Streamed
    <2>3. Piped(r, s2)
      BY <1>4, <2>2 DEF Piped
    <2>4. Streamed(r, fds, s2)
      BY <1>4, <2>1, <2>2, <2>3 DEF Streamed
    <2> QED BY <1>5, <2>4, GoesOn
  <1>6. CASE r.status \notin Pipes
    <2>1. Over(r, n, fds, s) => Over(r, n, fds, s2)
      <3> SUFFICES ASSUME Over(r, n, fds, s) PROVE Over(r, n, fds, s2)
        OBVIOUS
      <3>1. /\ \E k \in 0..Len(Said(r)) : Shaped(Said(r), k)
            /\ OneStatus(Said(r)) \/ Forkless(r)
            /\ r.keepalive = "active" /\ r.status # "DEAD" =>
                  (r.got = <<>> /\ r.buf = <<>> /\ Dropped(r, n)) \/ Whole(r)
        BY DEF Over
      <3>2. r.response_status = 200 /\ r.status # "DEAD" /\ r.method # "HEAD" /\ n.peer # "reset" =>
               r.data_fd = -1 /\ DataCount(Said(r)) = r.filesize
        BY <1>6 DEF Over
      <3> QED BY <1>6, <3>1, <3>2 DEF Over
    <2> QED BY <1>1, <1>6, <2>1 DEF Going
  <1> QED BY <1>5, <1>6

\* While the server is in select, or has been signalled.
LEMMA AnswerNet ==
    ASSUME BoaInv, AnswerInv, NEW f \in Live, Send(f) \/ Receive(f) \/ Leave(f)
    PROVE  AnswerInv'
  <1>1. DOMAIN net = Fds /\ f \in Fds /\ DOMAIN net[f] = DOMAIN NoNet
    BY DEF BoaInv, InputsOK, NetTyped, Live
  <1>2. \E n : /\ NetStep(f, n) /\ (net[f].peer = "reset" => n.peer = "reset")
               /\ net[f].peer # "open" => n.peer # "open"
    <2>1. {"inq", "more", "peer", "room"} \subseteq DOMAIN net[f]
      BY <1>1 DEF NoNet
    <2>2. CASE Send(f)
      <3> DEFINE n == [net[f] EXCEPT !.inq = @ \o Head(net[f].more), !.more = Tail(@)]
      <3>1. NetStep(f, n)
        BY <2>2 DEF Send
      <3>2. n.peer = net[f].peer
        BY <2>1
      <3> HIDE DEF n
      <3> QED BY <3>1, <3>2
    <2>3. CASE Receive(f)
      <3> DEFINE n == [net[f] EXCEPT !.room = SndBuf]
      <3>1. NetStep(f, n)
        BY <2>3 DEF Receive
      <3> QED BY <2>1, <3>1
    <2>4. CASE Leave(f)
      BY <2>4 DEF Leave
    <2> QED BY <2>2, <2>3, <2>4
  <1>3. PICK n : /\ NetStep(f, n) /\ (net[f].peer = "reset" => n.peer = "reset")
                 /\ net[f].peer # "open" => n.peer # "open"
    BY <1>2
  <1>4. /\ stage = "select" /\ net' = [net EXCEPT ![f] = n]
        /\ UNCHANGED <<stage, todo, ret, ready, block, req, open, src>>
    BY <1>3 DEF NetStep, server
  <1>5. Requests' = Requests
    BY <1>4 DEF Requests
  <1>6. ASSUME NEW g \in Requests PROVE Going(req[g], net'[g], open, src)
    <2>1. Going(req[g], net[g], open, src) /\ g \in Fds /\ (req[g].status \in Pipes => req[g].data_fd # -1)
      BY <1>4, RequestWorks DEF JustOver
    <2> DEFINE m == net'[g]
    <2>2. (net[g].peer = "reset" => m.peer = "reset") /\ (net[g].peer # "open" => m.peer # "open")
      BY <1>1, <1>3, <1>4, <2>1
    <2> HIDE DEF m
    <2>3. Going(req[g], m, open, src)
      BY <2>1, <2>2, GoingElsewhere
    <2> QED BY <2>3 DEF m
  <1> QED BY <1>4, <1>5, <1>6 DEF AnswerInv, JustOver

\* A source goes on.
LEMMA AnswerProduce ==
    ASSUME BoaInv, AnswerInv, NEW d \in AllFds, Produce(d)
    PROVE  AnswerInv'
  <1> DEFINE e == src[d]
  <1>1. /\ stage = "select" /\ open[d] = "pipe" /\ e.alive = "yes"
        /\ UNCHANGED <<stage, todo, ret, ready, block, req, net, open>>
    BY DEF Produce, server
  <1>2. SourcesListed(src) /\ DOMAIN src = AllFds /\ {"alive", "left", "pipe"} \subseteq DOMAIN e
        /\ Listed(e.pipe) /\ Listed(e.left)
    BY DEF AnswerInv, SourcesListed
  <1> DEFINE s == Append(e.pipe, Head(e.left))
             t == Tail(e.left)
             a == [e EXCEPT !.pipe = s, !.left = t]
             b == [e EXCEPT !.alive = "no"]
  <1>3. (e.left # <<>> /\ src' = [src EXCEPT ![d] = a]) \/ src' = [src EXCEPT ![d] = b]
    <2>1. \/ e.left # <<>> /\ src' = [src EXCEPT ![d].pipe = Append(@, Head(src[d].left)), ![d].left = Tail(@)]
          \/ src' = [src EXCEPT ![d].alive = "no"]
      BY DEF Produce
    <2>2. CASE e.left # <<>> /\ src' = [src EXCEPT ![d].pipe = Append(@, Head(src[d].left)), ![d].left = Tail(@)]
      BY <1>2, <2>2
    <2>3. CASE src' = [src EXCEPT ![d].alive = "no"]
      BY <1>2, <2>3
    <2> QED BY <2>1, <2>2, <2>3
  <1>4. ASSUME e.left # <<>>
        PROVE  Listed(s) /\ Listed(t)
    <2> DEFINE p == e.pipe
               l == e.left
    <2>1. Listed(p) /\ Listed(l) /\ l # <<>>
      BY <1>2, <1>4
    <2> HIDE DEF p, l
    <2>2. Listed(Append(p, Head(l))) /\ Listed(Tail(l))
      BY <2>1, Produced
    <2> QED BY <2>2 DEF p, l
  <1>5. PICK e2 : /\ src' = [src EXCEPT ![d] = e2] /\ Continues(e, e2)
                  /\ {"alive", "left", "pipe"} \subseteq DOMAIN e2
                  /\ Listed(e2.pipe) /\ Listed(e2.left)
    <2>1. CASE e.left # <<>> /\ src' = [src EXCEPT ![d] = a]
      <3>1. a.pipe = s /\ a.left = t /\ DOMAIN a = DOMAIN e
        BY <1>2
      <3>2. Continues(e, a)
        BY <2>1, <3>1 DEF Continues
      <3> HIDE DEF s, t, a
      <3> QED BY <1>2, <1>4, <2>1, <3>1, <3>2
    <2>2. CASE src' = [src EXCEPT ![d] = b]
      <3>1. b.pipe = e.pipe /\ b.left = e.left /\ DOMAIN b = DOMAIN e
        BY <1>2
      <3> HIDE DEF b
      <3>2. Continues(e, b)
        BY <3>1 DEF Continues
      <3> QED BY <1>2, <2>2, <3>1, <3>2
    <2> QED BY <1>3, <2>1, <2>2
  <1> HIDE DEF e, s, t, a, b
  <1>6. SourcesListed(src') /\ src'[d] = e2 /\ \A g \in AllFds : g # d => src'[g] = src[g]
    BY <1>2, <1>5, SourceSet
  <1>7. Requests' = Requests
    BY <1>1 DEF Requests
  <1>8. ASSUME NEW g \in Requests PROVE Going(req[g], net[g], open, src')
    <2>1. /\ Works(req[g], net[g], open, src) /\ Going(req[g], net[g], open, src)
          /\ req[g].status \in Pipes => req[g].data_fd # -1
          /\ req[g].data_fd # -1 => req[g].data_fd \in AllFds
      BY <1>1, RequestWorks DEF JustOver, RequestOK
    <2> DEFINE s2 == src'
    <2>2. CASE req[g].data_fd = d
      <3>1. Continues(src[req[g].data_fd], s2[req[g].data_fd]) /\ src[req[g].data_fd].alive = "yes"
            /\ req[g].data_fd \in AllFds /\ open[req[g].data_fd] = "pipe"
        BY <1>1, <1>5, <1>6, <2>2 DEF e
      <3> HIDE DEF s2
      <3>2. Going(req[g], net[g], open, s2)
        BY <2>1, <3>1, GoingProduced
      <3> QED BY <3>2 DEF s2
    <2>3. CASE req[g].data_fd # d
      <3>1. req[g].data_fd # -1 => s2[req[g].data_fd] = src[req[g].data_fd]
        BY <1>6, <2>1, <2>3
      <3> HIDE DEF s2
      <3>2. Going(req[g], net[g], open, s2)
        BY <2>1, <3>1, GoingElsewhere
      <3> QED BY <3>2 DEF s2
    <2> QED BY <2>2, <2>3
  <1> QED BY <1>1, <1>6, <1>7, <1>8 DEF AnswerInv, JustOver

\* select, and the world around the server.
LEMMA AnswerWorld ==
    ASSUME BoaInv, AnswerInv, Poll \/ Select \/ World \/ (\E f \in Fds : Age(f)) \/ UNCHANGED vars
    PROVE  AnswerInv'
  <1>1. CASE Poll \/ Select \/ Connect \/ Signal \/ UNCHANGED vars
    <2>1. /\ UNCHANGED <<ready, block, req, net, open, src, ret, todo>>
          /\ stage' \in {"accept", "dispose"} <=> stage \in {"accept", "dispose"}
      BY <1>1 DEF Poll, Select, Connect, Signal, vars, server, data
    <2>2. Requests' = Requests
      BY <2>1 DEF Requests
    <2>3. \A f : JustOver(f)' <=> JustOver(f)
      BY <2>1 DEF JustOver
    <2> QED BY <2>1, <2>2, <2>3 DEF AnswerInv
  <1>2. CASE \E f \in Live : Send(f) \/ Receive(f) \/ Leave(f)
    BY <1>2, AnswerNet
  <1>3. CASE \E f \in AllFds : Produce(f)
    BY <1>3, AnswerProduce
  <1>4. CASE \E f \in Fds : Age(f)
    <2>1. PICK f \in Fds : Age(f)
      BY <1>4
    <2> DEFINE older == req[f].age + 1
               q == [req[f] EXCEPT !.age = older]
    <2>2. /\ UNCHANGED <<stage, ready, block, net, open, src, ret, todo>> /\ stage = "select"
          /\ req' = [req EXCEPT ![f].age = @ + 1]
      BY <2>1 DEF Age, server
    <2>3. DOMAIN req = Fds
      BY DEF BoaInv, TablesOK
    <2>4. req' = [req EXCEPT ![f] = q]
      BY <2>2, <2>3
    <2>5. Spoken(req[f])
      BY DEF AnswerInv
    <2> HIDE DEF older
    <2>6. Fields \subseteq DOMAIN q /\ \A x \in Fields : q[x] = req[f][x]
      <3>1. Fields \subseteq DOMAIN req[f] /\ "age" \notin Fields
        BY <2>5 DEF Spoken, Fields
      <3> QED BY <3>1
    <2> HIDE DEF q
    <2>7. /\ Spoken(q) /\ q.logline = req[f].logline
          /\ \A n, fds, s : Going(req[f], n, fds, s) => Going(q, n, fds, s)
      BY <2>5, <2>6, SameFields
    <2>8. req'[f] = q /\ \A g \in Fds \ {f} : req'[g] = req[g]
      BY <2>3, <2>4
    <2>9. Requests' = Requests /\ Requests \subseteq Fds
      BY <2>2, RequestsFinite DEF Requests, BoaInv
    <2>10. ASSUME NEW g \in Requests PROVE Going(req'[g], net[g], open, src)
      <3>1. Going(req[g], net[g], open, src)
        BY <2>2, RequestWorks DEF JustOver
      <3> QED BY <2>7, <2>8, <2>9, <3>1
    <2>11. \A g \in Fds : Spoken(req'[g]) /\ req'[g].logline = req[g].logline
      BY <2>7, <2>8 DEF AnswerInv
    <2> QED BY <2>2, <2>9, <2>10, <2>11 DEF AnswerInv, JustOver
  <1> QED BY <1>1, <1>2, <1>3, <1>4 DEF World

\* The handlers keep the sockets, and a request that has been logged.
LEMMA RunKeeps ==
    ASSUME BoaInv, IdleInv, AnswerInv,
           \/ ReadHeader \/ ReadBody \/ WriteBody \/ ProcessGet \/ ReadFromPipe \/ WriteFromPipe
           \/ Flush \/ Done \/ Dead, NEW g \in Fds
    PROVE  /\ req[g].logline = "yes" => req'[g].logline = "yes"
           /\ open[g] = "socket" => open'[g] = "socket"
  <1>1. PICK f \in Requests : \E v :
              /\ stage = "handle" /\ f = Head(todo) /\ f \in Fds
              /\ Outcome(Work(f), v) /\ Handled(f, v)
    BY RunSaid
  <1>2. PICK v : f = Head(todo) /\ f \in Fds /\ Outcome(Work(f), v) /\ Handled(f, v)
    BY <1>1
  <1>3. PICK g0 \in Requests : \E v0 :
              /\ stage = "handle" /\ g0 = Head(todo) /\ g0 \in Fds
              /\ Sound(v0, open, Others(g0), Uses(g0)) /\ Handled(g0, v0)
              /\ v0.ret = -1 => Sleepy(v0.r)
    BY RunSound
  <1>4. PICK v0 : Sound(v0, open, Others(f), Uses(f)) /\ Handled(f, v0)
    BY <1>2, <1>3
  <1>5. open[g] = "socket" => open'[g] = "socket"
    <2>1. open' = v0.open /\ g \in AllFds
      BY <1>4 DEF Handled, AllFds
    <2> QED BY <1>4, <2>1 DEF Sound, Holds
  <1>6. req[f].logline = "yes" => v.r.logline = "yes"
    BY <1>2 DEF Outcome, Work
  <1> DEFINE q == IF sigterm_flag # 0 THEN SQUASH_KA(v.r) ELSE v.r
  <1>7. q.logline = v.r.logline
    <2>1. Spoken(v.r)
      BY <1>2 DEF Outcome
    <2>2. SQUASH_KA(v.r).logline = v.r.logline
      BY <2>1, OverSquash
    <2> QED BY <2>2
  <1> HIDE DEF q
  <1>8. req' = [req EXCEPT ![f] = q] /\ DOMAIN req = Fds
    BY <1>2 DEF Handled, q, BoaInv, TablesOK
  <1> QED BY <1>2, <1>5, <1>6, <1>7, <1>8

\* So does all the rest, except for Dispose.
LEMMA NextKeeps ==
    ASSUME BoaInv, IdleInv, AnswerInv, [Next]_vars, ~Dispose, NEW g \in Fds
    PROVE  /\ req[g].logline = "yes" => req'[g].logline = "yes"
           /\ open[g] = "socket" => open'[g] = "socket"
  <1>1. /\ DOMAIN req = Fds /\ DOMAIN open = AllFds /\ g \in AllFds
        /\ Requests = {f \in AllFds : open[f] = "socket"}
    BY SocketsAre DEF BoaInv, TablesOK, AllFds
  <1>2. CASE \/ ReadHeader \/ ReadBody \/ WriteBody \/ ProcessGet \/ ReadFromPipe \/ WriteFromPipe
             \/ Flush \/ Done \/ Dead
    BY <1>2, RunKeeps
  <1>3. CASE Signals
    <2>1. UNCHANGED req /\ open' = IF sigterm_flag = 1 THEN [open EXCEPT ![server_s] = "free"] ELSE open
      BY <1>3 DEF Signals
    <2>2. open[server_s] # "socket"
      BY DEF BoaInv, TablesOK
    <2> QED BY <1>1, <2>1, <2>2
  <1>4. CASE fdset_update
    <2> DEFINE q0 == [bits |-> bits, block |-> block, max_fd |-> max_fd,
                      ready |-> ready, req |-> req]
               q == Woken(q0, block)
    <2>1. req' = q.req /\ UNCHANGED open
      BY <1>4, Zenon DEF fdset_update
    <2>2. Fated(q0, req)
      BY DEF Fated, BoaInv, TablesOK
    <2>3. \A f \in Fds : "status" \in DOMAIN req[f]
      BY DEF AnswerInv, Spoken, Fields
    <2>4. block \in Seq(Fds)
      BY DEF BoaInv, ListsOK
    <2> HIDE DEF q0
    <2>5. Fated(q, req)
      BY ONLY <2>2, <2>3, <2>4, WokenFated
    <2> HIDE DEF q
    <2>6. req'[g] \in {req[g], [req[g] EXCEPT !.status = "DEAD"], [req[g] EXCEPT !.status = @]}
      BY <2>1, <2>5 DEF Fated
    <2>7. "logline" \in DOMAIN req[g]
      BY DEF AnswerInv, Spoken, Fields
    <2>8. req'[g].logline = req[g].logline
      BY <2>6, <2>7
    <2> QED BY <2>1, <2>8
  <1>5. CASE First \/ Accept
    <2>1. CASE UNCHANGED <<req, open>>
      BY <2>1
    <2>2. CASE ~UNCHANGED <<req, open>>
      <3>1. get_request /\ UNCHANGED block
        BY <1>5, <2>2 DEF First, Accept
      <3>2. PICK fd \in Fds : fd = LowestFree(open) /\ fd \notin Requests /\ open[fd] = "free"
        BY <2>2, <3>1, GotLists
      <3>3. PICK r : req' = [req EXCEPT ![fd] = r] /\ open' = [open EXCEPT ![fd] = "socket"]
        BY <2>2, <3>1, <3>2, Zenon DEF get_request
      <3>4. req[fd].logline = "no"
        BY <3>2 DEF AnswerInv
      <3> QED BY <1>1, <3>2, <3>3, <3>4
    <2> QED BY <2>1, <2>2
  <1>6. CASE Poll \/ Select \/ Connect \/ Signal \/ UNCHANGED vars
    <2>1. UNCHANGED <<req, open>>
      BY <1>6 DEF Poll, Select, Connect, Signal, vars, data
    <2> QED BY <2>1
  <1>7. CASE \E f \in Live : Send(f) \/ Receive(f) \/ Leave(f)
    <2>1. UNCHANGED <<req, open>>
      BY <1>7 DEF Send, Receive, Leave, NetStep
    <2> QED BY <2>1
  <1>8. CASE \E f \in AllFds : Produce(f)
    <2>1. UNCHANGED <<req, open>>
      BY <1>8 DEF Produce
    <2> QED BY <2>1
  <1>9. CASE \E f \in Fds : Age(f)
    <2>1. PICK f \in Fds : Age(f)
      BY <1>9
    <2>2. req' = [req EXCEPT ![f].age = @ + 1] /\ UNCHANGED open
      BY <2>1 DEF Age
    <2>3. "logline" \in DOMAIN req[g]
      BY DEF AnswerInv, Spoken, Fields
    <2> QED BY <1>1, <2>2, <2>3
  <1> QED BY <1>2, <1>3, <1>4, <1>5, <1>6, <1>7, <1>8, <1>9 DEF Next, Server, World

\* What a step parts with, it parts with in free_request, of a request that is over.
LEMMA PartsOver ==
    ASSUME BoaInv, IdleInv, AnswerInv, [Next]_vars, NEW g \in Fds,
           \/ req[g].logline = "yes" /\ req'[g].logline = "no"
           \/ open[g] = "socket" /\ open'[g] = "free"
    PROVE  /\ g \in Requests /\ free_request(g) /\ Over(req[g], net[g], open, src)
           /\ req[g].buf = <<>> \/ req[g].status = "DEAD"
  <1>1. Dispose
    BY NextKeeps
  <1>2. stage = "dispose" /\ DOMAIN req = Fds /\ g \in AllFds
        /\ Requests = {f \in AllFds : open[f] = "socket"}
    BY <1>1, SocketsAre DEF Dispose, BoaInv, TablesOK, AllFds
  <1>3. PICK f \in Requests : f = Head(todo)
    BY <1>2, AtHand
  <1>4. "logline" \in DOMAIN req[g] /\ "logline" \in DOMAIN req[f] /\ f \in Fds
    BY RequestWorks DEF AnswerInv, Spoken, Fields
  <1>5. ret = 0 /\ free_request(f) /\ (req[f].buf = <<>> \/ req[f].status = "DEAD")
    <2>1. CASE UNCHANGED <<req, open>>
      BY <2>1
    <2>2. CASE req' = [req EXCEPT ![f].status = "DONE", ![f].age = 0] /\ UNCHANGED open
      BY <1>2, <1>4, <2>2
    <2>3. CASE req' = [req EXCEPT ![f].age = 0] /\ UNCHANGED open
      BY <1>2, <1>4, <2>3
    <2>4. \/ UNCHANGED <<req, open>>
          \/ req' = [req EXCEPT ![f].status = "DONE", ![f].age = 0] /\ UNCHANGED open
          \/ req' = [req EXCEPT ![f].age = 0] /\ UNCHANGED open
          \/ ret = 0 /\ free_request(f) /\ (req[f].buf = <<>> \/ req[f].status = "DEAD")
      BY <1>1, <1>3 DEF Dispose, data
    <2> QED BY <2>1, <2>2, <2>3, <2>4
  <1>6. g = f
    <2> SUFFICES ASSUME g # f PROVE FALSE
      OBVIOUS
    <2> DEFINE gone == IF Kept(req[f]) THEN Released(f) ELSE {f} \cup Released(f)
    <2>1. open' = [x \in AllFds |-> IF x \in gone THEN "free" ELSE open[x]]
      BY <1>5 DEF free_request
    <2>2. req'[g] = req[g]
      BY <1>2, <1>5 DEF free_request
    <2>3. \A d \in Released(f) : open[d] # "socket"
      <3>1. RequestOK(req[f], open)
        BY RequestWorks
      <3> QED BY <3>1 DEF RequestOK, Released
    <2> HIDE DEF gone
    <2>4. open[g] = "socket" => g \notin gone
      BY <2>3 DEF gone
    <2> QED BY <1>2, <2>1, <2>2, <2>4
  <1>7. Over(req[f], net[f], open, src)
    BY <1>2, <1>3, <1>5 DEF AnswerInv, JustOver
  <1> QED BY <1>3, <1>5, <1>6, <1>7

\* What the answers are made of stays so.
LEMMA Answers == Spec => []AnswerInv
  <1>1. Init => AnswerInv
    <2> SUFFICES ASSUME Init PROVE AnswerInv
      OBVIOUS
    <2>1. /\ stage = "signals" /\ ready = <<>> /\ block = <<>>
          /\ req = [f \in Fds |-> NoReq] /\ src = [f \in AllFds |-> NoSrc]
      BY DEF Init
    <2>2. Requests = {}
      BY <2>1 DEF Requests, ToSet
    <2>3. Spoken(NoReq) /\ NoReq.logline = "no"
      BY FreshSpoken DEF NoReq
    <2>4. SourcesListed(src)
      BY <2>1, ListedNew DEF SourcesListed, NoSrc
    <2> QED BY <2>1, <2>2, <2>3, <2>4 DEF AnswerInv
  <1>2. BoaInv /\ BoaInv' /\ IdleInv /\ AnswerInv /\ [Next]_vars => AnswerInv'
    <2> SUFFICES ASSUME BoaInv, BoaInv', IdleInv, AnswerInv, [Next]_vars PROVE AnswerInv'
      OBVIOUS
    <2>1. CASE Server
      BY <2>1, AnswerTop, AnswerTake, AnswerWorld, AnswerDispose, AnswerRun DEF Server
    <2>2. CASE World \/ (\E f \in Fds : Age(f)) \/ UNCHANGED vars
      BY <2>2, AnswerWorld
    <2> QED BY <2>1, <2>2 DEF Next
  <1> QED BY <1>1, <1>2, Safe, Idles, PTL DEF Spec

\* What is in the pipe's buffer is between what has been said and what is to come.
LEMMA BetweenFormed ==
    ASSUME NEW r, NEW n, NEW fds, NEW s, Works(r, n, fds, s), r.status \in Pipes
    PROVE  Formed(Said(r) \o r.data, r)
  <1> DEFINE a == Said(r)
             d == r.data
             o == s[r.data_fd].pipe \o s[r.data_fd].left
             c == Coming(r, s)
  <1>1. Spoken(r) /\ SourcesListed(s) /\ r.data_fd \in AllFds /\ Streamed(r, fds, s)
    BY DEF Works, Going
  <1>2. Listed(a) /\ Listed(d) /\ Listed(o) /\ c = a \o (d \o o)
    BY <1>1, ComingParts DEF Streamed
  <1>3. OneStatus(c) /\ \E k : Shaped(c, k)
    BY <1>1 DEF Streamed, Piped, Filed
  <1> HIDE DEF a, d, o, c
  <1>4. c = (a \o d) \o o /\ Listed(a \o d)
    BY <1>2, ListedThree, ListedJoin
  <1> DEFINE b == a \o d
  <1>5. c = b \o o /\ Listed(b) /\ Listed(o)
    BY <1>2, <1>4
  <1> HIDE DEF b
  <1>6. OneStatus(b) /\ \E k : Shaped(b, k)
    BY <1>3, <1>5, ShapedFront
  <1>7. Formed(b, r)
    BY <1>6 DEF Formed
  <1> QED BY <1>7 DEF a, b, d

\* An answer has one status line, in front, and then a page of Boa's own or the document
\* from its start: req_write, the two ends of the pipe's buffer, and send_r_... after a
\* header has been made, put nothing out of its place.
THEOREM AnswersInOrder == Spec => []InOrder
  <1>1. BoaInv /\ AnswerInv => InOrder
    <2> SUFFICES ASSUME BoaInv, AnswerInv, NEW f \in Requests PROVE Formed(AnswerOf(req[f]), req[f])
      BY DEF InOrder, Formed, Shaped
    <2> DEFINE r == req[f]
               n == net[f]
    <2>1. Spoken(r) /\ Listed(Said(r))
      BY RequestWorks, SaidParts
    <2>2. Said(r) \o <<>> = Said(r)
      BY <2>1, ListedNone
    <2>3. CASE JustOver(f)
      <3>1. Over(r, n, open, src)
        BY <2>3 DEF AnswerInv
      <3>2. Formed(Said(r), r)
        BY <3>1 DEF Over, Formed
      <3>3. AnswerOf(r) = Said(r)
        BY <2>2, <3>1 DEF AnswerOf, Over
      <3> QED BY <3>2, <3>3
    <2>4. CASE ~JustOver(f)
      <3>1. Works(r, n, open, src)
        BY <2>4, RequestWorks
      <3> HIDE DEF r, n
      <3>2. Formed(Said(r), r)
        BY <3>1, GoingFormed
      <3>3. r.status \in Pipes => Formed(Said(r) \o r.data, r)
        BY <3>1, BetweenFormed
      <3>4. AnswerOf(r) = Said(r) \/ (r.status \in Pipes /\ AnswerOf(r) = Said(r) \o r.data)
        BY <2>2 DEF AnswerOf
      <3>5. Formed(AnswerOf(r), r)
        BY <3>2, <3>3, <3>4
      <3> QED BY <3>5 DEF r
    <2> QED BY <2>3, <2>4
  <1> QED BY <1>1, Answers, Safe, PTL

\* A connection that is closed after a 200 has got all of its document, or all that its
\* program has written: free_request is reached with the buffer empty, and a handler
\* returns 0 only at the end of the file, of the mapping or of the pipe.
THEOREM AnswersWhole == Spec => WholeAnswer
  <1> DEFINE Closing(f) == DataCount(req[f].got) = Expected(f)
  <1>1. BoaInv /\ IdleInv /\ AnswerInv /\ [Next]_vars =>
          \A f \in Fds :
            open[f] = "socket" /\ open'[f] = "free" /\ req[f].response_status = 200
              /\ req[f].status # "DEAD" /\ net[f].peer # "reset" /\ req[f].method # "HEAD" =>
                Closing(f)
    <2> SUFFICES ASSUME BoaInv, IdleInv, AnswerInv, [Next]_vars, NEW f \in Fds,
                        open[f] = "socket" /\ open'[f] = "free", req[f].response_status = 200,
                        req[f].status # "DEAD" /\ net[f].peer # "reset" /\ req[f].method # "HEAD"
                 PROVE  Closing(f)
      OBVIOUS
    <2> DEFINE r == req[f]
    <2>1. Over(r, net[f], open, src) /\ r.buf = <<>>
      BY PartsOver
    <2>2. Said(r) = r.got
      BY <2>1, SaidParts DEF AnswerInv
    <2> QED BY <2>1, <2>2 DEF Over, Expected
  <1> QED BY <1>1, Safe, Idles, Answers, PTL DEF Spec, WholeAnswer

\* On a connection kept alive the next request is read after the whole answer to the last
\* one, or after a request that was given up without a word, at one of the four places
\* that Dropped names (read.c, request.c, get.c) and at no other; and free_request hands
\* on what the client has sent ahead, neither more nor less.
THEOREM ReusesAtBoundary == Spec => ReuseAtBoundary
  <1> DEFINE Boundary(f) ==
                 /\ Rest(f)' = Rest(f)
                 /\ LET a == req[f].got IN
                    \/ a = <<>> /\ Dropped(req[f], net[f])
                    \/ Len(a) = 1 + (IF req[f].method = "HEAD" THEN 0 ELSE req[f].filesize)
  <1>1. BoaInv /\ IdleInv /\ AnswerInv /\ [Next]_vars =>
          \A f \in Fds :
            req[f].logline = "yes" /\ req'[f].logline = "no" /\ open'[f] = "socket"
              /\ req[f].status # "DEAD" => Boundary(f)
    <2> SUFFICES ASSUME BoaInv, IdleInv, AnswerInv, [Next]_vars, NEW f \in Fds,
                        req[f].logline = "yes" /\ req'[f].logline = "no" /\ open'[f] = "socket",
                        req[f].status # "DEAD"
                 PROVE  Boundary(f)
      OBVIOUS
    <2> DEFINE r == req[f]
    <2>1. /\ f \in Requests /\ free_request(f) /\ Over(r, net[f], open, src) /\ r.buf = <<>>
      BY PartsOver
    <2>2. Said(r) = r.got
      BY <2>1, SaidParts DEF AnswerInv
    <2>3. Kept(r)
      <3> SUFFICES ASSUME ~Kept(r) PROVE FALSE
        OBVIOUS
      <3>1. f \in AllFds
        BY DEF AllFds
      <3>2. open' = [g \in AllFds |-> IF g \in {f} \cup Released(f) THEN "free" ELSE open[g]]
        BY <2>1 DEF free_request
      <3> QED BY <3>1, <3>2
    <2>4. req'[f] = NextOn(r) /\ net' = net
      <3>1. DOMAIN req = Fds
        BY DEF BoaInv, TablesOK
      <3>2. req' = [req EXCEPT ![f] = NextOn(r)] /\ UNCHANGED net
        BY <2>1, <2>3 DEF free_request
      <3> HIDE DEF r
      <3> QED BY <3>1, <3>2
    <2>5. Rest(f)' = Rest(f)
      <3> DEFINE s == Drop(r.stream, r.parse_pos)
      <3>1. Listed(s)
        BY ListedParts DEF IdleInv, SizedRequest
      <3>2. req'[f].stream = s /\ req'[f].parse_pos = 0
        BY <2>4 DEF NextOn, NewRequest
      <3>3. Drop(s, 0) = s
        <4> HIDE DEF s
        <4> QED BY <3>1, ListedDrops
      <3> QED BY <2>4, <3>2, <3>3 DEF Rest
    <2>6. (r.got = <<>> /\ Dropped(r, net[f])) \/ Whole(r)
      BY <2>1, <2>3 DEF Over, Kept
    <2> QED BY <2>2, <2>5, <2>6 DEF Whole
  <1> QED BY <1>1, Safe, Idles, Answers, PTL DEF Spec, ReuseAtBoundary

-----------------------------------------------------------------------------
(* Bodies: they are saved, and a program finds them whole.                *)

\* read_body.
LEMMA BodySettles ==
    ASSUME NEW w, NEW o0, NEW O, NEW c, Sound(w, o0, O, c), w.r.status = "BODY_READ",
           Fed(w.src), Saving(w.r, w.n)
    PROVE  Settled(read_body(w))
  <1> DEFINE r == w.r
             k == Least(Least(r.filesize - r.filepos, BUFFER_SIZE - Len(r.data)), Len(w.n.inq))
             full == [w EXCEPT !.r.status = "BODY_WRITE", !.ret = 1]
             waits == [w EXCEPT !.ret = -1]
             body == r.data \o Take(w.n.inq, k)
             inq == Drop(w.n.inq, k)
             on == [w EXCEPT !.r.status = "BODY_WRITE", !.r.data = body, !.n.inq = inq, !.ret = 1]
  <1>1. \/ read_body(w) \in {full, waits, Refuse(w, 400), Refuse(w, 500)}
        \/ read_body(w) = on /\ k > 0
    <2> DEFINE rest == CASE w.n.peer = "open"  -> waits
                         [] w.n.peer = "fin"   -> Refuse(w, 400)
                         [] OTHER              -> Refuse(w, 500)
    <2>1. rest \in {waits, Refuse(w, 400), Refuse(w, 500)}
      <3> HIDE DEF waits
      <3>1. CASE w.n.peer = "open"
        BY <3>1
      <3>2. CASE w.n.peer = "fin"
        BY <3>2
      <3>3. CASE w.n.peer \notin {"open", "fin"}
        BY <3>3
      <3> QED BY <3>1, <3>2, <3>3
    <2>2. read_body(w) \in {full, rest} \/ (read_body(w) = on /\ k > 0)
      BY Zenon DEF read_body
    <2> HIDE DEF rest, full, on, k, waits
    <2> QED BY <2>1, <2>2
  <1>2. HasParts(w) /\ HasFields(r) /\ RequestTyped(r) /\ NetTyped(w.n) /\ r.status \in Early
    BY EarlyHeaders DEF Sound, HasParts
  <1>3. Settled(Refuse(w, 400)) /\ Settled(Refuse(w, 500))
    BY <1>2, RefuseSettles
  <1>4. Settled(waits) /\ Settled(full)
    <2> DEFINE q == [r EXCEPT !.status = "BODY_WRITE"]
    <2>1. /\ q.status = "BODY_WRITE" /\ q.filepos = r.filepos /\ q.filesize = r.filesize
          /\ q.data = r.data /\ q.temp = r.temp
      BY <1>2 DEF HasFields
    <2>2. /\ waits.r = r /\ waits.n = w.n /\ waits.src = w.src /\ waits.ret = -1
          /\ full.r = q /\ full.n = w.n /\ full.src = w.src /\ full.ret = 1
      BY <1>2 DEF HasParts
    <2> HIDE DEF q, waits, full
    <2>3. Saving(full.r, full.n)
      BY <2>1, <2>2 DEF Saving
    <2> QED BY <2>1, <2>2, <2>3, SavingSettles
  <1>5. ASSUME k > 0 PROVE Settled(on)
    <2> DEFINE F == FlattenSeq(w.n.more)
               T == Take(w.n.inq, k)
    <2>1. Listed(r.data) /\ Listed(w.n.inq) /\ Listed(F) /\ r.data \in Seq(Token) /\ w.n.inq \in Seq(Token)
      <3>1. F \in Seq(Token) /\ r.data \in Seq(Token) /\ w.n.inq \in Seq(Token)
        BY <1>2, AheadTyped DEF RequestTyped
      <3> HIDE DEF F
      <3> QED BY <3>1, ListedAny
    <2>2. k \in 0..Len(w.n.inq)
      <3>1. /\ r.filesize - r.filepos \in Int /\ BUFFER_SIZE - Len(r.data) \in Int
            /\ Len(w.n.inq) \in Nat
        BY <1>2, <2>1, BoaAssumption DEF RequestTyped
      <3>2. k \in Int /\ k <= Len(w.n.inq)
        BY <3>1, LeastOf
      <3> QED BY <1>5, <3>1, <3>2
    <2> HIDE DEF k
    <2>3. body \o (inq \o F) = r.data \o (w.n.inq \o F)
      <3>1. Listed(r.data) /\ Listed(T) /\ Listed(inq) /\ Listed(F)
        BY <2>1, <2>2, ListedHalves
      <3>2. T \o inq = w.n.inq
        BY <2>1, <2>2, ListedHalves
      <3> DEFINE d == r.data
      <3> HIDE DEF F, T, inq, d
      <3>4. Listed(d) /\ Listed(T) /\ Listed(inq) /\ Listed(F)
        BY <3>1 DEF d
      <3>3. (d \o T) \o (inq \o F) = d \o ((T \o inq) \o F)
        BY ONLY <3>4, MovedOver
      <3> QED BY <3>2, <3>3 DEF T, d
    <2> HIDE DEF body, inq
    <2> DEFINE q == [r EXCEPT !.status = "BODY_WRITE", !.data = body]
               n == [w.n EXCEPT !.inq = inq]
    <2>4. /\ q.status = "BODY_WRITE" /\ q.filepos = r.filepos /\ q.filesize = r.filesize
          /\ q.data = body /\ q.temp = r.temp /\ n.inq = inq /\ n.more = w.n.more
      BY <1>2 DEF HasFields, HasParts
    <2> HIDE DEF q, n
    <2>5. on.r = q /\ on.n = n /\ on.src = w.src /\ on.ret = 1
      BY <1>2 DEF HasParts, q, n
    <2> HIDE DEF on
    <2>6. q.data \o Waiting(n) = r.data \o Waiting(w.n)
      BY <2>3, <2>4 DEF Waiting
    <2>7. Saving(q, n)
      BY <2>4, <2>6 DEF Saving
    <2> QED BY <2>4, <2>5, <2>7, SavingSettles
  <1> HIDE DEF full, waits, on, k
  <1> QED BY <1>1, <1>3, <1>4, <1>5

\* What is saved of a body continues it.
LEMMA BodySaved ==
    ASSUME NEW s, NEW t, Listed(s), Listed(t), NEW p \in Nat, NEW m \in Int,
           BodyFrom(s \o t, p, m), NEW k \in 0..Len(s), p + k <= m
    PROVE  /\ BodyFrom(Drop(s, k) \o t, p + k, m)
           /\ Bodies(p) \o Take(s, k) = Bodies(p + k) /\ p + k \in Nat
  <1> DEFINE st == s \o t
             a == Take(s, k)
             b == Bodies(p)
             d == Bodies(p + k)
  <1>1. /\ Listed(st) /\ Len(st) = Len(s) + Len(t) /\ Len(s) \in Nat /\ Len(t) \in Nat
        /\ \A i \in 1..Len(s) : st[i] = s[i]
    BY ListedJoin
  <1>2. Listed(a) /\ Len(a) = k /\ \A i \in 1..k : a[i] = s[i]
    BY ListedHalves
  <1>3. Drop(st, k) = Drop(s, k) \o t
    BY DropJoin
  <1>4. p + k \in Nat /\ k \in 0..Len(st) /\ BodyFrom(st, p, m) /\ k \in Nat
    <2>1. BodyFrom(st, p, m)
      OBVIOUS
    <2> HIDE DEF st
    <2> QED BY <1>1, <2>1
  <1>5. ASSUME NEW n \in Nat
        PROVE  Listed(Bodies(n)) /\ Len(Bodies(n)) = n /\ \A i \in 1..n : Bodies(n)[i] = Tok("body", i)
    <2>1. Bodies(n) = [i \in 1..n |-> Tok("body", i)]
      BY DEF Bodies
    <2> DEFINE U == {Tok("body", i) : i \in 1..n}
    <2>2. Bodies(n) \in [1..n -> U]
      BY <2>1
    <2> HIDE DEF U
    <2>3. Bodies(n) \in Seq(U) /\ Len(Bodies(n)) = n
      BY <2>2, SeqDef, LenProperties
    <2> QED BY <2>1, <2>3, ListedAny
  <1>6. Listed(b) /\ Len(b) = p /\ \A i \in 1..p : b[i] = Tok("body", i)
    BY <1>5
  <1>7. Listed(d) /\ Len(d) = p + k /\ \A i \in 1..(p + k) : d[i] = Tok("body", i)
    BY <1>4, <1>5
  <1> HIDE DEF st, a, b, d
  <1>8. BodyFrom(Drop(st, k), p + k, m)
    BY <1>1, <1>4, BodyParts
  <1> DEFINE ba == b \o a
  <1>9. /\ Listed(ba) /\ Len(ba) = p + k
        /\ \A i \in 1..p : ba[i] = b[i]
        /\ \A i \in 1..k : ba[p + i] = a[i]
    <2>3. Listed(b) /\ Listed(a)
      BY <1>2, <1>6
    <2>1. /\ Listed(b \o a) /\ Len(b \o a) = Len(b) + Len(a)
          /\ Len(b) \in Nat /\ Len(a) \in Nat
          /\ \A i \in 1..Len(b) : (b \o a)[i] = b[i]
          /\ \A i \in 1..Len(a) : (b \o a)[Len(b) + i] = a[i]
      BY ONLY <2>3, ListedJoin
    <2> HIDE DEF ba
    <2>2. /\ Listed(ba) /\ Len(ba) = Len(b) + Len(a)
          /\ \A i \in 1..Len(b) : ba[i] = b[i]
          /\ \A i \in 1..Len(a) : ba[Len(b) + i] = a[i]
      BY <2>1 DEF ba
    <2> QED BY <1>2, <1>6, <2>2
  <1> HIDE DEF ba
  <1>10. ASSUME NEW i \in 1..(p + k) PROVE ba[i] = d[i]
    <2>1. CASE i \in 1..p
      BY <1>4, <1>6, <1>7, <1>9, <2>1
    <2>2. CASE i \notin 1..p
      <3>1. PICK j \in 1..k : p + j = i
        <4>1. i - p \in 1..k /\ p + (i - p) = i
          BY <1>4, <2>2
        <4> QED BY <4>1
      <3>2. j \in 1..Len(s) /\ j \in 1..Len(st) /\ p + j <= m
        BY <1>1, <1>4, <3>1
      <3>3. st[j] = Tok("body", p + j)
        BY <1>4, <3>2 DEF BodyFrom
      <3> QED BY <1>1, <1>2, <1>7, <1>9, <3>1, <3>2, <3>3
    <2> QED BY <2>1, <2>2
  <1>11. ba = d
    BY <1>7, <1>9, <1>10, ListedEqual
  <1> QED BY <1>3, <1>4, <1>8, <1>11 DEF st, ba, b, d, a

\* write_body.
LEMMA WriteSettles ==
    ASSUME NEW w, NEW o0, NEW O, NEW c, Sound(w, o0, O, c), w.r.status = "BODY_WRITE",
           Fed(w.src), Saving(w.r, w.n), NEW fault
    PROVE  Settled(write_body(w, fault))
  <1> DEFINE r == w.r
             k == Least(Len(r.data), r.filesize - r.filepos)
             empty == [w EXCEPT !.r.data = <<>>]
             back == [empty EXCEPT !.r.status = "BODY_READ", !.ret = 1]
             temp == r.temp \o Take(r.data, k)
             body == Drop(r.data, k)
             on == [w EXCEPT !.r.filepos = @ + k, !.r.data = body, !.r.temp = temp, !.ret = 1]
             v == write_body(w, fault)
  <1> SUFFICES Settled(v)
    OBVIOUS
  <1>1. \/ v = init_cgi(empty, fault) /\ k = 0 /\ r.filepos >= r.filesize
        \/ v = back /\ k = 0 /\ ~(r.filepos >= r.filesize)
        \/ v = Refuse(w, 500)
        \/ v = on /\ k # 0
    BY Zenon DEF write_body
  <1>2. HasParts(w) /\ HasFields(r) /\ RequestTyped(r) /\ NetTyped(w.n) /\ r.status \in Early
    BY EarlyHeaders DEF Sound, HasParts
  <1>3. /\ Listed(r.data) /\ Listed(Waiting(w.n)) /\ Len(r.data) \in Nat
        /\ r.filepos \in Nat /\ r.filesize \in Int /\ r.filepos <= r.filesize
    <2>1. /\ r.data \in Seq(Token) /\ Waiting(w.n) \in Seq(Token) /\ r.filesize \in Int
          /\ r.filepos <= r.filesize
      BY <1>2, AheadTyped DEF RequestTyped
    <2> QED BY <2>1, ListedAny DEF Saving
  <1>4. k \in 0..Len(r.data) /\ r.filepos + k <= r.filesize
        /\ (k = 0 => Len(r.data) = 0 \/ r.filepos = r.filesize)
    BY <1>3 DEF Least
  <1>5. r.temp = Bodies(r.filepos) /\ BodyFrom(r.data \o Waiting(w.n), r.filepos, r.filesize)
    BY DEF Saving
  <1> DEFINE qe == [r EXCEPT !.data = <<>>]
             qb == [qe EXCEPT !.status = "BODY_READ"]
             qo == [r EXCEPT !.filepos = r.filepos + k, !.data = body, !.temp = temp]
  <1> HIDE DEF k, body, temp
  <1>6. /\ qe.data = <<>> /\ qe.temp = r.temp /\ qe.filesize = r.filesize /\ qe.filepos = r.filepos
        /\ HasFields(qe)
        /\ qb.data = <<>> /\ qb.temp = r.temp /\ qb.filesize = r.filesize /\ qb.filepos = r.filepos
        /\ qb.status = "BODY_READ"
        /\ qo.data = body /\ qo.temp = temp /\ qo.filesize = r.filesize
        /\ qo.filepos = r.filepos + k /\ qo.status = r.status
    BY <1>2 DEF HasFields
  <1> HIDE DEF qe, qb, qo
  <1>7. /\ empty.r = qe /\ empty.n = w.n /\ empty.src = w.src /\ DOMAIN empty = DOMAIN w
        /\ back.r = qb /\ back.n = w.n /\ back.src = w.src /\ back.ret = 1
        /\ on.r = qo /\ on.n = w.n /\ on.src = w.src /\ on.ret = 1
    BY <1>2 DEF HasParts, qe, qb, qo
  <1> HIDE DEF empty, back, on, v
  <1>8. CASE v = init_cgi(empty, fault) /\ k = 0 /\ r.filepos >= r.filesize
    <2> DEFINE u == init_cgi(empty, fault)
    <2>1. HasParts(empty)
      BY <1>2, <1>6, <1>7 DEF HasParts
    <2>2. empty.r.temp = Bodies(empty.r.filesize)
      <3>1. r.filepos = r.filesize
        BY <1>3, <1>8
      <3> QED BY <1>5, <1>6, <1>7, <3>1
    <2>3. /\ Tells(empty, u) /\ u.r.keepalive # "active" /\ u.ret \in {0, 1}
          /\ u.ret # 0 => u.r.status \notin Early
      BY <2>1, <2>2, CgiTells
    <2> HIDE DEF u
    <2>4. Fed(u.src) /\ Chained(u.r, u.n)
      BY <1>7, <2>3 DEF Tells, Chained
    <2>5. Settled(u)
      BY <2>3, <2>4, EarlyHeaders DEF Settled, Posted
    <2> QED BY <1>8, <2>5 DEF u
  <1>9. CASE v = back /\ k = 0 /\ ~(r.filepos >= r.filesize)
    <2>1. r.data = <<>>
      <3>1. Len(r.data) = 0
        BY <1>3, <1>4, <1>9
      <3> QED BY <1>3, <3>1, ListedParts
    <2>2. Saving(back.r, back.n)
      BY <1>3, <1>5, <1>6, <1>7, <2>1 DEF Saving
    <2> QED BY <1>6, <1>7, <1>9, <2>2, SavingSettles
  <1>10. CASE v = Refuse(w, 500)
    BY <1>2, <1>10, RefuseSettles
  <1>11. CASE v = on /\ k # 0
    <2> DEFINE s == r.data
               t == Waiting(w.n)
               p == r.filepos
               m == r.filesize
    <2>1. /\ Listed(s) /\ Listed(t) /\ p \in Nat /\ m \in Int /\ BodyFrom(s \o t, p, m)
          /\ k \in 0..Len(s) /\ p + k <= m
      BY <1>3, <1>4, <1>5
    <2> HIDE DEF s, t, p, m
    <2>2. /\ BodyFrom(Drop(s, k) \o t, p + k, m)
          /\ Bodies(p) \o Take(s, k) = Bodies(p + k) /\ p + k \in Nat
      BY ONLY <2>1, BodySaved
    <2>3. Saving(on.r, on.n)
      BY <1>5, <1>6, <1>7, <2>2 DEF Saving, body, temp, s, t, p, m
    <2> QED BY <1>6, <1>7, <1>11, <2>3, SavingSettles
  <1> QED BY <1>1, <1>8, <1>9, <1>10, <1>11

\* The request at hand, before its handler runs.
LEMMA WorkPosted ==
    ASSUME BoaInv, AnswerInv, PostInv, stage = "handle", NEW f \in Requests
    PROVE  /\ Work(f).r = req[f] /\ Work(f).n = net[f] /\ Work(f).src = src
           /\ Sound(Work(f), open, Others(f), Uses(f)) /\ HasParts(Work(f))
           /\ Fed(src) /\ Posted(req[f], net[f])
           /\ req[f].status \in Early => req[f].buf = <<>>
  <1>1. Work(f).r = req[f] /\ Work(f).n = net[f] /\ Work(f).src = src
    BY DEF Work
  <1>2. Sound(Work(f), open, Others(f), Uses(f)) /\ HasParts(Work(f))
    BY WorkSound DEF Sound
  <1>3. Fed(src) /\ Posted(req[f], net[f])
    BY DEF PostInv, JustOver
  <1>4. Going(req[f], net[f], open, src)
    BY DEF AnswerInv, JustOver
  <1>5. req[f].status \in Early => req[f].buf = <<>>
    BY <1>4 DEF Going, Unread, Silent
  <1> QED BY <1>1, <1>2, <1>3, <1>5

\* A handler that opens and closes nothing, of a request that has been read.
LEMMA LikeSettled ==
    ASSUME NEW w, NEW v, Like(w, v), w.r.status \notin Early, Fed(w.src), Chained(w.r, w.n)
    PROVE  Settled(v)
  <1>1. Tells(w, v)
    BY LikeTells
  <1>2. v.r.status \notin Early
    BY <1>1 DEF Tells
  <1> QED BY <1>1, <1>2, LateSettled

\* Each status of process_requests' switch, and the flush.
LEMMA RunPosted ==
    ASSUME BoaInv, AnswerInv, PostInv,
           \/ ReadHeader \/ ReadBody \/ WriteBody \/ ProcessGet \/ ReadFromPipe \/ WriteFromPipe
           \/ Flush \/ Done \/ Dead
    PROVE  \E f \in Requests : \E v :
              stage = "handle" /\ f = Head(todo) /\ f \in Fds /\ Settled(v) /\ Handled(f, v)
  <1>0. stage = "handle"
    BY DEF ReadHeader, ReadBody, WriteBody, ProcessGet, ReadFromPipe, WriteFromPipe, Flush, Done,
           Dead, Running
  <1>1. PICK f \in Fds : f = Head(todo) /\ f \in Requests
    BY <1>0, AtHand
  <1> DEFINE w == Work(f)
             o0 == open
             O == Others(f)
             c == Uses(f)
  <1>2. /\ w.r = req[f] /\ w.n = net[f] /\ w.src = src
        /\ Sound(w, o0, O, c) /\ HasParts(w) /\ Fed(w.src) /\ Posted(w.r, w.n)
        /\ w.r.status \in Early => w.r.buf = <<>>
    BY <1>0, <1>1, WorkPosted
  <1> SUFFICES \E v : Settled(v) /\ Handled(f, v)
    BY <1>0, <1>1
  <1> HIDE DEF w, o0, O, c
  <1>3. ASSUME w.r.status \notin Early, w.r.status # "DEAD" PROVE Chained(w.r, w.n)
    BY <1>2, <1>3 DEF Posted
  <1>12. ASSUME NEW v, Like(w, v), w.r.status \notin Early, w.r.status # "DEAD" PROVE Settled(v)
    BY <1>2, <1>3, <1>12, LikeSettled
  <1>4. CASE ReadHeader
    <2>1. req[f].status \in Headers
      BY <1>1, <1>4 DEF ReadHeader, Running
    <2>2. PICK fault : \E v \in {read_header(w, fault)} : Handled(f, v)
      BY <1>1, <1>4 DEF ReadHeader, RunWith, w
    <2>3. Hears(w)
      BY <1>2, <2>1 DEF Hears, Posted
    <2>4. Settled(read_header(w, fault))
      BY <1>2, <2>3, HeaderSettles
    <2> QED BY <2>2, <2>4
  <1>5. CASE ReadBody
    <2>1. req[f].status = "BODY_READ"
      BY <1>1, <1>5 DEF ReadBody, Running
    <2>2. \E v \in {read_body(w)} : Handled(f, v)
      BY <1>1, <1>5 DEF ReadBody, Run, w
    <2>3. w.r.status = "BODY_READ" /\ Saving(w.r, w.n)
      BY <1>2, <2>1 DEF Posted
    <2>4. Settled(read_body(w))
      BY <1>2, <2>3, BodySettles
    <2> QED BY <2>2, <2>4
  <1>6. CASE WriteBody
    <2>1. req[f].status = "BODY_WRITE"
      BY <1>1, <1>6 DEF WriteBody, Running
    <2>2. PICK fault : \E v \in {write_body(w, fault)} : Handled(f, v)
      BY <1>1, <1>6 DEF WriteBody, RunWith, w
    <2>3. w.r.status = "BODY_WRITE" /\ Saving(w.r, w.n)
      BY <1>2, <2>1 DEF Posted
    <2>4. Settled(write_body(w, fault))
      BY <1>2, <2>3, WriteSettles
    <2> QED BY <2>2, <2>4
  <1>7. CASE ProcessGet
    <2>1. req[f].status = "WRITE"
      BY <1>1, <1>7 DEF ProcessGet, Running
    <2>2. PICK fault : \E v \in {process_get(w, fault)} : Handled(f, v)
      BY <1>1, <1>7 DEF ProcessGet, RunWith, w
    <2>3. Like(w, process_get(w, fault))
      BY <1>2, <2>1, LateStatus, GetLike
    <2> QED BY <1>2, <1>12, <2>1, <2>2, <2>3, LateStatus
  <1>8. CASE ReadFromPipe
    <2>1. req[f].status = "PIPE_READ"
      BY <1>1, <1>8 DEF ReadFromPipe, Running
    <2>2. \E v \in {read_from_pipe(w)} : Handled(f, v)
      BY <1>1, <1>8 DEF ReadFromPipe, Run, w
    <2>3. Like(w, read_from_pipe(w))
      BY <1>2, <2>1, LateStatus, PipeReadLike
    <2> QED BY <1>2, <1>12, <2>1, <2>2, <2>3, LateStatus
  <1>9. CASE WriteFromPipe
    <2>1. req[f].status = "PIPE_WRITE"
      BY <1>1, <1>9 DEF WriteFromPipe, Running
    <2>2. \E v \in {write_from_pipe(w)} : Handled(f, v)
      BY <1>1, <1>9 DEF WriteFromPipe, Run, w
    <2>3. Like(w, write_from_pipe(w))
      BY <1>2, <2>1, LateStatus, PipeWriteLike
    <2> QED BY <1>2, <1>12, <2>1, <2>2, <2>3, LateStatus
  <1>10. CASE Flush \/ Done
    <2> DEFINE u == req_flush(w)
               dead == [u EXCEPT !.r.status = "DEAD", !.ret = 0]
               on == [u EXCEPT !.ret = 1]
    <2>1. \E v \in {dead, on, u} : Handled(f, v)
      BY <1>1, <1>10, Zenon DEF Flush, Done, Run, w
    <2>2. w.r.status \notin Early /\ w.r.status # "DEAD"
      <3>1. CASE Flush
        <4>1. req[f].buf # <<>> /\ req[f].status \notin {"DONE", "DEAD"}
          BY <1>1, <3>1 DEF Flush
        <4> QED BY <1>2, <4>1
      <3>2. CASE Done
        <4>1. req[f].status = "DONE"
          BY <1>1, <3>2 DEF Done, Running
        <4> QED BY <1>2, <4>1, LateStatus
      <3> QED BY <1>10, <3>1, <3>2
    <2>3. Like(w, u) /\ HasParts(u)
      BY <1>2, Flushed, LikeHas
    <2> HIDE DEF u
    <2>4. Like(u, dead) /\ Like(u, on)
      BY <2>3, LateStatus DEF Like, SameTables, HasParts, HasFields, Kin, SameHold, Told, RequestTyped, NetTyped
    <2> HIDE DEF dead, on
    <2>5. Like(w, dead) /\ Like(w, on)
      BY <2>3, <2>4, LikeTrans
    <2>6. Settled(dead) /\ Settled(on) /\ Settled(u)
      BY <1>12, <2>2, <2>3, <2>5
    <2> QED BY <2>1, <2>6
  <1>11. CASE Dead
    <2> DEFINE s == SQUASH_KA(req[f])
               q == [s EXCEPT !.buf = <<>>, !.start = 0]
               v == [w EXCEPT !.r = q, !.ret = 0]
    <2>1. Handled(f, v)
      BY <1>1, <1>2, <1>11 DEF Dead, Run, w
    <2>2. q.keepalive # "active"
      BY <1>2 DEF HasParts, HasFields, SQUASH_KA
    <2> HIDE DEF q
    <2>3. v.r = q /\ v.src = w.src /\ v.ret = 0
      BY <1>2 DEF HasParts
    <2> HIDE DEF v
    <2>4. Settled(v)
      BY <1>2, <2>2, <2>3, StoppedSettled
    <2> QED BY <2>1, <2>4
  <1> QED BY <1>4, <1>5, <1>6, <1>7, <1>8, <1>9, <1>10, <1>11

\* What a body depends on in a request, apart from its status.
BodyFields == {"clen", "data", "filepos", "filesize", "keepalive", "line", "parse_pos", "stream", "temp"}

\* It says the same of a request that differs elsewhere, or is given up, and wherever the
\* pieces of its client are cut.
LEMMA PostSame ==
    ASSUME NEW r, NEW q, NEW n, NEW m, \A x \in BodyFields : q[x] = r[x], Waiting(m) = Waiting(n)
    PROVE  /\ Chained(r, n) => Chained(q, m)
           /\ q.status \in {r.status, "DEAD"} /\ Posted(r, n) => Posted(q, m)
  <1>1. /\ q.clen = r.clen /\ q.data = r.data /\ q.filepos = r.filepos /\ q.filesize = r.filesize
        /\ q.keepalive = r.keepalive /\ q.line = r.line /\ q.parse_pos = r.parse_pos
        /\ q.stream = r.stream /\ q.temp = r.temp
    BY DEF BodyFields
  <1>2. Ahead(q, m) = Ahead(r, n)
    BY <1>1 DEF Ahead
  <1>3. Chained(r, n) => Chained(q, m)
    BY <1>1, <1>2 DEF Chained
  <1>4. Saving(r, n) => Saving(q, m)
    BY <1>1 DEF Saving
  <1>5. q.status = r.status /\ Reading(r, n) => Reading(q, m)
    BY <1>1, <1>2 DEF Reading
  <1>6. "DEAD" \notin Headers /\ "DEAD" \notin {"BODY_READ", "BODY_WRITE"}
    BY DEF Headers
  <1>7. q.status \in {r.status, "DEAD"} /\ Posted(r, n) => Posted(q, m)
    BY <1>3, <1>4, <1>5, <1>6 DEF Posted
  <1> QED BY <1>3, <1>7

\* No request is kept alive after SIGTERM.
LEMMA PostSquash ==
    ASSUME NEW r, HasFields(r), NEW n
    PROVE  /\ Chained(SQUASH_KA(r), n)
           /\ Posted(r, n) => Posted(SQUASH_KA(r), n)
  <1> DEFINE q == SQUASH_KA(r)
  <1>1. /\ q.clen = r.clen /\ q.data = r.data /\ q.filepos = r.filepos /\ q.filesize = r.filesize
        /\ q.keepalive = "stopped" /\ q.line = r.line /\ q.parse_pos = r.parse_pos
        /\ q.stream = r.stream /\ q.temp = r.temp /\ q.status = r.status
    BY DEF SQUASH_KA, HasFields
  <1> HIDE DEF q
  <1>2. Ahead(q, n) = Ahead(r, n)
    BY <1>1 DEF Ahead
  <1>3. Chained(q, n)
    BY <1>1 DEF Chained
  <1>4. Posted(r, n) => Posted(q, n)
    BY <1>1, <1>2, <1>3 DEF Posted, Reading, Saving
  <1> QED BY <1>3, <1>4 DEF q

\* The handlers.
LEMMA PostRun ==
    ASSUME BoaInv, BoaInv', AnswerInv, PostInv,
           \/ ReadHeader \/ ReadBody \/ WriteBody \/ ProcessGet \/ ReadFromPipe \/ WriteFromPipe
           \/ Flush \/ Done \/ Dead
    PROVE  PostInv'
  <1>1. PICK f \in Requests : \E v :
              stage = "handle" /\ f = Head(todo) /\ f \in Fds /\ Settled(v) /\ Handled(f, v)
    BY RunPosted
  <1>2. PICK v : stage = "handle" /\ f = Head(todo) /\ f \in Fds /\ Settled(v) /\ Handled(f, v)
    BY <1>1
  <1> DEFINE q == IF sigterm_flag # 0 THEN SQUASH_KA(v.r) ELSE v.r
  <1>3. /\ req' = [req EXCEPT ![f] = q] /\ net' = [net EXCEPT ![f] = v.n] /\ src' = v.src
        /\ ret' = v.ret /\ UNCHANGED <<todo, ready, block, backlog, arrivals>>
        /\ stage' \in {"accept", "dispose"}
    BY <1>2 DEF Handled
  <1>4. DOMAIN req = Fds /\ DOMAIN net = Fds /\ Requests \subseteq Fds
    BY RequestsFinite DEF BoaInv, TablesOK, InputsOK
  <1>5. req'[f] = q /\ net'[f] = v.n /\ \A g \in Fds \ {f} : req'[g] = req[g] /\ net'[g] = net[g]
    BY <1>2, <1>3, <1>4
  <1>6. Fed(v.src) /\ IF v.ret = 0 THEN Chained(v.r, v.n) ELSE Posted(v.r, v.n)
    BY <1>2 DEF Settled
  <1>7. IF v.ret = 0 THEN Chained(q, v.n) ELSE Posted(q, v.n)
    <2>1. CASE sigterm_flag # 0
      <3>1. q = SQUASH_KA(v.r)
        BY <2>1
      <3> HIDE DEF q
      <3>2. HasFields(q)
        BY <1>2, <1>5 DEF BoaInv, TablesOK
      <3>3. HasFields(v.r)
        <4>1. DOMAIN SQUASH_KA(v.r) = DOMAIN v.r
          BY DEF SQUASH_KA
        <4> QED BY <3>1, <3>2, <4>1 DEF HasFields
      <3> QED BY <1>6, <3>1, <3>3, PostSquash
    <2>2. CASE sigterm_flag = 0
      <3>1. q = v.r
        BY <2>2
      <3> QED BY <1>6, <3>1
    <2> QED BY <2>1, <2>2
  <1> HIDE DEF q
  <1>8. ASSUME NEW g \in Requests
        PROVE  (IF JustOver(g) THEN Chained(req[g], net[g]) ELSE Posted(req[g], net[g]))'
    <2>1. CASE g = f
      <3>1. JustOver(g)' <=> v.ret = 0
        BY <1>2, <1>3, <2>1 DEF JustOver
      <3> QED BY <1>5, <1>7, <2>1, <3>1
    <2>2. CASE g # f
      <3>1. ~JustOver(g) /\ ~JustOver(g)'
        BY <1>2, <1>3, <2>2 DEF JustOver
      <3>2. Posted(req[g], net[g])
        BY <3>1 DEF PostInv
      <3>3. req'[g] = req[g] /\ net'[g] = net[g]
        BY <1>4, <1>5, <2>2
      <3> QED BY <3>1, <3>2, <3>3
    <2> QED BY <2>1, <2>2
  <1>9. Requests' = Requests
    BY <1>3 DEF Requests
  <1> QED BY <1>3, <1>6, <1>8, <1>9 DEF PostInv

\* The top of the loop, and fdset_update.
LEMMA PostTop ==
    ASSUME BoaInv, BoaInv', AnswerInv, PostInv, Signals \/ fdset_update \/ Poll \/ Select
    PROVE  PostInv'
  <1>1. /\ UNCHANGED <<net, src, backlog, arrivals>>
        /\ stage \notin {"accept", "dispose"} /\ stage' \notin {"accept", "dispose"}
    BY DEF Signals, fdset_update, Poll, Select, data, counters
  <1>2. \A f \in Requests : Posted(req[f], net[f])
    BY <1>1 DEF PostInv, JustOver
  <1>3. CASE Signals \/ Poll \/ Select
    <2>1. UNCHANGED <<req, ready, block>>
      BY <1>3 DEF Signals, Poll, Select, data
    <2> QED BY <1>1, <1>2, <2>1 DEF PostInv, JustOver, Requests
  <1>4. CASE fdset_update
    <2> DEFINE q0 == [bits |-> bits, block |-> block, max_fd |-> max_fd,
                      ready |-> ready, req |-> req]
               q == Woken(q0, block)
    <2>1. req' = q.req /\ UNCHANGED open
      BY <1>4, Zenon DEF fdset_update
    <2>2. Fated(q0, req)
      BY DEF Fated, BoaInv, TablesOK
    <2>3. \A g \in Fds : HasFields(req[g]) /\ "status" \in DOMAIN req[g]
      BY DEF BoaInv, TablesOK, HasFields
    <2>4. block \in Seq(Fds)
      BY DEF BoaInv, ListsOK
    <2> HIDE DEF q0
    <2>5. Fated(q, req)
      BY ONLY <2>2, <2>3, <2>4, WokenFated
    <2> HIDE DEF q
    <2>6. \A g \in Fds : req'[g] \in {req[g], [req[g] EXCEPT !.status = "DEAD"],
                                      [req[g] EXCEPT !.status = @]}
      BY <2>1, <2>5 DEF Fated
    <2>7. Requests' = Requests
      <3>1. Requests = {f \in AllFds : open[f] = "socket"}
        BY SocketsAre
      <3>2. Requests' = {f \in AllFds : open'[f] = "socket"}
        BY DEF BoaInv, Accounted
      <3> QED BY <2>1, <3>1, <3>2
    <2>8. ASSUME NEW f \in Requests PROVE Posted(req'[f], net[f])
      <3>1. f \in Fds /\ HasFields(req[f]) /\ Posted(req[f], net[f])
        BY <1>2, <2>3, RequestsFinite DEF BoaInv
      <3> DEFINE x == req[f]
                 y == req'[f]
                 n == net[f]
      <3>2. HasFields(x) /\ Posted(x, n)
            /\ y \in {x, [x EXCEPT !.status = "DEAD"], [x EXCEPT !.status = @]}
        BY <2>6, <3>1
      <3> SUFFICES Posted(y, n)
        OBVIOUS
      <3> HIDE DEF x, y, n
      <3>3. (\A z \in BodyFields : y[z] = x[z]) /\ y.status \in {x.status, "DEAD"}
        BY <3>2 DEF HasFields, BodyFields
      <3> QED BY <3>2, <3>3, PostSame
    <2> QED BY <1>1, <2>7, <2>8 DEF PostInv, JustOver
  <1> QED BY <1>3, <1>4

\* A request just made starts with what is left of the stream.
LEMMA FreshPosted ==
    ASSUME NEW k, NEW s \in Seq(Token), NEW n, NetTyped(n), NEW r, r = NewRequest(k, s),
           Announced(s \o Waiting(n))
    PROVE  Posted(r, n)
  <1>1. /\ r.stream = s /\ r.parse_pos = 0 /\ r.status = "READ_HEADER" /\ r.clen = -1
        /\ r.line = NoLine /\ r.temp = <<>>
    BY DEF NewRequest
  <1>2. Len(s) \in Nat /\ Listed(s)
    BY ListedAny
  <1>3. Drop(s, 0) = s
    BY <1>2, ListedDrops
  <1>4. Ahead(r, n) = s \o Waiting(n)
    BY <1>1, <1>3 DEF Ahead
  <1>5. NoLine.t # "LENGTH"
    BY DEF NoLine, Tok
  <1>6. \A st, c : Announces(st, c, -1)
    <2>1. \A c : BodyFrom(c, 0, -1)
      BY DEF BodyFrom
    <2> QED BY <2>1 DEF Announces
  <1>7. Reading(r, n)
    BY <1>1, <1>2, <1>4, <1>5, <1>6 DEF Reading
  <1>8. r.status \in Early /\ r.status \notin {"BODY_READ", "BODY_WRITE"}
    BY <1>1 DEF Early, Headers
  <1> QED BY <1>7, <1>8 DEF Posted

\* process_requests up to its loop, and the connections taken between two requests.
LEMMA PostTake ==
    ASSUME BoaInv, BoaInv', PostInv, First \/ Accept
    PROVE  PostInv'
  <1>1. /\ UNCHANGED <<block, ret, src, arrivals>>
        /\ \/ stage = "first" /\ stage' \in {"poll", "handle"}
           \/ stage = "accept" /\ stage' = "dispose" /\ UNCHANGED todo
    BY DEF First, Accept, Round, counters
  <1>2. stage = "accept" => Head(todo) \in Requests
    BY AtHand
  <1>3. ASSUME NEW f \in Requests PROVE JustOver(f)' <=> JustOver(f)
    BY <1>1 DEF JustOver
  <1>4. CASE UNCHANGED <<req, net, open, backlog>>
    <2>1. Requests' = Requests
      <3>1. Requests = {f \in AllFds : open[f] = "socket"}
        BY SocketsAre
      <3>2. Requests' = {f \in AllFds : open'[f] = "socket"}
        BY DEF BoaInv, Accounted
      <3> QED BY <1>4, <3>1, <3>2
    <2>2. ASSUME NEW f \in Requests
          PROVE  (IF JustOver(f) THEN Chained(req[f], net[f]) ELSE Posted(req[f], net[f]))'
      <3>1. IF JustOver(f) THEN Chained(req[f], net[f]) ELSE Posted(req[f], net[f])
        BY DEF PostInv
      <3> QED BY <1>3, <1>4, <3>1
    <2> QED BY <1>1, <1>4, <2>1, <2>2 DEF PostInv
  <1>5. CASE ~UNCHANGED <<req, net, open, backlog>>
    <2>1. get_request /\ UNCHANGED block
      BY <1>1, <1>5 DEF First, Accept
    <2>2. PICK fd \in Fds : /\ fd = LowestFree(open) /\ fd \notin Requests /\ open[fd] = "free"
                            /\ backlog # <<>>
      BY <2>1, <1>5, GotLists
    <2> DEFINE x == Head(backlog)
               conn == NewRequest(ka_max, <<>>)
               nw == [NoNet EXCEPT !.more = x]
               w0 == [r |-> conn, n |-> nw, ret |-> 0]
               w == send_r(w0, 503)
               late == [w.r EXCEPT !.status = "DONE"]
               tooMany == fd > max_connections
               r1 == IF tooMany THEN late ELSE conn
               n1 == IF tooMany THEN w.n ELSE nw
    <2>3. /\ req' = [req EXCEPT ![fd] = r1] /\ net' = [net EXCEPT ![fd] = n1]
          /\ open' = [open EXCEPT ![fd] = "socket"] /\ backlog' = Tail(backlog)
      BY <1>5, <2>1, <2>2, Zenon DEF get_request
    <2>4. /\ backlog \in Seq(Seq(Seq(Token))) /\ x \in Seq(Seq(Token))
          /\ 1 \in 1..Len(backlog) /\ x = backlog[1] /\ Len(backlog) \in Nat
          /\ Len(Tail(backlog)) = Len(backlog) - 1
          /\ \A i \in 1..(Len(backlog) - 1) : Tail(backlog)[i] = backlog[i + 1]
      <3>1. backlog \in Seq(Seq(Seq(Token)))
        BY DEF BoaInv, InputsOK
      <3> QED BY <2>2, <3>1
    <2>5. \A i \in 1..Len(backlog') : Announced(FlattenSeq(backlog'[i]))
      <3>1. \A i \in 1..Len(backlog) : Announced(FlattenSeq(backlog[i]))
        BY DEF PostInv
      <3>2. \A i \in 1..(Len(backlog) - 1) : i + 1 \in 1..Len(backlog)
        BY <2>4
      <3> QED BY <2>3, <2>4, <3>1, <3>2
    <2>6. Posted(conn, nw)
      <3>1. conn = NewRequest(ka_max, <<>>) /\ <<>> \in Seq(Token)
        OBVIOUS
      <3>2. nw.inq = <<>> /\ nw.more = x /\ DOMAIN nw = DOMAIN NoNet /\ <<>> \in Seq(Token)
        BY DEF NoNet
      <3>3. Announced(FlattenSeq(x)) /\ FlattenSeq(x) \in Seq(Token)
        <4>1. Announced(FlattenSeq(x))
          BY <2>4 DEF PostInv
        <4>2. FlattenSeq(x) \in Seq(Token)
          BY <2>4, FlatParts
        <4> QED BY <4>1, <4>2
      <3> HIDE DEF conn, nw, x
      <3>4. NetTyped(nw)
        BY <2>4, <3>2 DEF NetTyped
      <3>5. <<>> \o Waiting(nw) = FlattenSeq(x)
        <4>1. Listed(FlattenSeq(x))
          BY <3>3, ListedAny
        <4>2. <<>> \o FlattenSeq(x) = FlattenSeq(x)
          BY <4>1, ListedNone
        <4> QED BY <3>2, <4>2 DEF Waiting
      <3> DEFINE k == ka_max
      <3>6. conn = NewRequest(k, <<>>) /\ <<>> \in Seq(Token) /\ NetTyped(nw) /\ Announced(<<>> \o Waiting(nw))
        BY <3>1, <3>3, <3>4, <3>5
      <3> HIDE DEF k
      <3> QED BY ONLY <3>6, FreshPosted
    <2>7. Posted(late, w.n)
      <3> DEFINE k == ka_max
      <3>1. w0 = [r |-> NewRequest(k, <<>>), n |-> [NoNet EXCEPT !.more = x], ret |-> 0]
            /\ w = send_r(w0, 503) /\ late = [w.r EXCEPT !.status = "DONE"]
        OBVIOUS
      <3> HIDE DEF w0, w, late, k, x
      <3>2. Late(k, x, w0, w, late)
        BY <3>1 DEF Late
      <3>3. late.status = "DONE" /\ late.keepalive # "active"
        BY ONLY <3>2, LateSpoken
      <3> QED BY <3>3 DEF Posted, Chained, Headers
    <2> HIDE DEF conn, late, w, tooMany, nw
    <2>8. Posted(r1, n1)
      BY <2>6, <2>7
    <2> HIDE DEF r1, n1
    <2>9. DOMAIN req = Fds /\ DOMAIN net = Fds /\ DOMAIN open = AllFds /\ fd \in AllFds
          /\ Requests \subseteq Fds
      BY RequestsFinite DEF BoaInv, TablesOK, InputsOK, AllFds
    <2>10. Requests' = Requests \cup {fd}
      <3>1. Requests = {f \in AllFds : open[f] = "socket"}
        BY SocketsAre
      <3>2. Requests' = {f \in AllFds : open'[f] = "socket"}
        BY DEF BoaInv, Accounted
      <3> QED BY <2>3, <2>9, <3>1, <3>2
    <2>11. /\ req'[fd] = r1 /\ net'[fd] = n1
           /\ \A g \in Fds \ {fd} : req'[g] = req[g] /\ net'[g] = net[g]
      BY <2>3, <2>9
    <2>12. ASSUME NEW g \in Requests
           PROVE  (IF JustOver(g) THEN Chained(req[g], net[g]) ELSE Posted(req[g], net[g]))'
      <3>1. IF JustOver(g) THEN Chained(req[g], net[g]) ELSE Posted(req[g], net[g])
        BY DEF PostInv
      <3>2. req'[g] = req[g] /\ net'[g] = net[g]
        BY <2>2, <2>9, <2>11
      <3> QED BY <1>3, <3>1, <3>2
    <2>13. ~JustOver(fd)'
      BY <1>1, <1>2, <2>2 DEF JustOver
    <2>14. Posted(req'[fd], net'[fd])
      BY <2>8, <2>11
    <2> QED BY <1>1, <2>5, <2>10, <2>12, <2>13, <2>14 DEF PostInv
  <1> QED BY <1>4, <1>5

\* A client that goes away sends a part of what it would have sent.
LEMMA PostFront ==
    ASSUME NEW r, RequestTyped(r), NEW n, NetTyped(n), NEW m, NetTyped(m), NEW t, Listed(t),
           Waiting(n) = Waiting(m) \o t
    PROVE  Posted(r, n) => Posted(r, m)
  <1> DEFINE a == Ahead(r, m)
             u == Drop(r.stream, r.parse_pos)
             W == Waiting(m)
  <1>1. Listed(u) /\ Listed(W) /\ Listed(a)
    <2>1. u \in Seq(Token) /\ W \in Seq(Token) /\ a \in Seq(Token)
      BY AheadTyped
    <2> HIDE DEF u, W, a
    <2> QED BY <2>1, ListedAny
  <1>2. a = u \o W
    BY DEF Ahead
  <1> HIDE DEF a, u, W
  <1>3. (u \o W) \o t = u \o (W \o t)
    BY <1>1, ListedThree
  <1>4. Ahead(r, n) = a \o t
    BY <1>2, <1>3 DEF Ahead, W, u
  <1>5. Announced(a \o t) => Announced(a)
    BY <1>1, AnnouncedFront
  <1>6. \A st, c : Announces(st, a \o t, c) => Announces(st, a, c)
    BY <1>1, AnnouncesFront
  <1>7. Chained(r, n) => Chained(r, m)
    BY <1>4, <1>5 DEF Chained, a
  <1>8. Reading(r, n) => Reading(r, m)
    BY <1>4, <1>5, <1>6 DEF Reading, a
  <1>9. r.status \in Early /\ Saving(r, n) => Saving(r, m)
    <2> DEFINE d == r.data
               p == r.filepos
               z == r.filesize
    <2> SUFFICES ASSUME r.status \in Early, Saving(r, n) PROVE Saving(r, m)
      OBVIOUS
    <2>1. d \in Seq(Token)
      BY DEF RequestTyped
    <2>2. BodyFrom(d \o (W \o t), p, z)
      BY DEF Saving, W
    <2> HIDE DEF d, p, z
    <2>3. Listed(d)
      BY <2>1, ListedAny
    <2>4. Listed(d \o W) /\ (d \o W) \o t = d \o (W \o t)
      BY ONLY <1>1, <2>3, ListedThree, ListedJoin
    <2> DEFINE b == d \o W
    <2>5. Listed(b) /\ BodyFrom(b \o t, p, z)
      BY <2>2, <2>4
    <2> HIDE DEF b
    <2>6. BodyFrom(b, p, z)
      BY <2>5, BodyFront
    <2> QED BY <2>6 DEF Saving, b, d, p, z, W
  <1> QED BY <1>7, <1>8, <1>9, EarlyHeaders DEF Posted

\* The next piece comes, or the rest does not.
LEMMA PostPiece ==
    ASSUME NEW n, NetTyped(n), NEW m, NetTyped(m),
           \/ n.more # <<>> /\ m.inq = n.inq \o Head(n.more) /\ m.more = Tail(n.more)
           \/ m.inq = n.inq /\ m.more = n.more
           \/ m.inq = n.inq /\ m.more = <<>>
    PROVE  \E t : Listed(t) /\ Waiting(n) = Waiting(m) \o t
  <1> DEFINE a == n.inq
             l == n.more
             h == Head(l)
             k == Tail(l)
  <1>1. a \in Seq(Token) /\ l \in Seq(Seq(Token)) /\ Waiting(n) = a \o FlattenSeq(l)
    BY DEF NetTyped, Waiting
  <1>2. FlattenSeq(l) \in Seq(Token)
    BY <1>1, FlatParts
  <1>3. Listed(a) /\ Listed(FlattenSeq(l)) /\ Listed(<<>>)
    BY <1>1, <1>2, ListedAny, ListedNew
  <1>4. CASE l # <<>> /\ m.inq = a \o h /\ m.more = k
    <2>1. h \in Seq(Token) /\ k \in Seq(Seq(Token))
      BY <1>1, <1>4
    <2>2. FlattenSeq(k) \in Seq(Token) /\ FlattenSeq(l) = h \o FlattenSeq(k)
      BY <1>1, <1>4, <2>1, FlatParts
    <2> HIDE DEF a, l, h, k
    <2> DEFINE f == FlattenSeq(k)
               ah == a \o h
    <2>3. Listed(h) /\ Listed(f)
      BY <2>1, <2>2, ListedAny
    <2> HIDE DEF f
    <2>4. (a \o h) \o f = a \o (h \o f) /\ Listed((a \o h) \o f)
      BY ONLY <1>3, <2>3, ListedThree, ListedJoin
    <2> DEFINE w == ah \o f
    <2>5. Listed(w) /\ Waiting(n) = w
      BY <1>1, <2>2, <2>4 DEF f
    <2>6. Waiting(m) = w
      BY <1>4 DEF Waiting, f
    <2> HIDE DEF w
    <2>7. w \o <<>> = w
      BY <2>5, ListedNone
    <2> QED BY <1>3, <2>5, <2>6, <2>7
  <1>5. CASE m.inq = a /\ m.more = l
    <2> DEFINE w == Waiting(n)
    <2>1. Waiting(m) = w /\ Listed(w)
      <3>1. Listed(a \o FlattenSeq(l))
        BY ONLY <1>3, ListedJoin
      <3> QED BY <1>1, <1>5, <3>1 DEF Waiting
    <2> HIDE DEF w
    <2>2. w \o <<>> = w
      BY <2>1, ListedNone
    <2> QED BY <1>3, <2>1, <2>2 DEF w
  <1>6. CASE m.inq = a /\ m.more = <<>>
    <2>1. FlattenSeq(<<>>) = <<>>
      <3>1. <<>> \in Seq(Seq(Token))
        OBVIOUS
      <3> QED BY <3>1, FlatParts
    <2>2. a \o <<>> = a
      BY <1>3, ListedNone
    <2>3. Waiting(m) = a
      BY <1>6, <2>1, <2>2 DEF Waiting
    <2> QED BY <1>1, <1>3, <2>3
  <1> QED BY <1>4, <1>5, <1>6

\* While the server is in select.
LEMMA PostNet ==
    ASSUME BoaInv, BoaInv', PostInv, NEW f \in Live, Send(f) \/ Receive(f) \/ Leave(f)
    PROVE  PostInv'
  <1>1. DOMAIN net = Fds /\ f \in Fds /\ NetTyped(net[f])
    BY DEF BoaInv, InputsOK, Live
  <1>2. \E m : /\ NetStep(f, m)
               /\ \/ net[f].more # <<>> /\ m.inq = net[f].inq \o Head(net[f].more) /\ m.more = Tail(net[f].more)
                  \/ m.inq = net[f].inq /\ m.more = net[f].more
                  \/ m.inq = net[f].inq /\ m.more = <<>>
    <2> DEFINE n == net[f]
    <2>1. {"inq", "more", "peer", "room"} \subseteq DOMAIN n
      BY <1>1 DEF NetTyped, NoNet
    <2> DEFINE a == n.inq \o Head(n.more)
               b == Tail(n.more)
               s == [n EXCEPT !.inq = a, !.more = b]
    <2>2. CASE Send(f)
      <3>1. n.more # <<>> /\ NetStep(f, [n EXCEPT !.inq = @ \o Head(n.more), !.more = Tail(@)])
        BY <2>2 DEF Send
      <3>2. n.more # <<>> /\ NetStep(f, s)
        BY <2>1, <3>1
      <3>3. s.inq = a /\ s.more = b
        BY <2>1
      <3> HIDE DEF s
      <3> QED BY <3>2, <3>3
    <2>3. CASE Receive(f)
      <3> DEFINE m == [n EXCEPT !.room = SndBuf]
      <3>1. NetStep(f, m)
        BY <2>3 DEF Receive
      <3>2. m.inq = n.inq /\ m.more = n.more
        BY <2>1
      <3> QED BY <3>1, <3>2
    <2>4. CASE Leave(f)
      <3>1. PICK how : NetStep(f, [n EXCEPT !.peer = how, !.more = <<>>])
        BY <2>4 DEF Leave
      <3> DEFINE m == [n EXCEPT !.peer = how, !.more = <<>>]
      <3>2. m.inq = n.inq /\ m.more = <<>>
        BY <2>1
      <3> QED BY <3>1, <3>2
    <2> QED BY <2>2, <2>3, <2>4
  <1>3. PICK m : /\ NetStep(f, m)
                 /\ \/ net[f].more # <<>> /\ m.inq = net[f].inq \o Head(net[f].more) /\ m.more = Tail(net[f].more)
                    \/ m.inq = net[f].inq /\ m.more = net[f].more
                    \/ m.inq = net[f].inq /\ m.more = <<>>
    BY <1>2
  <1>4. /\ stage = "select" /\ net' = [net EXCEPT ![f] = m]
        /\ UNCHANGED <<stage, ready, block, req, src, backlog, arrivals>>
    BY <1>3 DEF NetStep, server
  <1>5. net'[f] = m /\ \A g \in Fds \ {f} : net'[g] = net[g]
    BY <1>1, <1>4
  <1>6. NetTyped(m)
    BY <1>1, <1>5 DEF BoaInv, InputsOK
  <1>7. Requests' = Requests /\ Requests \subseteq Fds
    BY <1>4, RequestsFinite DEF Requests, BoaInv
  <1>8. ASSUME NEW g \in Requests PROVE Posted(req[g], net'[g])
    <2>1. Posted(req[g], net[g]) /\ RequestTyped(req[g]) /\ g \in Fds
      BY <1>4, <1>7 DEF PostInv, JustOver, BoaInv, InputsOK
    <2>2. CASE g = f
      <3> DEFINE n == net[f]
                 r == req[f]
      <3>1. \E t : Listed(t) /\ Waiting(n) = Waiting(m) \o t
        BY <1>1, <1>3, <1>6, PostPiece
      <3>2. RequestTyped(r) /\ NetTyped(n) /\ Posted(r, n)
        BY <1>1, <2>1, <2>2
      <3> HIDE DEF n, r
      <3>3. Posted(r, m)
        BY <1>6, <3>1, <3>2, PostFront
      <3> QED BY <1>5, <2>2, <3>3 DEF r
    <2>3. CASE g # f
      BY <1>5, <2>1, <2>3
    <2> QED BY <2>2, <2>3
  <1> QED BY <1>4, <1>7, <1>8 DEF PostInv, JustOver

\* The world around the server.
LEMMA PostWorld ==
    ASSUME BoaInv, BoaInv', PostInv, World \/ (\E f \in Fds : Age(f)) \/ UNCHANGED vars
    PROVE  PostInv'
  <1>1. CASE Signal \/ UNCHANGED vars
    <2>1. UNCHANGED <<ready, block, req, net, src, ret, todo, backlog, arrivals>>
      BY <1>1 DEF Signal, vars, server, data, counters
    <2>2. stage' \in {"accept", "dispose"} <=> stage \in {"accept", "dispose"}
      BY <1>1 DEF Signal, vars, server
    <2>3. Requests' = Requests /\ \A f : JustOver(f)' <=> JustOver(f)
      BY <2>1, <2>2 DEF Requests, JustOver
    <2> QED BY <2>1, <2>3 DEF PostInv
  <1>2. CASE Connect
    <2>1. /\ UNCHANGED <<stage, ready, block, req, net, src, ret, todo>>
          /\ arrivals # <<>> /\ backlog' = Append(backlog, Head(arrivals)) /\ arrivals' = Tail(arrivals)
      BY <1>2 DEF Connect, server, data
    <2>2. backlog \in Seq(Seq(Seq(Token))) /\ arrivals \in Seq(Seq(Seq(Token)))
      BY DEF BoaInv, InputsOK
    <2>3. /\ \A i \in 1..Len(backlog) : Announced(FlattenSeq(backlog[i]))
          /\ \A i \in 1..Len(arrivals) : Announced(FlattenSeq(arrivals[i]))
      BY DEF PostInv
    <2>4. ASSUME NEW i \in 1..Len(backlog')
          PROVE  Announced(FlattenSeq(backlog'[i]))
      <3>1. /\ Len(backlog') = Len(backlog) + 1 /\ Len(backlog) \in Nat
            /\ i <= Len(backlog) => backlog'[i] = backlog[i]
            /\ i = Len(backlog) + 1 => backlog'[i] = arrivals[1]
            /\ 1 \in 1..Len(arrivals)
        BY <2>1, <2>2, <2>4
      <3>2. i \in 1..Len(backlog) \/ i = Len(backlog) + 1
        BY <3>1
      <3> QED BY <2>3, <3>1, <3>2
    <2>5. ASSUME NEW i \in 1..Len(arrivals')
          PROVE  Announced(FlattenSeq(arrivals'[i]))
      <3>1. i + 1 \in 1..Len(arrivals) /\ arrivals'[i] = arrivals[i + 1]
        BY <2>1, <2>2, <2>5
      <3> QED BY <2>3, <3>1
    <2>6. Requests' = Requests /\ \A f : JustOver(f)' <=> JustOver(f)
      BY <2>1 DEF Requests, JustOver
    <2> QED BY <2>1, <2>4, <2>5, <2>6 DEF PostInv
  <1>3. CASE \E f \in Live : Send(f) \/ Receive(f) \/ Leave(f)
    BY <1>3, PostNet
  <1>4. CASE \E f \in AllFds : Produce(f)
    <2>1. PICK d \in AllFds : Produce(d)
      BY <1>4
    <2>2. UNCHANGED <<stage, ready, block, req, net, ret, todo, backlog, arrivals>>
      BY <2>1 DEF Produce, server
    <2>3. \/ src' = [src EXCEPT ![d].pipe = Append(@, Head(src[d].left)), ![d].left = Tail(@)]
          \/ src' = [src EXCEPT ![d].alive = "no"]
      BY <2>1 DEF Produce
    <2>4. Fed(src)
      BY DEF PostInv
    <2>5. /\ DOMAIN src' = AllFds
          /\ \A g \in AllFds : /\ DOMAIN src'[g] = DOMAIN src[g]
                               /\ src'[g].clen = src[g].clen /\ src'[g].stdin = src[g].stdin
      BY <2>3, <2>4 DEF Fed
    <2>6. Fed(src')
      BY <2>4, <2>5 DEF Fed
    <2>7. Requests' = Requests /\ \A f : JustOver(f)' <=> JustOver(f)
      BY <2>2 DEF Requests, JustOver
    <2> QED BY <2>2, <2>6, <2>7 DEF PostInv
  <1>5. CASE \E f \in Fds : Age(f)
    <2>1. PICK f \in Fds : Age(f)
      BY <1>5
    <2>2. /\ UNCHANGED <<stage, ready, block, net, src, ret, todo, backlog, arrivals>>
          /\ req' = [req EXCEPT ![f].age = @ + 1]
      BY <2>1 DEF Age, server, counters
    <2> DEFINE older == req[f].age + 1
               r == req[f]
               q == [r EXCEPT !.age = older]
    <2>3. DOMAIN req = Fds /\ HasFields(r)
      BY DEF BoaInv, TablesOK
    <2>4. req'[f] = q /\ \A g \in Fds \ {f} : req'[g] = req[g]
      BY <2>2, <2>3
    <2> HIDE DEF older, r
    <2>5. (\A x \in BodyFields : q[x] = r[x]) /\ q.status = r.status
      BY <2>3 DEF HasFields, BodyFields
    <2> HIDE DEF q
    <2>6. \A n : (Chained(r, n) => Chained(q, n)) /\ (Posted(r, n) => Posted(q, n))
      BY <2>5, PostSame
    <2>7. Requests' = Requests /\ Requests \subseteq Fds /\ \A g : JustOver(g)' <=> JustOver(g)
      BY <2>2, RequestsFinite DEF Requests, BoaInv, JustOver
    <2>8. ASSUME NEW g \in Requests
          PROVE  (IF JustOver(g) THEN Chained(req[g], net[g]) ELSE Posted(req[g], net[g]))'
      <3>1. IF JustOver(g) THEN Chained(req[g], net[g]) ELSE Posted(req[g], net[g])
        BY DEF PostInv
      <3>2. CASE g = f
        BY <2>2, <2>4, <2>6, <2>7, <3>1, <3>2 DEF r
      <3>3. CASE g # f
        BY <2>2, <2>4, <2>7, <3>1, <3>3
      <3> QED BY <3>2, <3>3
    <2> QED BY <2>2, <2>7, <2>8 DEF PostInv
  <1> QED BY <1>1, <1>2, <1>3, <1>4, <1>5 DEF World

\* What is done with a request that has been run.
LEMMA PostDispose ==
    ASSUME BoaInv, BoaInv', AnswerInv, PostInv, Dispose
    PROVE  PostInv'
  <1>1. PICK f \in Requests : f = Head(todo)
    BY AtHand DEF Dispose
  <1> DEFINE r == req[f]
             n == net[f]
  <1>2. /\ stage = "dispose" /\ stage' \notin {"accept", "dispose"}
        /\ UNCHANGED <<backlog, arrivals>>
    BY DEF Dispose, Round, counters
  <1>3. /\ DOMAIN req = Fds /\ DOMAIN net = Fds /\ DOMAIN open = AllFds /\ f \in Fds /\ f \in AllFds
        /\ Requests \subseteq Fds
        /\ HasFields(r) /\ RequestTyped(r) /\ NetTyped(n) /\ RequestOK(r, open)
    BY RequestsFinite DEF BoaInv, TablesOK, InputsOK, AllFds
  <1>4. Fed(src) /\ IF ret = 0 THEN Chained(r, n) ELSE Posted(r, n)
    BY <1>1, <1>2 DEF PostInv, JustOver
  <1>5. Requests = {g \in AllFds : open[g] = "socket"} /\ Requests' = {g \in AllFds : open'[g] = "socket"}
    BY SocketsAre DEF BoaInv, Accounted
  <1> HIDE DEF r, n
  <1>6. ASSUME Fed(src'), Requests' \subseteq Requests,
               \A g \in Fds \ {f} : req'[g] = req[g] /\ net'[g] = net[g],
               f \in Requests' => Posted(req'[f], net'[f])
        PROVE  PostInv'
    <2>1. ASSUME NEW g \in Requests, g # f PROVE Posted(req'[g], net'[g])
      <3>1. Posted(req[g], net[g])
        BY <1>1, <2>1 DEF PostInv, JustOver
      <3> QED BY <1>3, <1>6, <2>1, <3>1
    <2>2. \A g \in Requests' : Posted(req'[g], net'[g])
      BY <1>6, <2>1
    <2> QED BY <1>2, <1>6, <2>2 DEF PostInv, JustOver
  <1>7. \/ ret = -1 /\ UNCHANGED data
        \/ ret = 0 /\ req' = [req EXCEPT ![f].status = "DONE", ![f].age = 0] /\ UNCHANGED <<net, open, src>>
        \/ ret = 0 /\ free_request(f)
        \/ ret > 0 /\ req' = [req EXCEPT ![f].age = 0] /\ UNCHANGED <<net, open, src>>
    BY <1>1 DEF Dispose
  <1>8. CASE ret = -1 /\ UNCHANGED data
    <2>1. UNCHANGED <<req, net, open, src>>
      BY <1>8 DEF data
    <2> QED BY <1>4, <1>5, <1>6, <1>8, <2>1 DEF r, n
  <1>9. CASE ret = 0 /\ req' = [req EXCEPT ![f].status = "DONE", ![f].age = 0] /\ UNCHANGED <<net, open, src>>
    <2> DEFINE q == [r EXCEPT !.status = "DONE", !.age = 0]
    <2>1. req'[f] = q /\ \A g \in Fds \ {f} : req'[g] = req[g]
      BY <1>3, <1>9 DEF r
    <2>2. (\A x \in BodyFields : q[x] = r[x]) /\ q.status = "DONE"
      BY <1>3 DEF HasFields, BodyFields
    <2> HIDE DEF q
    <2>3. Chained(q, n)
      BY <1>4, <1>9, <2>2, PostSame
    <2>4. Posted(q, n)
      BY <2>2, <2>3 DEF Posted, Headers
    <2> QED BY <1>4, <1>5, <1>6, <1>9, <2>1, <2>4 DEF n
  <1>10. CASE ret > 0 /\ req' = [req EXCEPT ![f].age = 0] /\ UNCHANGED <<net, open, src>>
    <2> DEFINE q == [r EXCEPT !.age = 0]
    <2>1. req'[f] = q /\ \A g \in Fds \ {f} : req'[g] = req[g]
      BY <1>3, <1>10 DEF r
    <2>2. (\A x \in BodyFields : q[x] = r[x]) /\ q.status = r.status
      BY <1>3 DEF HasFields, BodyFields
    <2> HIDE DEF q
    <2>3. Posted(r, n)
      BY <1>4, <1>10
    <2>4. Posted(q, n)
      BY <2>2, <2>3, PostSame
    <2> QED BY <1>4, <1>5, <1>6, <1>10, <2>1, <2>4 DEF n
  <1>11. CASE ret = 0 /\ free_request(f)
    <2> DEFINE gone == IF Kept(r) THEN Released(f) ELSE {f} \cup Released(f)
    <2>1. /\ open' = [g \in AllFds |-> IF g \in gone THEN "free" ELSE open[g]]
          /\ src' = [g \in AllFds |-> IF g \in gone THEN NoSrc ELSE src[g]]
      BY <1>11 DEF free_request, r
    <2>2. ~Kept(r) => f \in gone
      OBVIOUS
    <2> HIDE DEF gone
    <2>3. Fed(src')
      <3>1. {"clen", "stdin"} \subseteq DOMAIN NoSrc /\ ~(NoSrc.clen > 0)
        BY DEF NoSrc
      <3> QED BY <1>4, <2>1, <3>1 DEF Fed
    <2>4. Requests' \subseteq Requests
      BY <1>5, <2>1
    <2>5. CASE Kept(r)
      <3> DEFINE k == r.kacount - 1
                 s == Drop(r.stream, r.parse_pos)
                 q == NewRequest(k, s)
      <3>1. req' = [req EXCEPT ![f] = q] /\ UNCHANGED net
        BY <1>11, <2>5 DEF free_request, NextOn, r
      <3>2. s \in Seq(Token) /\ Announced(s \o Waiting(n))
        <4>1. r.keepalive = "active" /\ Chained(r, n)
          BY <1>4, <1>11, <2>5 DEF Kept
        <4>2. s \in Seq(Token)
          BY <1>3, AheadTyped
        <4> QED BY <4>1, <4>2 DEF Chained, Ahead
      <3>3. q = NewRequest(k, s)
        OBVIOUS
      <3> HIDE DEF k, s, q
      <3>4. Posted(q, n)
        BY <1>3, <3>2, <3>3, FreshPosted
      <3>5. req'[f] = q /\ net'[f] = n /\ \A g \in Fds \ {f} : req'[g] = req[g] /\ net'[g] = net[g]
        BY <1>3, <3>1 DEF n
      <3> QED BY <1>6, <2>3, <2>4, <3>4, <3>5
    <2>6. CASE ~Kept(r)
      <3>1. req' = [req EXCEPT ![f] = NoReq] /\ net' = [net EXCEPT ![f] = NoNet]
        BY <1>11, <2>6 DEF free_request, r
      <3>2. f \notin Requests'
        BY <1>3, <1>5, <2>1, <2>2, <2>6
      <3>3. \A g \in Fds \ {f} : req'[g] = req[g] /\ net'[g] = net[g]
        BY <1>3, <3>1
      <3> QED BY <1>6, <2>3, <2>4, <3>2, <3>3
    <2> QED BY <2>5, <2>6
  <1> QED BY <1>7, <1>8, <1>9, <1>10, <1>11

\* What is announced, saved and yet to come stays a body.
LEMMA Posts == Spec => []PostInv
  <1>1. Init => PostInv
    <2> SUFFICES ASSUME Init PROVE PostInv
      OBVIOUS
    <2>1. /\ ready = <<>> /\ block = <<>> /\ src = [f \in AllFds |-> NoSrc]
          /\ backlog = <<>> /\ arrivals \in Scenarios
      BY DEF Init
    <2>2. Requests = {}
      BY <2>1 DEF Requests, ToSet
    <2>3. Fed(src)
      BY <2>1 DEF Fed, NoSrc
    <2>4. Len(backlog) = 0
      BY <2>1
    <2>5. \A i \in 1..Len(arrivals) : Announced(FlattenSeq(arrivals[i]))
      BY <2>1, PostAssumption
    <2> QED BY <2>2, <2>3, <2>4, <2>5 DEF PostInv
  <1>2. BoaInv /\ BoaInv' /\ AnswerInv /\ PostInv /\ [Next]_vars => PostInv'
    <2> SUFFICES ASSUME BoaInv, BoaInv', AnswerInv, PostInv, [Next]_vars PROVE PostInv'
      OBVIOUS
    <2>1. CASE Server
      BY <2>1, PostTop, PostTake, PostDispose, PostRun DEF Server
    <2>2. CASE World \/ (\E f \in Fds : Age(f)) \/ UNCHANGED vars
      BY <2>2, PostWorld
    <2> QED BY <2>1, <2>2 DEF Next
  <1> QED BY <1>1, <1>2, Safe, Answers, PTL DEF Spec

\* A CGI program that is started for a POST finds on its standard input the body its
\* client has announced, all of it and in order, wherever read_header, read_body and
\* write_body have cut it, and whatever is sent behind it.
THEOREM PostsWhole == Spec => []PostWhole
  <1>1. PostInv => PostWhole
    BY DEF PostInv, Fed, Bodies, PostWhole
  <1> QED BY <1>1, Posts, PTL
=============================================================================
