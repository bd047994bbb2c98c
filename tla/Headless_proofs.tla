--------------------------- MODULE Headless_proofs ---------------------------
(* Theorems of HeadlessRuntime for any sessions, prompts, kills, slots,      *)
(* crashes and faults.                                                       *)
EXTENDS HeadlessRuntime, Integers, FiniteSetTheorems, WellFoundedInduction, TLAPS

-----------------------------------------------------------------------------
(* Sequences without repetition.                                             *)

\* A set of numbers that is not empty has a least one.
LEMMA LeastNumber ==
  ASSUME NEW T, T \subseteq Nat, T # {}
  PROVE  \E n \in T : \A m \in T : n <= m
<1>1. PICK n \in T : \A m \in Nat : <<m, n>> \in OpToRel(<, Nat) => m \notin T
  BY WFMin, NatLessThanWellFounded
<1>2. \A m \in Nat : m < n => <<m, n>> \in OpToRel(<, Nat)
  BY DEF OpToRel
<1>3. \A m \in T : ~(m < n)
  BY <1>1, <1>2
<1> QED BY <1>3

LEMMA SetOf ==
  ASSUME NEW T, NEW q \in Seq(T)
  PROVE  /\ Len(q) \in Nat /\ DOMAIN q = 1 .. Len(q) /\ ToSet(q) = {q[i] : i \in 1 .. Len(q)}
         /\ ToSet(q) \subseteq T
BY DEF ToSet

LEMMA Appended ==
  ASSUME NEW T, NEW q \in Seq(T), NEW e \in T
  PROVE  /\ Append(q, e) \in Seq(T) /\ ToSet(Append(q, e)) = ToSet(q) \cup {e}
         /\ IsInjective(q) /\ e \notin ToSet(q) => IsInjective(Append(q, e))
<1> DEFINE r == Append(q, e)
<1>1. /\ r \in Seq(T) /\ Len(q) \in Nat /\ DOMAIN r = 1 .. Len(q) + 1 /\ DOMAIN q = 1 .. Len(q)
      /\ \A i \in 1 .. Len(q) : r[i] = q[i]
      /\ r[Len(q) + 1] = e
  OBVIOUS
<1> HIDE DEF r
<1>2. ToSet(r) = ToSet(q) \cup {e}
  BY <1>1 DEF ToSet
<1>3. ASSUME IsInjective(q), e \notin ToSet(q) PROVE IsInjective(r)
  <2>1. \A i \in 1 .. Len(q) : q[i] # e
    BY <1>1, <1>3 DEF ToSet
  <2>2. \A i, j \in 1 .. Len(q) : q[i] = q[j] => i = j
    BY <1>1, <1>3 DEF IsInjective
  <2> QED BY <1>1, <2>1, <2>2 DEF IsInjective
<1> QED BY <1>1, <1>2, <1>3 DEF r

LEMMA HeadAndTail ==
  ASSUME NEW T, NEW q \in Seq(T), q # <<>>
  PROVE  /\ Head(q) \in T /\ Tail(q) \in Seq(T) /\ ToSet(q) = ToSet(Tail(q)) \cup {Head(q)}
         /\ IsInjective(q) => IsInjective(Tail(q)) /\ Head(q) \notin ToSet(Tail(q))
<1> DEFINE r == Tail(q)
<1>1. /\ r \in Seq(T) /\ Len(q) \in Nat /\ Len(q) >= 1 /\ DOMAIN r = 1 .. Len(q) - 1
      /\ DOMAIN q = 1 .. Len(q) /\ Head(q) = q[1] /\ q[1] \in T
      /\ \A i \in 1 .. Len(q) - 1 : r[i] = q[i + 1]
  OBVIOUS
<1> HIDE DEF r
<1>2. ToSet(q) = ToSet(r) \cup {q[1]}
  <2>1. /\ ToSet(q) = {q[i] : i \in 1 .. Len(q)}
        /\ ToSet(r) = {r[i] : i \in 1 .. Len(q) - 1}
    BY <1>1 DEF ToSet
  <2>2. ASSUME NEW i \in 1 .. Len(q) PROVE q[i] \in ToSet(r) \cup {q[1]}
    <3>1. CASE i = 1
      BY <3>1
    <3>2. CASE i # 1
      <4>1. i - 1 \in 1 .. Len(q) - 1 /\ (i - 1) + 1 = i
        BY <1>1, <3>2
      <4>2. r[i - 1] = q[i]
        BY <1>1, <4>1
      <4> QED BY <2>1, <4>1, <4>2
    <3> QED BY <3>1, <3>2
  <2>3. ASSUME NEW i \in 1 .. Len(q) - 1 PROVE r[i] \in ToSet(q)
    <3>1. i + 1 \in 1 .. Len(q)
      BY <1>1
    <3> QED BY <1>1, <2>1, <3>1
  <2>4. q[1] \in ToSet(q)
    BY <1>1, <2>1
  <2> QED BY <2>1, <2>2, <2>3, <2>4
<1>3. ASSUME IsInjective(q) PROVE IsInjective(r) /\ q[1] \notin ToSet(r)
  <2>1. \A i, j \in 1 .. Len(q) : q[i] = q[j] => i = j
    BY <1>1, <1>3 DEF IsInjective
  <2>2. IsInjective(r)
    BY <1>1, <2>1 DEF IsInjective
  <2>3. \A i \in 1 .. Len(q) - 1 : r[i] # q[1]
    BY <1>1, <2>1
  <2> QED BY <1>1, <2>2, <2>3 DEF ToSet
<1> QED BY <1>1, <1>2, <1>3 DEF r

LEMMA FirstRemoved ==
  ASSUME NEW T, NEW q \in Seq(T), IsInjective(q), NEW e
  PROVE  /\ RemoveFirst(q, e) \in Seq(T) /\ ToSet(RemoveFirst(q, e)) = ToSet(q) \ {e}
         /\ IsInjective(RemoveFirst(q, e))
<1>1. CASE ~\E i \in 1 .. Len(q) : q[i] = e
  <2>1. RemoveFirst(q, e) = q
    BY <1>1, Zenon DEF RemoveFirst
  <2>2. e \notin ToSet(q)
    BY <1>1, SetOf
  <2> QED BY <2>1, <2>2
<1>2. CASE \E i \in 1 .. Len(q) : q[i] = e
  <2> DEFINE I == {i \in 1 .. Len(q) : q[i] = e}
             n == Min(I)
             r == RemoveFirst(q, e)
  <2>0. Len(q) \in Nat /\ DOMAIN q = 1 .. Len(q) /\ ToSet(q) = {q[i] : i \in 1 .. Len(q)}
    BY SetOf
  <2>1. I # {} /\ I \subseteq Nat
    BY <1>2, <2>0
  <2>2. n \in I
    BY <2>1, LeastNumber DEF Min
  <2>3. r = RemoveAt(q, n)
    BY <1>2, <2>1, Zenon DEF RemoveFirst, SelectInSeq
  <2>4. n \in 1 .. Len(q) /\ q[n] = e
    BY <2>2
  <2> HIDE DEF I, n
  <2>5. r = SubSeq(q, 1, n - 1) \o SubSeq(q, n + 1, Len(q))
    BY <2>3 DEF RemoveAt
  <2> HIDE DEF r
  <2>6. /\ r \in Seq(T) /\ DOMAIN r = 1 .. Len(q) - 1
        /\ \A i \in 1 .. n - 1 : r[i] = q[i]
        /\ \A i \in n .. Len(q) - 1 : r[i] = q[i + 1]
    <3> DEFINE a == SubSeq(q, 1, n - 1)
               b == SubSeq(q, n + 1, Len(q))
    <3>1. /\ a \in Seq(T) /\ Len(a) = n - 1 /\ \A i \in 1 .. n - 1 : a[i] = q[i]
      BY <2>0, <2>4
    <3>n. n \in 0 .. Len(q)
      BY <2>0, <2>4
    <3>2. /\ b \in Seq(T) /\ Len(b) = Len(q) - n /\ DOMAIN b = 1 .. Len(q) - n
          /\ \A i \in 1 .. Len(q) - n : b[i] = q[n + i]
      BY <3>n
    <3>3. r = a \o b
      BY <2>5
    <3> HIDE DEF a, b
    <3>4. r \in Seq(T) /\ Len(r) = Len(a) + Len(b) /\ DOMAIN r = 1 .. Len(r)
      BY <3>1, <3>2, <3>3
    <3>5. \A i \in 1 .. n - 1 : r[i] = q[i]
      BY <2>0, <2>4, <3>1, <3>2, <3>3
    <3>6. ASSUME NEW i \in n .. Len(q) - 1 PROVE r[i] = q[i + 1]
      <4>1. i - (n - 1) \in 1 .. Len(q) - n /\ n + (i - (n - 1)) = i + 1
        BY <2>0, <2>4
      <4>2. r[i] = b[i - (n - 1)]
        BY <2>0, <2>4, <3>1, <3>2, <3>3
      <4> QED BY <3>2, <4>1, <4>2
    <3> QED BY <2>0, <2>4, <3>1, <3>2, <3>4, <3>5, <3>6
  <2>7. \A i, j \in 1 .. Len(q) : q[i] = q[j] => i = j
    BY <2>0 DEF IsInjective
  <2>8. ToSet(r) = {r[i] : i \in 1 .. Len(q) - 1}
    BY <2>6 DEF ToSet
  <2>9. ASSUME NEW i \in 1 .. Len(q) - 1 PROVE r[i] \in ToSet(q) \ {e}
    <3>1. CASE i < n
      <4>1. i \in 1 .. n - 1 /\ i \in 1 .. Len(q) /\ i # n
        BY <2>0, <2>4, <3>1
      <4>2. r[i] = q[i] /\ q[i] # e
        BY <2>4, <2>6, <2>7, <4>1
      <4> QED BY <2>0, <4>1, <4>2
    <3>2. CASE i >= n
      <4>1. i \in n .. Len(q) - 1 /\ i + 1 \in 1 .. Len(q) /\ i + 1 # n
        BY <2>0, <2>4, <3>2
      <4>2. r[i] = q[i + 1] /\ q[i + 1] # e
        BY <2>4, <2>6, <2>7, <4>1
      <4> QED BY <2>0, <4>1, <4>2
    <3> QED BY <2>0, <2>4, <3>1, <3>2
  <2>10. ASSUME NEW i \in 1 .. Len(q), i # n PROVE q[i] \in ToSet(r)
    <3>1. CASE i < n
      <4>1. i \in 1 .. n - 1 /\ i \in 1 .. Len(q) - 1
        BY <2>0, <2>4, <3>1
      <4> QED BY <2>6, <2>8, <4>1
    <3>2. CASE i > n
      <4>1. i - 1 \in n .. Len(q) - 1 /\ i - 1 \in 1 .. Len(q) - 1 /\ (i - 1) + 1 = i
        BY <2>0, <2>4, <3>2
      <4>2. r[i - 1] = q[i]
        BY <2>6, <4>1
      <4> QED BY <2>8, <4>1, <4>2
    <3> QED BY <2>0, <2>4, <2>10, <3>1, <3>2
  <2>11. ToSet(r) = ToSet(q) \ {e}
    BY <2>0, <2>4, <2>8, <2>9, <2>10
  <2>12. IsInjective(r)
    <3> DEFINE at(i) == IF i < n THEN i ELSE i + 1
    <3>1. \A i \in 1 .. Len(q) - 1 : at(i) \in 1 .. Len(q) /\ r[i] = q[at(i)]
      BY <2>0, <2>4, <2>6
    <3>2. \A i, j \in 1 .. Len(q) - 1 : at(i) = at(j) => i = j
      BY <2>0, <2>4
    <3> HIDE DEF at
    <3>3. \A i, j \in 1 .. Len(q) - 1 : r[i] = r[j] => i = j
      BY <2>7, <3>1, <3>2
    <3> QED BY <2>6, <3>3 DEF IsInjective
  <2> QED BY <2>6, <2>11, <2>12 DEF r
<1> QED BY <1>1, <1>2

-----------------------------------------------------------------------------
(* The run queue: its index holds the same entries, one for a session.       *)

Queues == [q : Seq(Entry), ids : [Sessions -> Entry \cup {None}], run : SUBSET Sessions, go : SUBSET Entry]

Indexed(h) ==
  /\ h \in Queues
  /\ \A s \in Sessions : h.ids[s] # None => h.ids[s].s = s /\ h.ids[s] \in ToSet(h.q)
  /\ \A e \in ToSet(h.q) : h.ids[e.s] = e
  /\ IsInjective(h.q)

\* What started has a slot, and a slot of its own.
Slotted(h) ==
  /\ IsFiniteSet(h.run) /\ Cardinality(h.run) <= MaxRunning
  /\ \A e \in h.go : e.s \in h.run
  /\ \A d, e \in h.go : d.s = e.s => d = e

\* From h to g, an entry stays in the index or has left it for a slot.
Starts(h, g, held) ==
  \A t \in Sessions :
    \/ g.ids[t] = h.ids[t] /\ \A e \in g.go \ h.go : e.s # t
    \/ h.ids[t] # None /\ g.ids[t] = None /\ h.ids[t] \in g.go \ h.go /\ t \notin held

LEMMA QueueFields ==
  ASSUME NEW h, h \in Queues
  PROVE  /\ h = [q |-> h.q, ids |-> h.ids, run |-> h.run, go |-> h.go]
         /\ h.q \in Seq(Entry) /\ h.ids \in [Sessions -> Entry \cup {None}]
         /\ h.run \subseteq Sessions /\ h.go \subseteq Entry
         /\ ToSet(h.q) \subseteq Entry
<1>1. h.q \in Seq(Entry)
  BY DEF Queues
<1>2. ToSet(h.q) \subseteq Entry
  BY <1>1, SetOf
<1> QED BY <1>2 DEF Queues

\* The record with one field replaced.
LEMMA Replaced ==
  ASSUME NEW h \in Queues
  PROVE  /\ \A w \in Seq(Entry) :
              [h EXCEPT !.q = w] = [q |-> w, ids |-> h.ids, run |-> h.run, go |-> h.go]
         /\ \A w \in [Sessions -> Entry \cup {None}] :
              [h EXCEPT !.ids = w] = [q |-> h.q, ids |-> w, run |-> h.run, go |-> h.go]
         /\ \A w \in SUBSET Sessions :
              [h EXCEPT !.run = w] = [q |-> h.q, ids |-> h.ids, run |-> w, go |-> h.go]
         /\ \A w \in SUBSET Entry :
              [h EXCEPT !.go = w] = [q |-> h.q, ids |-> h.ids, run |-> h.run, go |-> w]
<1>1. ASSUME NEW w \in Seq(Entry)
      PROVE  [h EXCEPT !.q = w] = [q |-> w, ids |-> h.ids, run |-> h.run, go |-> h.go]
  BY DEF Queues
<1>2. ASSUME NEW w \in [Sessions -> Entry \cup {None}]
      PROVE  [h EXCEPT !.ids = w] = [q |-> h.q, ids |-> w, run |-> h.run, go |-> h.go]
  BY DEF Queues
<1>3. ASSUME NEW w \in SUBSET Sessions
      PROVE  [h EXCEPT !.run = w] = [q |-> h.q, ids |-> h.ids, run |-> w, go |-> h.go]
  BY DEF Queues
<1>4. ASSUME NEW w \in SUBSET Entry
      PROVE  [h EXCEPT !.go = w] = [q |-> h.q, ids |-> h.ids, run |-> h.run, go |-> w]
  BY DEF Queues
<1> QED BY <1>1, <1>2, <1>3, <1>4

LEMMA Built ==
  ASSUME NEW q \in Seq(Entry), NEW ids \in [Sessions -> Entry \cup {None}],
         NEW run \in SUBSET Sessions, NEW go \in SUBSET Entry
  PROVE  [q |-> q, ids |-> ids, run |-> run, go |-> go] \in Queues
BY DEF Queues

LEMMA EntryFields ==
  ASSUME NEW e \in Entry PROVE e.s \in Sessions /\ e.p \in Prompts /\ e # None
BY HeadlessAssumption DEF Entry

LEMMA EnqueueKeeps ==
  ASSUME NEW h, Indexed(h), NEW e \in Entry
  PROVE  /\ Indexed(Enqueue(h, e)) /\ Enqueue(h, e).run = h.run /\ Enqueue(h, e).go = h.go
<1>0. /\ h.q \in Seq(Entry) /\ h.ids \in [Sessions -> Entry \cup {None}] /\ h \in Queues
      /\ h.run \subseteq Sessions /\ h.go \subseteq Entry
      /\ e.s \in Sessions /\ e # None
      /\ ToSet(h.q) \subseteq Entry
  BY QueueFields, EntryFields DEF Indexed
<1>1. CASE h.ids[e.s] # None
  BY <1>1 DEF Enqueue
<1>2. CASE h.ids[e.s] = None
  <2> DEFINE g == Enqueue(h, e)
  <2>1. g = [q |-> Append(h.q, e), ids |-> [h.ids EXCEPT ![e.s] = e], run |-> h.run, go |-> h.go]
    BY <1>0, <1>2 DEF Enqueue, Queues
  <2> HIDE DEF g
  <2>2. \A d \in ToSet(h.q) : d.s # e.s
    BY <1>0, <1>2, EntryFields DEF Indexed
  <2>3. Append(h.q, e) \in Seq(Entry) /\ ToSet(g.q) = ToSet(h.q) \cup {e} /\ IsInjective(g.q)
    BY <1>0, <2>1, <2>2, Appended DEF Indexed
  <2>4. [h.ids EXCEPT ![e.s] = e] \in [Sessions -> Entry \cup {None}]
    BY <1>0
  <2>5. g \in Queues
    BY <1>0, <2>1, <2>3, <2>4 DEF Queues
  <2>6. \A s \in Sessions : g.ids[s] # None => g.ids[s].s = s /\ g.ids[s] \in ToSet(g.q)
    BY <1>0, <2>1, <2>3 DEF Indexed
  <2>7. \A d \in ToSet(g.q) : g.ids[d.s] = d
    BY <1>0, <2>1, <2>2, <2>3, EntryFields DEF Indexed
  <2> QED BY <2>1, <2>3, <2>5, <2>6, <2>7 DEF Indexed, g
<1> QED BY <1>1, <1>2

LEMMA DropKeeps ==
  ASSUME NEW h, Indexed(h), NEW s \in Sessions
  PROVE  /\ Indexed(Drop(h, s)) /\ Drop(h, s).run = h.run /\ Drop(h, s).go = h.go
<1> DEFINE g == Drop(h, s)
           w == RemoveFirst(h.q, h.ids[s])
<1>0. /\ h.q \in Seq(Entry) /\ h.ids \in [Sessions -> Entry \cup {None}] /\ h \in Queues
      /\ h.run \subseteq Sessions /\ h.go \subseteq Entry
      /\ ToSet(h.q) \subseteq Entry
  BY QueueFields DEF Indexed
<1>1. w \in Seq(Entry) /\ ToSet(w) = ToSet(h.q) \ {h.ids[s]} /\ IsInjective(w)
  BY <1>0, FirstRemoved DEF Indexed
<1>2. g = [q |-> w, ids |-> [h.ids EXCEPT ![s] = None], run |-> h.run, go |-> h.go]
  <2> DEFINE free == [h.ids EXCEPT ![s] = None]
             cut == [h EXCEPT !.q = w]
  <2>1. free \in [Sessions -> Entry \cup {None}]
    BY <1>0
  <2>2. g = [cut EXCEPT !.ids = [@ EXCEPT ![s] = None]]
    BY Zenon DEF Drop
  <2> HIDE DEF free, w
  <2>3. cut = [q |-> w, ids |-> h.ids, run |-> h.run, go |-> h.go]
    BY <1>0, <1>1, Replaced, Zenon
  <2> HIDE DEF cut
  <2>4. cut \in Queues /\ cut.q = w /\ cut.ids = h.ids /\ cut.run = h.run /\ cut.go = h.go
    BY <1>0, <1>1, <2>3, Built
  <2>5. [cut EXCEPT !.ids = free] = [q |-> cut.q, ids |-> free, run |-> cut.run, go |-> cut.go]
    BY <2>1, <2>4, Replaced, Zenon
  <2> QED BY <2>2, <2>4, <2>5, Zenon DEF free
<1> HIDE DEF g, w
<1>3. \A t \in Sessions : g.ids[t] # None => g.ids[t].s = t /\ g.ids[t] \in ToSet(g.q)
  <2> SUFFICES ASSUME NEW t \in Sessions, g.ids[t] # None
               PROVE  g.ids[t].s = t /\ g.ids[t] \in ToSet(g.q)
    OBVIOUS
  <2>1. t # s /\ g.ids[t] = h.ids[t]
    BY <1>0, <1>2
  <2>2. h.ids[t].s = t /\ h.ids[t] \in ToSet(h.q) /\ (h.ids[s] # None => h.ids[s].s = s)
    BY <2>1 DEF Indexed
  <2>3. h.ids[t] # h.ids[s]
    BY <2>1, <2>2
  <2> QED BY <1>1, <1>2, <2>1, <2>2, <2>3
<1>4. \A e \in ToSet(g.q) : g.ids[e.s] = e
  <2> SUFFICES ASSUME NEW e \in ToSet(g.q) PROVE g.ids[e.s] = e
    OBVIOUS
  <2>1. e \in ToSet(h.q) /\ e # h.ids[s] /\ h.ids[e.s] = e /\ e.s \in Sessions
    BY <1>0, <1>1, <1>2, EntryFields DEF Indexed
  <2> QED BY <1>0, <1>2, <2>1
<1>5. g \in Queues
  <2>1. [h.ids EXCEPT ![s] = None] \in [Sessions -> Entry \cup {None}]
    BY <1>0
  <2> QED BY <1>0, <1>1, <1>2, <2>1 DEF Queues
<1> QED BY <1>1, <1>2, <1>3, <1>4, <1>5 DEF Indexed, g

\* One pass takes at most one more slot, for an entry that leaves the queue.
LEMMA PassKeeps ==
  ASSUME NEW h, Indexed(h), Slotted(h), NEW held
  PROVE  /\ Indexed(Pass(h, held)) /\ Slotted(Pass(h, held))
         /\ Pass(h, held).run = h.run \cup {e.s : e \in Pass(h, held).go \ h.go}
         /\ h.go \subseteq Pass(h, held).go
         /\ \A e \in Pass(h, held).go \ h.go : e.s \notin h.run
         /\ Starts(h, Pass(h, held), held)
<1> DEFINE g == Pass(h, held)
           e == Head(h.q)
           t == Tail(h.q)
<1>0. /\ h.q \in Seq(Entry) /\ h.ids \in [Sessions -> Entry \cup {None}] /\ h \in Queues
      /\ h.run \subseteq Sessions /\ h.go \subseteq Entry
      /\ ToSet(h.q) \subseteq Entry /\ IsInjective(h.q)
  BY QueueFields DEF Indexed
<1>1. CASE h.q = <<>> \/ Full(h)
  <2>1. g = h
    BY <1>1 DEF Pass
  <2>2. Starts(h, g, held)
    BY <2>1 DEF Starts
  <2> QED BY <2>1, <2>2
<1>2. CASE ~(h.q = <<>> \/ Full(h))
  <2>1. /\ e \in Entry /\ t \in Seq(Entry) /\ ToSet(h.q) = ToSet(t) \cup {e}
        /\ IsInjective(t) /\ e \notin ToSet(t)
    BY <1>0, <1>2, HeadAndTail
  <2>2. h.ids[e.s] = e /\ e.s \in Sessions /\ e # None /\ e.s \in Sessions
    BY <2>1, EntryFields DEF Indexed
  <2>3. \A d \in ToSet(t) : d \in Entry /\ h.ids[d.s] = d /\ d # None /\ d.s # e.s
    BY <1>0, <2>1, <2>2, EntryFields DEF Indexed
  <2>4. g = IF e.s \in h.run \cup held
            THEN [q |-> Append(t, e), ids |-> h.ids, run |-> h.run, go |-> h.go]
            ELSE [q |-> t, ids |-> [h.ids EXCEPT ![e.s] = None], run |-> h.run \cup {e.s}, go |-> h.go \cup {e}]
    <3> DEFINE popped == [h EXCEPT !.q = t]
               free == [h.ids EXCEPT ![e.s] = None]
               back == [popped EXCEPT !.q = Append(@, e)]
               off == [popped EXCEPT !.ids = [@ EXCEPT ![e.s] = None]]
               slot == [off EXCEPT !.run = @ \cup {e.s}]
               gone == [slot EXCEPT !.go = @ \cup {e}]
    <3>1. g = IF e.s \in h.run \cup held THEN back ELSE gone
      BY <1>2, <2>2, Zenon DEF Pass
    <3>2. /\ free \in [Sessions -> Entry \cup {None}] /\ Append(t, e) \in Seq(Entry)
          /\ h.run \cup {e.s} \in SUBSET Sessions /\ h.go \cup {e} \in SUBSET Entry
      BY <1>0, <2>1, <2>2
    <3>3. popped = [q |-> t, ids |-> h.ids, run |-> h.run, go |-> h.go]
      BY <1>0, <2>1, Replaced, Zenon
    <3> HIDE DEF popped
    <3>4. popped \in Queues /\ popped.q = t /\ popped.ids = h.ids /\ popped.run = h.run /\ popped.go = h.go
      BY <1>0, <2>1, <3>3, Built
    <3> HIDE DEF e, t, g, free
    <3>5. back = [q |-> Append(t, e), ids |-> h.ids, run |-> h.run, go |-> h.go]
      <4> DEFINE long == Append(t, e)
      <4>0. long \in Seq(Entry)
        BY <3>2
      <4> HIDE DEF long
      <4>1. [popped EXCEPT !.q = long] = [q |-> long, ids |-> popped.ids, run |-> popped.run, go |-> popped.go]
        BY <3>4, <4>0, Replaced, Zenon
      <4> QED BY <3>4, <4>1, Zenon DEF long
    <3>6. off = [q |-> t, ids |-> free, run |-> h.run, go |-> h.go]
      <4>1. [popped EXCEPT !.ids = free] = [q |-> popped.q, ids |-> free, run |-> popped.run, go |-> popped.go]
        BY <3>2, <3>4, Replaced, Zenon
      <4> QED BY <3>4, <4>1, Zenon DEF free
    <3> HIDE DEF off
    <3>7. off \in Queues /\ off.q = t /\ off.ids = free /\ off.run = h.run /\ off.go = h.go
      BY <1>0, <2>1, <3>2, <3>6, Built
    <3>8. slot = [q |-> t, ids |-> free, run |-> h.run \cup {e.s}, go |-> h.go]
      <4>1. [off EXCEPT !.run = h.run \cup {e.s}] = [q |-> off.q, ids |-> off.ids, run |-> h.run \cup {e.s}, go |-> off.go]
        BY <3>2, <3>7, Replaced, Zenon
      <4> QED BY <3>7, <4>1, Zenon
    <3> HIDE DEF slot
    <3>9. slot \in Queues /\ slot.q = t /\ slot.ids = free /\ slot.run = h.run \cup {e.s} /\ slot.go = h.go
      BY <1>0, <2>1, <3>2, <3>8, Built
    <3>10. gone = [q |-> t, ids |-> free, run |-> h.run \cup {e.s}, go |-> h.go \cup {e}]
      <4>1. [slot EXCEPT !.go = h.go \cup {e}] = [q |-> slot.q, ids |-> slot.ids, run |-> slot.run, go |-> h.go \cup {e}]
        BY <3>2, <3>9, Replaced, Zenon
      <4> QED BY <3>9, <4>1, Zenon
    <3> HIDE DEF back, gone
    <3> QED BY <3>1, <3>5, <3>10, Zenon DEF free
  <2> HIDE DEF g, e, t
  <2>5. CASE e.s \in h.run \cup held
    <3>1. g = [q |-> Append(t, e), ids |-> h.ids, run |-> h.run, go |-> h.go]
      BY <2>4, <2>5
    <3>2. g.q \in Seq(Entry) /\ ToSet(g.q) = ToSet(h.q) /\ IsInjective(g.q)
      BY <2>1, <3>1, Appended
    <3>3. g \in Queues
      BY <1>0, <3>1, <3>2 DEF Queues
    <3>4. Starts(h, g, held)
      BY <3>1 DEF Starts
    <3> QED BY <3>1, <3>2, <3>3, <3>4 DEF Indexed, Slotted, g
  <2>6. CASE e.s \notin h.run \cup held
    <3>1. g = [q |-> t, ids |-> [h.ids EXCEPT ![e.s] = None], run |-> h.run \cup {e.s}, go |-> h.go \cup {e}]
      BY <2>4, <2>6
    <3>2. [h.ids EXCEPT ![e.s] = None] \in [Sessions -> Entry \cup {None}]
      BY <1>0
    <3>3. g \in Queues
      BY <1>0, <2>1, <2>2, <3>1, <3>2 DEF Queues
    <3>4. \A s \in Sessions : g.ids[s] # None => g.ids[s].s = s /\ g.ids[s] \in ToSet(g.q)
      <4> SUFFICES ASSUME NEW s \in Sessions, g.ids[s] # None
                   PROVE  g.ids[s].s = s /\ g.ids[s] \in ToSet(g.q)
        OBVIOUS
      <4>1. s # e.s /\ g.ids[s] = h.ids[s]
        BY <1>0, <3>1
      <4>2. h.ids[s].s = s /\ h.ids[s] \in ToSet(h.q)
        BY <4>1 DEF Indexed
      <4> QED BY <2>1, <3>1, <4>1, <4>2
    <3>5. \A d \in ToSet(g.q) : g.ids[d.s] = d
      <4> SUFFICES ASSUME NEW d \in ToSet(g.q) PROVE g.ids[d.s] = d
        OBVIOUS
      <4>1. h.ids[d.s] = d /\ d.s # e.s /\ d.s \in Sessions
        BY <2>3, <3>1, EntryFields
      <4> QED BY <1>0, <3>1, <4>1
    <3>6. Indexed(g)
      BY <2>1, <3>1, <3>3, <3>4, <3>5 DEF Indexed
    <3>7. IsFiniteSet(g.run) /\ Cardinality(g.run) <= MaxRunning
      <4>1. IsFiniteSet(h.run) /\ Cardinality(h.run) \in Nat /\ ~(Cardinality(h.run) >= MaxRunning)
        BY <1>2, FS_CardinalityType DEF Slotted, Full
      <4>2. IsFiniteSet(h.run \cup {e.s}) /\ Cardinality(h.run \cup {e.s}) = Cardinality(h.run) + 1
        BY <2>6, <4>1, FS_AddElement
      <4> QED BY <3>1, <4>1, <4>2, HeadlessAssumption
    <3>8. (\A d \in g.go : d.s \in g.run) /\ (\A c, d \in g.go : c.s = d.s => c = d)
      BY <2>6, <3>1 DEF Slotted
    <3>9. /\ g.run = h.run \cup {d.s : d \in g.go \ h.go} /\ h.go \subseteq g.go
          /\ \A d \in g.go \ h.go : d.s \notin h.run
      <4>1. e \notin h.go
        BY <2>6 DEF Slotted
      <4>2. g.go \ h.go = {e}
        BY <3>1, <4>1
      <4> QED BY <2>6, <3>1, <4>2
    <3>10. Starts(h, g, held)
      <4>1. g.go \ h.go = {e}
        BY <2>6, <3>1 DEF Slotted
      <4>2. \A x \in Sessions : g.ids[x] = IF x = e.s THEN None ELSE h.ids[x]
        BY <1>0, <3>1
      <4> QED BY <2>2, <2>6, <4>1, <4>2 DEF Starts
    <3> QED BY <3>6, <3>7, <3>8, <3>9, <3>10 DEF Slotted, g
  <2> QED BY <2>5, <2>6
<1> QED BY <1>1, <1>2

\* The passes of Pump, counted by f.
Passes(f, h, held, n) == f = [i \in 0 .. n |-> IF i = 0 THEN h ELSE Pass(f[i - 1], held)]

LEMMA PassesExist ==
  ASSUME NEW h, NEW held, NEW n \in Nat PROVE \E f : Passes(f, h, held, n)
<1> DEFINE T == {m \in Nat : ~\E f : Passes(f, h, held, m)}
<1>1. SUFFICES ASSUME T # {} PROVE FALSE
  OBVIOUS
<1>2. PICK m \in T : \A k \in T : m <= k
  BY <1>1, LeastNumber
<1>3. CASE m = 0
  <2> DEFINE z == [i \in 0 .. 0 |-> h]
  <2>1. Passes(z, h, held, 0)
    BY DEF Passes
  <2> QED BY <1>2, <1>3, <2>1
<1>4. CASE m # 0
  <2>1. m - 1 \in Nat /\ m - 1 \notin T
    BY <1>2, <1>4
  <2>2. PICK f : Passes(f, h, held, m - 1)
    BY <2>1
  <2> DEFINE g == [i \in 0 .. m |-> IF i < m THEN f[i] ELSE Pass(f[m - 1], held)]
  <2>3. \A i \in 0 .. m : g[i] = IF i = 0 THEN h ELSE Pass(g[i - 1], held)
    <3> TAKE i \in 0 .. m
    <3>1. CASE i = m
      BY <1>4, <2>1, <3>1
    <3>2. CASE i < m
      <4>1. i \in 0 .. m - 1 /\ (i # 0 => i - 1 \in 0 .. m - 1)
        BY <1>2, <3>2
      <4>2. f[i] = IF i = 0 THEN h ELSE Pass(f[i - 1], held)
        BY <2>2, <4>1 DEF Passes
      <4>3. g[i] = f[i] /\ (i # 0 => g[i - 1] = f[i - 1])
        BY <3>2, <4>1
      <4> QED BY <4>2, <4>3
    <3> QED BY <2>1, <3>1, <3>2
  <2>4. Passes(g, h, held, m)
    <3> DEFINE k == [i \in 0 .. m |-> IF i = 0 THEN h ELSE Pass(g[i - 1], held)]
    <3>1. \A i \in 0 .. m : g[i] = k[i]
      BY <2>3
    <3>2. g = k
      BY <3>1
    <3> QED BY <3>2 DEF Passes
  <2> QED BY <1>2, <2>4
<1> QED BY <1>3, <1>4

\* Pump leaves the queue and its index in step, and starts what takes a free slot.
LEMMA PumpKeeps ==
  ASSUME NEW h, Indexed(h), Slotted(h), h.go = {}, NEW held
  PROVE  /\ Indexed(Pump(h, held)) /\ Slotted(Pump(h, held))
         /\ Pump(h, held).run = h.run \cup {e.s : e \in Pump(h, held).go}
         /\ \A e \in Pump(h, held).go : e.s \notin h.run
         /\ Starts(h, Pump(h, held), held)
<1> DEFINE after == CHOOSE f : Passes(f, h, held, Len(h.q))
           Right(g) == /\ Indexed(g) /\ Slotted(g)
                       /\ g.run = h.run \cup {e.s : e \in g.go}
                       /\ \A e \in g.go : e.s \notin h.run
                       /\ Starts(h, g, held)
           Bad == {n \in 0 .. Len(h.q) : ~Right(after[n])}
<1>0. Len(h.q) \in Nat
  BY QueueFields, SetOf DEF Indexed
<1>1. Passes(after, h, held, Len(h.q))
  BY <1>0, PassesExist
<1>2. Pump(h, held) = after[Len(h.q)]
  BY Zenon DEF Pump, Passes
<1>3. \A i \in 0 .. Len(h.q) : after[i] = IF i = 0 THEN h ELSE Pass(after[i - 1], held)
  BY <1>1 DEF Passes
<1> HIDE DEF after
<1>4. Right(after[0])
  <2>1. after[0] = h
    BY <1>0, <1>3
  <2> QED BY <2>1 DEF Starts
<1>5. ASSUME NEW g, Right(g) PROVE Right(Pass(g, held))
  <2> DEFINE k == Pass(g, held)
  <2>1. /\ Indexed(k) /\ Slotted(k) /\ g.go \subseteq k.go
        /\ k.run = g.run \cup {e.s : e \in k.go \ g.go}
        /\ \A e \in k.go \ g.go : e.s \notin g.run
        /\ Starts(g, k, held)
    BY <1>5, PassKeeps
  <2> HIDE DEF k
  <2>2. Starts(h, k, held)
    BY <1>5, <2>1 DEF Starts
  <2> QED BY <1>5, <2>1, <2>2 DEF k
<1> HIDE DEF Right
<1>6. Bad = {}
  <2>1. SUFFICES ASSUME Bad # {} PROVE FALSE
    OBVIOUS
  <2>2. Bad \subseteq Nat
    OBVIOUS
  <2>3. PICK n \in Bad : \A m \in Bad : n <= m
    BY <2>1, <2>2, LeastNumber
  <2>4. n # 0 /\ n \in 0 .. Len(h.q) /\ ~Right(after[n])
    BY <1>4, <2>3
  <2>5. n - 1 \in 0 .. Len(h.q) /\ n - 1 \notin Bad
    BY <1>0, <2>3, <2>4
  <2> QED BY <1>3, <1>5, <2>4, <2>5
<1>7. Right(after[Len(h.q)])
  BY <1>0, <1>6
<1> QED BY <1>2, <1>7 DEF Right

-----------------------------------------------------------------------------
(* The inductive invariant.                                                  *)

Pcs == {"none", "init", "loading", "compact", "compacting", "recheck", "begin", "unfail", "wait",
        "flush", "mark", "marked", "clear", "failing"}
Kinds == {"turn", "follow_up", "steer"}
LaunchRec == [pc : Pcs, p : PromptOrNone, kind : Kinds, handed : BOOLEAN]
StartRec == [pc : {"init"}, p : Prompts, kind : Kinds, handed : BOOLEAN]
AgentRec == [up : BOOLEAN, mem : Seq(Prompts), flight : PromptOrNone]
DiskRec == [turn : PromptOrNone, queue : Seq(Prompts), done : PromptOrNone, failed : BOOLEAN]
OpRec == [st : {"none", "accepted", "active", "cancelling", "completed", "failed", "rejected"},
          p : PromptOrNone]
EvKinds == {"start", "interrupt", "finish", "error", "queued", "opdone"}
EvRec == [ev : EvKinds, s : Sessions]
ReqPcs == {"new", "wrote", "done", "refused", "cut", "waiting", "handoff", "handed", "submitted",
           "followed", "writing", "steering", "steerwrote", "steerfailed", "steerint", "steerwait",
           "killwrite", "killwrote", "killint"}

\* A session's launch, its agent and what its agent is about to load: a launch
\* has a prompt, and the head in flight is the one of a follow-up's launch that has
\* begun it and has neither given it back nor acknowledged it.
Fits(l, a, q) ==
  /\ l \in LaunchRec /\ a \in AgentRec /\ q \in Seq(Prompts) \cup {None}
  /\ l.pc # "none" => l.p \in Prompts
  /\ l.pc = "loading" => q \in Seq(Prompts)
  /\ l.pc \in {"compact", "compacting", "recheck", "begin"} => l.kind = "follow_up"
  /\ a.flight # None => /\ l.kind = "follow_up" /\ l.p = a.flight
                        /\ l.pc \in {"unfail", "wait", "flush", "mark", "marked"}

LaunchesFit ==
  /\ launch \in [Sessions -> LaunchRec] /\ agent \in [Sessions -> AgentRec]
  /\ loading \in [Sessions -> Seq(Prompts) \cup {None}]
  /\ \A s \in Sessions : Fits(launch[s], agent[s], loading[s])

\* A queue in step with its index, whose slots are those of the launches l.
Settled(h, l) ==
  /\ Indexed(h) /\ Slotted(h) /\ h.go = {}
  /\ h.run = {s \in Sessions : l[s] # NoLaunch}

SlotInv == Settled(Now, launch)

DiskInv == disk \in [Sessions -> DiskRec]
TurnInv == op \in [Sessions -> OpRec] /\ events \in Seq(EvRec) /\ consumer \in Sessions \cup {None}
ReqInv ==
  /\ req \in [Prompts \cup Kills -> ReqPcs] /\ victim \in [Kills -> PromptOrNone]
  /\ \A k \in Kills : req[k] = "killwrite" => victim[k] \in Prompts
  /\ lock \in [Sessions -> {None, "launch"} \cup Prompts \cup Kills]
SetInv ==
  /\ steering \cup stopped \cup failed \cup interrupted \cup foreign \subseteq Sessions
  /\ accepted \cup settled \cup withdrawn \cup replaced \cup marked \subseteq Prompts

HInv == LaunchesFit /\ SlotInv /\ DiskInv /\ TurnInv /\ ReqInv /\ SetInv

-----------------------------------------------------------------------------
(* What Schedules leaves.                                                    *)

LEMMA SettledPump ==
  ASSUME NEW h, NEW l, Settled(h, l), NEW held
  PROVE  /\ Indexed(Pump(h, held)) /\ Slotted(Pump(h, held))
         /\ Pump(h, held).run = {s \in Sessions : l[s] # NoLaunch} \cup {e.s : e \in Pump(h, held).go}
         /\ \A e \in Pump(h, held).go : e.s \in Sessions => l[e.s] = NoLaunch
<1>1. Indexed(h) /\ Slotted(h) /\ h.go = {} /\ h.run = {s \in Sessions : l[s] # NoLaunch}
  BY DEF Settled
<1>2. /\ Indexed(Pump(h, held)) /\ Slotted(Pump(h, held))
      /\ Pump(h, held).run = h.run \cup {e.s : e \in Pump(h, held).go}
      /\ \A e \in Pump(h, held).go : e.s \notin h.run
  BY <1>1, PumpKeeps
<1> QED BY <1>1, <1>2

LEMMA SettledEnqueue ==
  ASSUME NEW h, NEW l, Settled(h, l), NEW e \in Entry
  PROVE  Settled(Enqueue(h, e), l)
BY EnqueueKeeps DEF Settled, Slotted

LEMMA SettledDrop ==
  ASSUME NEW h, NEW l, Settled(h, l), NEW s \in Sessions
  PROVE  Settled(Drop(h, s), l)
BY DropKeeps DEF Settled, Slotted

LEMMA NoLaunchTyped == NoLaunch \in LaunchRec /\ NoLaunch.pc = "none"
BY DEF NoLaunch, LaunchRec, Pcs, Kinds, PromptOrNone

LEMMA StartsTyped ==
  ASSUME NEW x \in StartRec
  PROVE  x \in LaunchRec /\ x # NoLaunch /\ x.pc = "init" /\ x.p \in Prompts
BY DEF StartRec, LaunchRec, Pcs, PromptOrNone, NoLaunch

\* Each session's launch is the one of l, or a new one of a session without any.
LEMMA Scheduled ==
  ASSUME NEW h, NEW l, l \in [Sessions -> LaunchRec],
         Indexed(h), Slotted(h),
         h.run = {s \in Sessions : l[s] # NoLaunch} \cup {e.s : e \in h.go},
         \A e \in h.go : e.s \in Sessions => l[e.s] = NoLaunch,
         Schedules(h, l)
  PROVE  /\ launch' \in [Sessions -> LaunchRec] /\ SlotInv'
         /\ \A t \in Sessions : launch'[t] = l[t] \/ (l[t] = NoLaunch /\ launch'[t] \in StartRec)
<1> DEFINE of(s) == CHOOSE e \in h.go : e.s = s
           new(s) == [pc |-> "init", p |-> of(s).p, kind |-> of(s).kind, handed |-> FALSE]
<1>1. h \in Queues /\ h.go \subseteq Entry /\ h.q \in Seq(Entry) /\ h.ids \in [Sessions -> Entry \cup {None}]
      /\ h.run \subseteq Sessions
  BY QueueFields DEF Indexed
<1>2. launch' = [s \in Sessions |-> IF \E e \in h.go : e.s = s THEN new(s) ELSE l[s]]
  BY Zenon DEF Schedules
<1>3. ASSUME NEW s \in Sessions, \E e \in h.go : e.s = s PROVE new(s) \in StartRec
  <2>1. of(s) \in h.go
    BY <1>3
  <2>2. of(s) \in Entry
    BY <1>1, <2>1
  <2> HIDE DEF of
  <2> QED BY <2>2 DEF StartRec, Entry, Kinds
<1>4. \A s \in Sessions : \/ launch'[s] = l[s] /\ ~\E e \in h.go : e.s = s
                          \/ l[s] = NoLaunch /\ launch'[s] \in StartRec /\ \E e \in h.go : e.s = s
  <2> SUFFICES ASSUME NEW s \in Sessions
               PROVE  \/ launch'[s] = l[s] /\ ~\E e \in h.go : e.s = s
                      \/ l[s] = NoLaunch /\ launch'[s] \in StartRec /\ \E e \in h.go : e.s = s
    OBVIOUS
  <2> HIDE DEF new
  <2>1. launch'[s] = IF \E e \in h.go : e.s = s THEN new(s) ELSE l[s]
    BY <1>2
  <2>2. CASE \E e \in h.go : e.s = s
    <3>1. l[s] = NoLaunch
      BY <2>2
    <3>2. new(s) \in StartRec
      BY <1>3, <2>2
    <3> QED BY <2>1, <2>2, <3>1, <3>2
  <2>3. CASE ~\E e \in h.go : e.s = s
    BY <2>1, <2>3
  <2> QED BY <2>2, <2>3
<1>5. launch' \in [Sessions -> LaunchRec]
  <2>1. \A s \in Sessions : launch'[s] \in LaunchRec
    BY <1>4, StartsTyped
  <2>2. DOMAIN launch' = Sessions /\ launch' = [s \in DOMAIN launch' |-> launch'[s]]
    BY <1>2
  <2> QED BY <2>1, <2>2
<1>6. queue' = h.q /\ byId' = h.ids /\ running' = h.run
  BY DEF Schedules
<1>7. running' = {s \in Sessions : launch'[s] # NoLaunch}
  <2>1. \A s \in Sessions : launch'[s] # NoLaunch <=> (l[s] # NoLaunch \/ \E e \in h.go : e.s = s)
    BY <1>4, StartsTyped
  <2> QED BY <1>1, <1>6, <2>1
<1>8. SlotInv'
  <2> DEFINE n == [q |-> queue', ids |-> byId', run |-> running', go |-> {}]
  <2>1. n \in Queues
    BY <1>1, <1>6 DEF Queues
  <2>2. n.q = h.q /\ n.ids = h.ids /\ n.run = h.run /\ n.go = {}
    BY <1>6
  <2>3. Now' = n
    BY DEF Now
  <2> HIDE DEF n
  <2>4. Indexed(n) /\ Slotted(n)
    BY <2>1, <2>2 DEF Indexed, Slotted
  <2> QED BY <1>6, <1>7, <2>2, <2>3, <2>4 DEF SlotInv, Settled
<1> QED BY <1>4, <1>5, <1>8

LEMMA PumpScheduled ==
  ASSUME NEW h, NEW l, l \in [Sessions -> LaunchRec], Settled(h, l), NEW held,
         Schedules(Pump(h, held), l)
  PROVE  /\ launch' \in [Sessions -> LaunchRec] /\ SlotInv'
         /\ \A t \in Sessions : launch'[t] = l[t] \/ (l[t] = NoLaunch /\ launch'[t] \in StartRec)
<1> DEFINE g == Pump(h, held)
<1>1. /\ Indexed(g) /\ Slotted(g) /\ g.run = {s \in Sessions : l[s] # NoLaunch} \cup {e.s : e \in g.go}
      /\ \A e \in g.go : e.s \in Sessions => l[e.s] = NoLaunch
  BY SettledPump
<1>2. Schedules(g, l)
  OBVIOUS
<1> HIDE DEF g
<1> QED BY <1>1, <1>2, Scheduled

LEMMA SettledScheduled ==
  ASSUME NEW h, NEW l, l \in [Sessions -> LaunchRec], Settled(h, l), Schedules(h, l)
  PROVE  /\ launch' \in [Sessions -> LaunchRec] /\ SlotInv'
         /\ \A t \in Sessions : launch'[t] = l[t] \/ (l[t] = NoLaunch /\ launch'[t] \in StartRec)
BY Scheduled DEF Settled

\* A launch that takes one more step keeps its slot.
LEMMA LaunchMoves ==
  ASSUME launch \in [Sessions -> LaunchRec], SlotInv, NEW s \in Sessions, launch[s].pc # "none",
         launch' \in [Sessions -> LaunchRec], launch'[s].pc # "none",
         \A t \in Sessions \ {s} : launch'[t] = launch[t], UNCHANGED runVars
  PROVE  SlotInv'
<1>1. launch[s] # NoLaunch /\ launch'[s] # NoLaunch
  BY NoLaunchTyped
<1>2. {t \in Sessions : launch'[t] # NoLaunch} = {t \in Sessions : launch[t] # NoLaunch}
  BY <1>1
<1>3. Now' = Now
  BY DEF Now, runVars
<1>4. Settled(Now, launch) /\ \A t \in Sessions : TRUE
  BY DEF SlotInv
<1> QED BY <1>2, <1>3, <1>4 DEF SlotInv, Settled

-----------------------------------------------------------------------------
(* The queue of an agent, and the ways the launches change in one step.      *)

LEMMA NoneApart == None \notin Prompts /\ None \notin Sessions /\ None \notin Entry
BY HeadlessAssumption

LEMMA PeekIs ==
  ASSUME NEW a \in AgentRec
  PROVE  /\ Peek(a) \in PromptOrNone
         /\ Peek(a) # None => a.mem # <<>> /\ Peek(a) = Head(a.mem) /\ Peek(a) \in Prompts /\ Tail(a.mem) \in Seq(Prompts)
<1>1. a.mem \in Seq(Prompts)
  BY DEF AgentRec
<1>2. CASE a.mem = <<>>
  BY <1>2 DEF Peek, PromptOrNone
<1>3. CASE a.mem # <<>>
  <2>1. Head(a.mem) \in Prompts /\ Tail(a.mem) \in Seq(Prompts)
    BY <1>1, <1>3
  <2> QED BY <1>3, <2>1 DEF Peek, PromptOrNone
<1> QED BY <1>2, <1>3

LEMMA DurableIs ==
  ASSUME NEW a \in AgentRec PROVE Durable(a) \in Seq(Prompts)
<1>1. a.mem \in Seq(Prompts) /\ a.flight \in PromptOrNone
  BY DEF AgentRec
<1>2. CASE a.flight = None
  BY <1>1, <1>2 DEF Durable
<1>3. CASE a.flight # None
  <2>1. a.flight \in Prompts
    BY <1>1, <1>3 DEF PromptOrNone
  <2>2. <<a.flight>> \o a.mem \in Seq(Prompts)
    BY <1>1, <2>1
  <2> QED BY <1>3, <2>2 DEF Durable
<1> QED BY <1>2, <1>3

LEMMA SavesKeeps ==
  ASSUME DiskInv, agent \in [Sessions -> AgentRec], NEW s \in Sessions, NEW a \in AgentRec, Saves(s, a)
  PROVE  /\ DiskInv' /\ agent' \in [Sessions -> AgentRec] /\ agent'[s] = a
         /\ \A t \in Sessions \ {s} : agent'[t] = agent[t]
<1>1. Durable(a) \in Seq(Prompts)
  BY DurableIs
<1>2. DiskInv'
  BY <1>1 DEF DiskInv, DiskRec, Saves
<1> QED BY <1>2 DEF Saves

LEMMA FollowUpTyped ==
  ASSUME NEW a \in AgentRec, NEW s \in Sessions, Peek(a) # None
  PROVE  FollowUpEntry(s, a) \in Entry
BY PeekIs DEF FollowUpEntry, Entry

LEMMA DrainScheduled ==
  ASSUME NEW h, NEW l, l \in [Sessions -> LaunchRec], Settled(h, l), NEW held, NEW stop, NEW fail,
         NEW s \in Sessions, NEW a \in AgentRec,
         Schedules(Drained(h, s, stop, fail, a, held), l)
  PROVE  /\ launch' \in [Sessions -> LaunchRec] /\ SlotInv'
         /\ \A t \in Sessions : launch'[t] = l[t] \/ (l[t] = NoLaunch /\ launch'[t] \in StartRec)
<1>1. CASE s \in stop \cup fail \/ ~a.up \/ Peek(a) = None
  <2>1. Schedules(h, l)
    BY <1>1 DEF Drained
  <2> QED BY <2>1, SettledScheduled
<1>2. CASE ~(s \in stop \cup fail \/ ~a.up \/ Peek(a) = None)
  <2> DEFINE e == FollowUpEntry(s, a)
  <2>1. Schedules(Pump(Enqueue(h, e), held), l)
    BY <1>2 DEF Drained
  <2>2. e \in Entry
    BY <1>2, FollowUpTyped
  <2> HIDE DEF e
  <2>3. Settled(Enqueue(h, e), l)
    BY <2>2, SettledEnqueue
  <2> QED BY <2>1, <2>3, PumpScheduled
<1> QED BY <1>1, <1>2

LEMMA IdleFits ==
  ASSUME NEW l, l = NoLaunch \/ l \in StartRec, NEW a \in AgentRec, a.flight = None,
         NEW q \in Seq(Prompts) \cup {None}
  PROVE  Fits(l, a, q)
<1>1. l \in LaunchRec /\ (l.pc = "none" \/ (l.pc = "init" /\ l.p \in Prompts))
  BY NoLaunchTyped, StartsTyped
<1> QED BY <1>1 DEF Fits

\* Session s changes by itself; the others at most start a launch.
LEMMA OneChanges ==
  ASSUME LaunchesFit, NEW s \in Sessions,
         launch' \in [Sessions -> LaunchRec], agent' \in [Sessions -> AgentRec],
         loading' \in [Sessions -> Seq(Prompts) \cup {None}],
         \A t \in Sessions \ {s} : /\ launch'[t] = launch[t] \/ (launch[t] = NoLaunch /\ launch'[t] \in StartRec)
                                   /\ agent'[t] = agent[t] /\ loading'[t] = loading[t],
         Fits(launch'[s], agent'[s], loading'[s])
  PROVE  LaunchesFit'
<1>1. ASSUME NEW t \in Sessions \ {s} PROVE Fits(launch'[t], agent'[t], loading'[t])
  <2>1. Fits(launch[t], agent[t], loading[t])
    BY DEF LaunchesFit
  <2>2. CASE launch'[t] = launch[t]
    BY <2>1, <2>2
  <2>3. CASE launch[t] = NoLaunch /\ launch'[t] \in StartRec
    <3>1. agent[t] \in AgentRec /\ agent[t].flight = None /\ loading[t] \in Seq(Prompts) \cup {None}
      BY <2>1, <2>3, NoLaunchTyped DEF Fits
    <3>2. Fits(launch'[t], agent[t], loading[t])
      BY <2>3, <3>1, IdleFits
    <3> QED BY <3>2
  <2> QED BY <2>2, <2>3
<1>2. \A t \in Sessions : Fits(launch'[t], agent'[t], loading'[t])
  BY <1>1
<1> QED BY <1>2 DEF LaunchesFit

\* Sessions at most start a launch.
LEMMA SomeStart ==
  ASSUME LaunchesFit, launch' \in [Sessions -> LaunchRec],
         \A t \in Sessions : launch'[t] = launch[t] \/ (launch[t] = NoLaunch /\ launch'[t] \in StartRec),
         UNCHANGED <<agent, loading>>
  PROVE  LaunchesFit'
<1>1. ASSUME NEW t \in Sessions PROVE Fits(launch'[t], agent[t], loading[t])
  <2>1. Fits(launch[t], agent[t], loading[t])
    BY DEF LaunchesFit
  <2>2. CASE launch'[t] = launch[t]
    BY <2>1, <2>2
  <2>3. CASE launch[t] = NoLaunch /\ launch'[t] \in StartRec
    <3>1. agent[t] \in AgentRec /\ agent[t].flight = None /\ loading[t] \in Seq(Prompts) \cup {None}
      BY <2>1, <2>3, NoLaunchTyped DEF Fits
    <3> QED BY <2>3, <3>1, IdleFits
  <2> QED BY <2>2, <2>3
<1>2. agent' = agent /\ loading' = loading
  OBVIOUS
<1>3. \A t \in Sessions : Fits(launch'[t], agent'[t], loading'[t])
  BY <1>1, <1>2
<1> QED BY <1>2, <1>3 DEF LaunchesFit

LEMMA NothingStarts ==
  ASSUME LaunchesFit, SlotInv, UNCHANGED <<launch, agent, loading, runVars>>
  PROVE  LaunchesFit' /\ SlotInv'
<1>1. Now' = Now
  BY DEF Now, runVars
<1>2. SlotInv'
  BY <1>1 DEF SlotInv, Settled
<1>3. LaunchesFit'
  BY DEF LaunchesFit
<1> QED BY <1>2, <1>3

\* A launch goes on, its session's agent and loading stay.
LEMMA OneGoes ==
  ASSUME LaunchesFit, SlotInv, NEW s \in Sessions, launch[s].pc # "none",
         NEW pc \in Pcs \ {"none", "loading"}, Goes(s, pc),
         pc \in {"compact", "compacting", "recheck", "begin"} => launch[s].kind = "follow_up",
         agent[s].flight # None => pc \in {"unfail", "wait", "flush", "mark", "marked"},
         UNCHANGED <<agent, loading, runVars>>
  PROVE  LaunchesFit' /\ SlotInv'
<1>0. /\ launch \in [Sessions -> LaunchRec] /\ agent \in [Sessions -> AgentRec]
      /\ loading \in [Sessions -> Seq(Prompts) \cup {None}]
      /\ Fits(launch[s], agent[s], loading[s])
  BY DEF LaunchesFit
<1>1. /\ launch' \in [Sessions -> LaunchRec] /\ launch'[s].pc = pc /\ launch'[s].p = launch[s].p
      /\ launch'[s].kind = launch[s].kind /\ \A t \in Sessions \ {s} : launch'[t] = launch[t]
  BY <1>0 DEF Goes, LaunchRec
<1>2. launch'[s] \in LaunchRec
  BY <1>1
<1>3. Fits(launch'[s], agent[s], loading[s])
  BY <1>0, <1>1, <1>2 DEF Fits
<1>4. agent' = agent /\ loading' = loading
  OBVIOUS
<1>5. LaunchesFit'
  BY <1>0, <1>1, <1>3, <1>4, OneChanges
<1>6. SlotInv'
  BY <1>0, <1>1, LaunchMoves
<1> QED BY <1>5, <1>6

LEMMA FreedSettled ==
  ASSUME launch \in [Sessions -> LaunchRec], SlotInv, NEW s \in Sessions
  PROVE  Settled([Now EXCEPT !.run = @ \ {s}], [launch EXCEPT ![s] = NoLaunch])
<1> DEFINE less == running \ {s}
           h == [q |-> queue, ids |-> byId, run |-> less, go |-> {}]
           l == [launch EXCEPT ![s] = NoLaunch]
<1>1. /\ Indexed(Now) /\ Slotted(Now) /\ Now \in Queues
      /\ Now = [q |-> queue, ids |-> byId, run |-> running, go |-> {}]
      /\ Now.run = {t \in Sessions : launch[t] # NoLaunch}
  BY DEF SlotInv, Settled, Indexed, Now
<1>2. /\ queue \in Seq(Entry) /\ byId \in [Sessions -> Entry \cup {None}] /\ running \subseteq Sessions
      /\ IsFiniteSet(running) /\ Cardinality(running) <= MaxRunning
  <2>1. Now.q = queue /\ Now.ids = byId /\ Now.run = running
    BY <1>1
  <2>2. Now.q \in Seq(Entry) /\ Now.ids \in [Sessions -> Entry \cup {None}] /\ Now.run \subseteq Sessions
    BY <1>1, QueueFields
  <2> QED BY <1>1, <2>1, <2>2 DEF Slotted
<1>3. less \in SUBSET Sessions /\ Now.run = running /\ less = running \ {s}
  BY <1>1, <1>2
<1> HIDE DEF less
<1>4. [Now EXCEPT !.run = @ \ {s}] = h
  <2>1. [Now EXCEPT !.run = less] = [q |-> Now.q, ids |-> Now.ids, run |-> less, go |-> Now.go]
    BY <1>1, <1>3, Replaced, Zenon
  <2>2. Now.q = queue /\ Now.ids = byId /\ Now.run = running /\ Now.go = {}
    BY <1>1
  <2>3. [q |-> Now.q, ids |-> Now.ids, run |-> less, go |-> Now.go] = h
    BY <2>2
  <2> QED BY <1>3, <2>1, <2>2, <2>3, Zenon
<1>5. h \in Queues /\ h.q = queue /\ h.ids = byId /\ h.run = less /\ h.go = {}
  BY <1>2, <1>3 DEF Queues
<1> HIDE DEF h
<1>6. Indexed(h)
  <2>1. Now.q = queue /\ Now.ids = byId
    BY <1>1
  <2> QED BY <1>1, <1>5, <2>1 DEF Indexed
<1>7. Slotted(h)
  <2>1. IsFiniteSet(less) /\ Cardinality(less) <= Cardinality(running)
    BY <1>2, <1>3, FS_Subset, FS_CardinalityType
  <2>2. Cardinality(less) \in Nat /\ Cardinality(running) \in Nat /\ MaxRunning \in Nat
    BY <1>2, <2>1, FS_CardinalityType, HeadlessAssumption
  <2>3. Cardinality(less) <= MaxRunning
    BY <1>2, <2>1, <2>2
  <2> QED BY <1>5, <2>1, <2>3 DEF Slotted
<1>8. h.run = {t \in Sessions : l[t] # NoLaunch}
  BY <1>1, <1>3, <1>5
<1> QED BY <1>4, <1>5, <1>6, <1>7, <1>8 DEF Settled

\* A launch ends: its slot is free, or it starts again with its next follow-up.
LEMMA EndsKeeps ==
  ASSUME LaunchesFit, SlotInv, NEW s \in Sessions, NEW a \in AgentRec, Ends(s, a),
         agent' \in [Sessions -> AgentRec], loading' \in [Sessions -> Seq(Prompts) \cup {None}],
         agent'[s].flight = None,
         \A t \in Sessions \ {s} : agent'[t] = agent[t] /\ loading'[t] = loading[t]
  PROVE  LaunchesFit' /\ SlotInv'
<1> DEFINE freed == [Now EXCEPT !.run = @ \ {s}]
           l == [launch EXCEPT ![s] = NoLaunch]
           h == IF s \in stopped \cup failed \/ ~a.up \/ Peek(a) = None THEN freed
                ELSE Enqueue(freed, FollowUpEntry(s, a))
<1>0. launch \in [Sessions -> LaunchRec]
  BY DEF LaunchesFit
<1>1. Settled(freed, l)
  BY <1>0, FreedSettled
<1>2. l \in [Sessions -> LaunchRec] /\ l[s] = NoLaunch /\ \A t \in Sessions \ {s} : l[t] = launch[t]
  BY <1>0, NoLaunchTyped
<1>3. Schedules(Pump(h, Held), l)
  BY Zenon DEF Ends
<1> HIDE DEF freed, l
<1>4. Settled(h, l)
  <2>1. CASE s \in stopped \cup failed \/ ~a.up \/ Peek(a) = None
    BY <1>1, <2>1
  <2>2. CASE ~(s \in stopped \cup failed \/ ~a.up \/ Peek(a) = None)
    <3>1. FollowUpEntry(s, a) \in Entry
      BY <2>2, FollowUpTyped
    <3>2. Settled(Enqueue(freed, FollowUpEntry(s, a)), l)
      BY <1>1, <3>1, SettledEnqueue
    <3> QED BY <2>2, <3>2
  <2> QED BY <2>1, <2>2
<1> HIDE DEF h
<1>5. /\ launch' \in [Sessions -> LaunchRec] /\ SlotInv'
      /\ \A t \in Sessions : launch'[t] = l[t] \/ (l[t] = NoLaunch /\ launch'[t] \in StartRec)
  BY <1>2, <1>3, <1>4, PumpScheduled
<1>6. Fits(launch'[s], agent'[s], loading'[s])
  <2>1. launch'[s] = NoLaunch \/ launch'[s] \in StartRec
    BY <1>2, <1>5
  <2>2. agent'[s] \in AgentRec /\ loading'[s] \in Seq(Prompts) \cup {None}
    OBVIOUS
  <2> QED BY <2>1, <2>2, IdleFits
<1>7. \A t \in Sessions \ {s} : launch'[t] = launch[t] \/ (launch[t] = NoLaunch /\ launch'[t] \in StartRec)
  BY <1>2, <1>5
<1>8. LaunchesFit'
  BY <1>5, <1>6, <1>7, OneChanges
<1> QED BY <1>5, <1>8

-----------------------------------------------------------------------------
(* Requests, locks, and what is said of them.                                *)

LEMMA RequestMoves ==
  ASSUME ReqInv, NEW r \in Prompts \cup Kills, NEW pc \in ReqPcs, pc # "killwrite", Moves(r, pc),
         victim' = victim, lock' \in [Sessions -> {None, "launch"} \cup Prompts \cup Kills]
  PROVE  ReqInv'
<1>1. /\ req' \in [Prompts \cup Kills -> ReqPcs] /\ req'[r] = pc
      /\ \A x \in Prompts \cup Kills : x # r => req'[x] = req[x]
  BY DEF ReqInv, Moves
<1>2. \A k \in Kills : req'[k] = "killwrite" => victim'[k] \in Prompts
  BY <1>1 DEF ReqInv
<1> QED BY <1>1, <1>2 DEF ReqInv

LEMMA LocksTyped ==
  ASSUME lock \in [Sessions -> {None, "launch"} \cup Prompts \cup Kills], NEW s \in Sessions,
         NEW x \in {None, "launch"} \cup Prompts \cup Kills
  PROVE  [lock EXCEPT ![s] = x] \in [Sessions -> {None, "launch"} \cup Prompts \cup Kills]
OBVIOUS

LEMMA LockIs == ReqInv => lock \in [Sessions -> {None, "launch"} \cup Prompts \cup Kills]
BY DEF ReqInv

LEMMA RequestStays ==
  ASSUME ReqInv, UNCHANGED <<req, victim>>,
         lock' \in [Sessions -> {None, "launch"} \cup Prompts \cup Kills]
  PROVE  ReqInv'
BY DEF ReqInv

LEMMA DestIs == /\ \A p \in Prompts : Dest[p] \in Sessions /\ p \notin Kills
                /\ \A k \in Kills : Target[k] \in Sessions
                /\ \A r \in Prompts \cup Kills : To(r) \in Sessions
BY HeadlessAssumption DEF To, Prompted

\* Requests that wait for the launch of s are handed over or refused.
LEMMA HandedOver ==
  ASSUME ReqInv, victim' = victim, NEW s, HandsOver(s), lock' = lock
  PROVE  ReqInv'
<1>1. req' \in [Prompts \cup Kills -> ReqPcs]
  BY DEF ReqInv, HandsOver, ReqPcs
<1>2. \A k \in Kills : req'[k] = "killwrite" => req[k] = "killwrite"
  BY DEF ReqInv, HandsOver
<1> QED BY <1>1, <1>2 DEF ReqInv

LEMMA EndsRequests ==
  ASSUME ReqInv, victim' = victim, NEW s \in Sessions, NEW a, Ends(s, a)
  PROVE  ReqInv'
<1> DEFINE orphans == {r \in Prompts : req[r] = "handoff" /\ Dest[r] = s}
<1>1. /\ req' = [r \in DOMAIN req |-> IF r \in orphans THEN "refused" ELSE req[r]]
      /\ lock' = IF lock[s] \in orphans \cup {"launch"} THEN [lock EXCEPT ![s] = None] ELSE lock
  BY Zenon DEF Ends
<1> HIDE DEF orphans
<1>2. req' \in [Prompts \cup Kills -> ReqPcs]
  BY <1>1 DEF ReqInv, ReqPcs
<1>3. \A k \in Kills : req'[k] = "killwrite" => req[k] = "killwrite"
  BY <1>1 DEF ReqInv
<1>4. lock' \in [Sessions -> {None, "launch"} \cup Prompts \cup Kills]
  BY <1>1, LocksTyped, LockIs
<1> QED BY <1>2, <1>3, <1>4 DEF ReqInv

\* One or two events are put.
LEMMA EventsPut ==
  ASSUME events \in Seq(EvRec), NEW s \in Sessions, NEW kind \in EvKinds
  PROVE  /\ Append(events, Ev(kind, s)) \in Seq(EvRec)
         /\ events \o <<Ev(kind, s), Ev("opdone", s)>> \in Seq(EvRec)
         /\ events \o <<Ev(kind, s)>> \o <<Ev("opdone", s)>> \in Seq(EvRec)
         /\ events \o <<>> \o <<Ev("opdone", s)>> \in Seq(EvRec)
<1> DEFINE d == Ev(kind, s)
           e == Ev("opdone", s)
<1>1. d \in EvRec /\ e \in EvRec
  BY DEF Ev, EvRec, EvKinds
<1> HIDE DEF d, e
<1>2. Append(events, d) \in Seq(EvRec)
  BY <1>1
<1>3. events \o <<d, e>> \in Seq(EvRec)
  BY <1>1
<1>4. events \o <<d>> \o <<e>> \in Seq(EvRec)
  BY <1>1
<1>5. events \o <<>> \o <<e>> \in Seq(EvRec)
  BY <1>1
<1> QED BY <1>2, <1>3, <1>4, <1>5 DEF d, e

LEMMA DiskTurn ==
  ASSUME DiskInv, NEW s \in Sessions, NEW x \in PromptOrNone, disk' = [disk EXCEPT ![s].turn = x]
  PROVE  DiskInv'
BY DEF DiskInv, DiskRec

LEMMA DiskFailed ==
  ASSUME DiskInv, NEW s \in Sessions, NEW x \in BOOLEAN, disk' = [disk EXCEPT ![s].failed = x]
  PROVE  DiskInv'
BY DEF DiskInv, DiskRec

LEMMA DiskDone ==
  ASSUME DiskInv, NEW s \in Sessions, NEW x \in PromptOrNone, disk' = [disk EXCEPT ![s].done = x]
  PROVE  DiskInv'
BY DEF DiskInv, DiskRec

LEMMA DiskQueue ==
  ASSUME DiskInv, NEW s \in Sessions, NEW x \in Seq(Prompts), disk' = [disk EXCEPT ![s].queue = x]
  PROVE  DiskInv'
BY DEF DiskInv, DiskRec

LEMMA SetsKept ==
  ASSUME SetInv, UNCHANGED <<steering, stopped, failed, interrupted, foreign, accepted, settled, withdrawn, replaced, marked>>
  PROVE  SetInv'
BY DEF SetInv

\* What the invariant says of one session, and of the index.
LEMMA OfSession ==
  ASSUME LaunchesFit, SlotInv, DiskInv, NEW s \in Sessions
  PROVE  /\ launch[s] \in LaunchRec /\ agent[s] \in AgentRec /\ loading[s] \in Seq(Prompts) \cup {None}
         /\ Fits(launch[s], agent[s], loading[s])
         /\ disk[s] \in DiskRec /\ disk[s].turn \in PromptOrNone /\ disk[s].queue \in Seq(Prompts)
         /\ byId[s] \in Entry \cup {None}
         /\ byId[s] # None => byId[s].p \in Prompts /\ byId[s].s = s
<1>1. /\ launch[s] \in LaunchRec /\ agent[s] \in AgentRec /\ loading[s] \in Seq(Prompts) \cup {None}
      /\ Fits(launch[s], agent[s], loading[s])
  BY DEF LaunchesFit
<1>2. disk[s] \in DiskRec /\ disk[s].turn \in PromptOrNone /\ disk[s].queue \in Seq(Prompts)
  BY DEF DiskInv, DiskRec
<1>3. Indexed(Now) /\ Now.ids = byId
  BY DEF SlotInv, Settled, Now
<1>4. byId \in [Sessions -> Entry \cup {None}]
  BY <1>3, QueueFields DEF Indexed
<1>5. byId[s] # None => byId[s].p \in Prompts /\ byId[s].s = s
  BY <1>3, <1>4, EntryFields DEF Indexed
<1> QED BY <1>1, <1>2, <1>4, <1>5

-----------------------------------------------------------------------------
(* Requests keep the invariant.                                              *)

LEMMA SpawnWritesKeeps == ASSUME HInv, NEW p \in Prompts, SpawnWrites(p) PROVE HInv'
<1>1. LaunchesFit' /\ SlotInv'
  BY NothingStarts DEF HInv, SpawnWrites
<1>2. DiskInv'
  BY DestIs, DiskTurn DEF HInv, SpawnWrites, PromptOrNone
<1>3. TurnInv' /\ SetInv'
  BY SetsKept DEF HInv, SpawnWrites, TurnInv, turnVars, trackVars, histVars
<1>4. ReqInv'
  <2>1. victim' = victim /\ lock' = lock /\ Moves(p, "wrote")
    BY DEF SpawnWrites
  <2> QED BY <2>1, RequestMoves, LockIs DEF HInv, ReqPcs
<1> QED BY <1>1, <1>2, <1>3, <1>4 DEF HInv

LEMMA EnqueuesKeeps == ASSUME HInv, NEW p \in Prompts, Enqueues(p) PROVE HInv'
<1> DEFINE e == [s |-> Dest[p], p |-> p, kind |-> "turn"]
<1>0. e \in Entry /\ launch \in [Sessions -> LaunchRec] /\ Settled(Now, launch)
  BY DestIs DEF Entry, HInv, LaunchesFit, SlotInv
<1>1. LaunchesFit' /\ SlotInv'
  <2>1. Schedules(Pump(Enqueue(Now, e), Held), launch)
    BY DEF Enqueues
  <2> HIDE DEF e
  <2>2. Settled(Enqueue(Now, e), launch)
    BY <1>0, SettledEnqueue
  <2>3. /\ launch' \in [Sessions -> LaunchRec] /\ SlotInv'
        /\ \A t \in Sessions : launch'[t] = launch[t] \/ (launch[t] = NoLaunch /\ launch'[t] \in StartRec)
    BY <1>0, <2>1, <2>2, PumpScheduled
  <2>4. UNCHANGED <<agent, loading>>
    BY DEF Enqueues
  <2> QED BY <2>3, <2>4, SomeStart DEF HInv
<1>2. DiskInv' /\ TurnInv'
  BY DEF HInv, Enqueues, DiskInv, TurnInv, turnVars
<1>3. SetInv'
  BY DestIs DEF HInv, SetInv, Enqueues, Accepts, turnVars, histVars
<1>4. ReqInv'
  <2>1. victim' = victim /\ Moves(p, "done")
        /\ lock' = IF Via[p] = "send" THEN [lock EXCEPT ![Dest[p]] = None] ELSE lock
    BY DEF Enqueues
  <2>2. lock' \in [Sessions -> {None, "launch"} \cup Prompts \cup Kills]
    BY <2>1, LocksTyped, LockIs, DestIs DEF HInv
  <2> QED BY <2>1, <2>2, RequestMoves DEF HInv, ReqPcs
<1> QED BY <1>1, <1>2, <1>3, <1>4 DEF HInv

LEMMA RequestArrivesKeeps == ASSUME HInv, NEW r \in Prompts \cup Kills, RequestArrives(r) PROVE HInv'
<1>1. LaunchesFit' /\ SlotInv'
  BY NothingStarts DEF HInv, RequestArrives
<1>2. DiskInv' /\ TurnInv' /\ SetInv'
  BY SetsKept DEF HInv, RequestArrives, DiskInv, TurnInv, turnVars, trackVars, histVars
<1>3. ReqInv'
  <2>1. victim' = victim /\ lock' = lock
        /\ Moves(r, IF Prompted(r) /\ RouteRefuses(r) THEN "refused" ELSE "waiting")
    BY DEF RequestArrives
  <2>2. CASE Prompted(r) /\ RouteRefuses(r)
    BY <2>1, <2>2, RequestMoves, LockIs DEF HInv, ReqPcs
  <2>3. CASE ~(Prompted(r) /\ RouteRefuses(r))
    BY <2>1, <2>3, RequestMoves, LockIs DEF HInv, ReqPcs
  <2> QED BY <2>2, <2>3
<1> QED BY <1>1, <1>2, <1>3 DEF HInv

LEMMA SendKeeps == ASSUME HInv, NEW p \in Prompts, Send(p) PROVE HInv'
<1>1. LaunchesFit' /\ SlotInv'
  BY NothingStarts DEF HInv, Send
<1>2. DiskInv' /\ TurnInv'
  BY DEF HInv, Send, DiskInv, TurnInv, turnVars
<1>3. SetInv'
  BY DEF HInv, Send, Unlatches, SetInv, turnVars, histVars
<1>4. ReqInv'
  <2> DEFINE pc == IF Dest[p] \in running /\ ~agent[Dest[p]].up THEN "handoff"
                   ELSE IF Busy(Dest[p]) \/ Peek(agent[Dest[p]]) # None THEN "submitted" ELSE "writing"
  <2>1. victim' = victim /\ lock' = [lock EXCEPT ![To(p)] = p] /\ Moves(p, pc)
    BY DEF Send, Locks
  <2>2. pc \in ReqPcs /\ pc # "killwrite"
    BY DEF ReqPcs
  <2>3. lock' \in [Sessions -> {None, "launch"} \cup Prompts \cup Kills]
    BY <2>1, LocksTyped, LockIs, DestIs DEF HInv
  <2> HIDE DEF pc
  <2> QED BY <2>1, <2>2, <2>3, RequestMoves DEF HInv, ReqPcs
<1> QED BY <1>1, <1>2, <1>3, <1>4 DEF HInv

LEMMA SendResumesKeeps == ASSUME HInv, NEW p \in Prompts, SendResumes(p) PROVE HInv'
<1>1. LaunchesFit' /\ SlotInv'
  BY NothingStarts DEF HInv, SendResumes
<1>2. DiskInv' /\ TurnInv' /\ SetInv'
  BY SetsKept DEF HInv, SendResumes, DiskInv, TurnInv, turnVars, trackVars, histVars
<1>3. ReqInv'
  <2> DEFINE pc == IF Busy(Dest[p]) \/ Peek(agent[Dest[p]]) # None THEN "submitted" ELSE "writing"
  <2>1. victim' = victim /\ lock' = lock /\ Moves(p, pc)
    BY DEF SendResumes
  <2>2. pc \in ReqPcs /\ pc # "killwrite"
    BY DEF ReqPcs
  <2> HIDE DEF pc
  <2> QED BY <2>1, <2>2, RequestMoves, LockIs DEF HInv, ReqPcs
<1> QED BY <1>1, <1>2, <1>3 DEF HInv

LEMMA SendWritesKeeps == ASSUME HInv, NEW p \in Prompts, SendWrites(p) PROVE HInv'
<1>1. LaunchesFit' /\ SlotInv'
  BY NothingStarts DEF HInv, SendWrites
<1>2. DiskInv'
  BY DestIs, DiskTurn DEF HInv, SendWrites, PromptOrNone
<1>3. TurnInv' /\ SetInv'
  BY SetsKept DEF HInv, SendWrites, TurnInv, turnVars, trackVars, histVars
<1>4. ReqInv'
  <2>1. victim' = victim /\ lock' = lock /\ Moves(p, "wrote")
    BY DEF SendWrites
  <2> QED BY <2>1, RequestMoves, LockIs DEF HInv, ReqPcs
<1> QED BY <1>1, <1>2, <1>3, <1>4 DEF HInv

LEMMA FollowUpRunsKeeps == ASSUME HInv, NEW p \in Prompts, FollowUpRuns(p) PROVE HInv'
<1> DEFINE s == Dest[p]
           a == FollowUp(agent[s], p)
<1>0. s \in Sessions /\ agent[s] \in AgentRec /\ agent \in [Sessions -> AgentRec]
  BY DestIs DEF HInv, LaunchesFit
<1>1. a \in AgentRec /\ a.flight = agent[s].flight
  <2>1. agent[s].mem \in Seq(Prompts) /\ Append(agent[s].mem, p) \in Seq(Prompts)
    BY <1>0 DEF AgentRec
  <2> QED BY <1>0, <2>1 DEF FollowUp, AgentRec
<1> HIDE DEF a
<1>2. ASSUME agent[s].up PROVE LaunchesFit' /\ SlotInv' /\ DiskInv' /\ TurnInv'
  <2>1. Saves(s, a) /\ events' = Append(events, Ev("queued", s))
    BY <1>2, Zenon DEF FollowUpRuns, a
  <2>2. /\ DiskInv' /\ agent' \in [Sessions -> AgentRec] /\ agent'[s] = a
        /\ \A t \in Sessions \ {s} : agent'[t] = agent[t]
    BY <1>0, <1>1, <2>1, SavesKeeps DEF HInv
  <2>3. launch' = launch /\ loading' = loading /\ UNCHANGED runVars
    BY DEF FollowUpRuns
  <2>4. LaunchesFit'
    <3>1. Fits(launch[s], agent[s], loading[s]) /\ loading[s] \in Seq(Prompts) \cup {None}
      BY <1>0 DEF HInv, LaunchesFit
    <3>2. Fits(launch'[s], agent'[s], loading'[s])
      BY <1>1, <2>2, <2>3, <3>1 DEF Fits
    <3> QED BY <1>0, <2>2, <2>3, <3>2, OneChanges DEF HInv, LaunchesFit
  <2>5. SlotInv'
    <3>1. Now' = Now
      BY <2>3 DEF Now, runVars
    <3> QED BY <2>3, <3>1 DEF HInv, SlotInv, Settled
  <2>6. TurnInv'
    <3>1. op' = op /\ consumer' = consumer
      BY DEF FollowUpRuns, turnVars
    <3>2. Append(events, Ev("queued", s)) \in Seq(EvRec)
      BY <1>0, EventsPut DEF HInv, TurnInv, EvKinds
    <3>3. events' \in Seq(EvRec)
      BY <2>1, <3>2, Zenon
    <3>4. op \in [Sessions -> OpRec] /\ consumer \in Sessions \cup {None}
      BY DEF HInv, TurnInv
    <3> QED BY <3>1, <3>3, <3>4 DEF TurnInv
  <2> QED BY <2>2, <2>4, <2>5, <2>6
<1>3. ASSUME ~agent[s].up PROVE LaunchesFit' /\ SlotInv' /\ DiskInv' /\ TurnInv'
  <2>1. /\ events' = events \o <<Ev("error", s), Ev("opdone", s)>> /\ UNCHANGED <<disk, agent>>
        /\ UNCHANGED <<launch, loading, runVars, op, consumer>>
    BY <1>3 DEF FollowUpRuns, turnVars
  <2>2. LaunchesFit' /\ SlotInv'
    BY <2>1, NothingStarts DEF HInv
  <2>3. TurnInv'
    <3>1. events \o <<Ev("error", s), Ev("opdone", s)>> \in Seq(EvRec)
      BY <1>0, EventsPut DEF HInv, TurnInv, EvKinds
    <3>2. events' \in Seq(EvRec)
      BY <2>1, <3>1, Zenon
    <3>3. op \in [Sessions -> OpRec] /\ consumer \in Sessions \cup {None} /\ op' = op /\ consumer' = consumer
      BY <2>1 DEF HInv, TurnInv
    <3> QED BY <3>2, <3>3 DEF TurnInv
  <2> QED BY <2>1, <2>2, <2>3 DEF HInv, DiskInv
<1>4. LaunchesFit' /\ SlotInv' /\ DiskInv' /\ TurnInv'
  BY <1>2, <1>3
<1>5. SetInv'
  BY DEF HInv, SetInv, FollowUpRuns, turnVars, trackVars, histVars
<1>6. ReqInv'
  <2> DEFINE pc == IF Via[p] = "follow" THEN "done" ELSE "followed"
  <2>1. victim' = victim /\ lock' = lock /\ Moves(p, pc)
    BY DEF FollowUpRuns
  <2>2. pc \in ReqPcs /\ pc # "killwrite"
    BY DEF ReqPcs
  <2> HIDE DEF pc
  <2> QED BY <2>1, <2>2, RequestMoves, LockIs DEF HInv, ReqPcs
<1> QED BY <1>4, <1>5, <1>6 DEF HInv

LEMMA SendReturnsKeeps == ASSUME HInv, NEW p \in Prompts, SendReturns(p) PROVE HInv'
<1> DEFINE s == Dest[p]
<1>0. s \in Sessions /\ agent[s] \in AgentRec /\ launch \in [Sessions -> LaunchRec] /\ Settled(Now, launch)
  BY DestIs DEF HInv, LaunchesFit, SlotInv
<1>1. LaunchesFit' /\ SlotInv'
  <2>1. Schedules(Drained(Now, s, stopped, failed, agent[s], Held), launch) /\ UNCHANGED <<agent, loading>>
    BY DEF SendReturns
  <2>2. /\ launch' \in [Sessions -> LaunchRec] /\ SlotInv'
        /\ \A t \in Sessions : launch'[t] = launch[t] \/ (launch[t] = NoLaunch /\ launch'[t] \in StartRec)
    BY <1>0, <2>1, DrainScheduled
  <2> QED BY <2>1, <2>2, SomeStart DEF HInv
<1>2. DiskInv' /\ TurnInv'
  BY DEF HInv, SendReturns, DiskInv, TurnInv, turnVars
<1>3. SetInv'
  BY DEF HInv, SetInv, SendReturns, Accepts, turnVars, trackVars, histVars
<1>4. ReqInv'
  <2>1. victim' = victim /\ lock' = [lock EXCEPT ![s] = None] /\ Moves(p, "done")
    BY DEF SendReturns
  <2>2. lock' \in [Sessions -> {None, "launch"} \cup Prompts \cup Kills]
    BY <1>0, <2>1, LocksTyped, LockIs DEF HInv
  <2> QED BY <2>1, <2>2, RequestMoves DEF HInv, ReqPcs
<1> QED BY <1>1, <1>2, <1>3, <1>4 DEF HInv

LEMMA SteerKeeps == ASSUME HInv, NEW p \in Prompts, Steer(p) PROVE HInv'
<1> DEFINE s == Dest[p]
           refused == byId[s] # None /\ byId[s].kind = "turn"
           h == IF byId[s] = None THEN Now ELSE Drop(Now, s)
           e == SteerEntry(p)
<1>0. /\ s \in Sessions /\ launch \in [Sessions -> LaunchRec] /\ Settled(Now, launch)
      /\ e \in Entry
  BY DestIs DEF HInv, LaunchesFit, SlotInv, SteerEntry, Entry
<1>s. byId[s] # None => byId[s].p \in Prompts
  BY <1>0, OfSession DEF HInv
<1> HIDE DEF e
<1>1. UNCHANGED <<agent, loading, disk, op, foreign, events, consumer, victim, accepted, settled, withdrawn, marked>>
  BY DEF Steer, turnVars
<1>2. CASE refused
  <2>1. Moves(p, "refused") /\ UNCHANGED <<runVars, launch, steering, lock, replaced>> /\ Unlatches(s)
    BY <1>2, Zenon DEF Steer
  <2>2. LaunchesFit' /\ SlotInv'
    BY <1>1, <2>1, NothingStarts DEF HInv
  <2>3. ReqInv'
    BY <1>1, <2>1, RequestMoves, LockIs DEF HInv, ReqPcs
  <2>4. SetInv'
    BY <1>1, <2>1 DEF HInv, SetInv, Unlatches
  <2> QED BY <1>1, <2>2, <2>3, <2>4 DEF HInv, DiskInv, TurnInv
<1>3. CASE ~refused
  <2>1. /\ lock' = [lock EXCEPT ![s] = p] /\ steering' = steering \cup {s} /\ Moves(p, "steering")
        /\ Schedules(Enqueue(h, e), launch) /\ Unlatches(s)
        /\ replaced' = IF byId[s] # None /\ byId[s].kind = "steer" THEN replaced \cup {byId[s].p} ELSE replaced
    BY <1>3, Zenon DEF Steer, e
  <2>2. Settled(h, launch)
    BY <1>0, SettledDrop
  <2> HIDE DEF h
  <2>3. Settled(Enqueue(h, e), launch)
    BY <1>0, <2>2, SettledEnqueue
  <2>4. LaunchesFit' /\ SlotInv'
    <3>1. /\ launch' \in [Sessions -> LaunchRec] /\ SlotInv'
          /\ \A t \in Sessions : launch'[t] = launch[t] \/ (launch[t] = NoLaunch /\ launch'[t] \in StartRec)
      BY <1>0, <2>1, <2>3, SettledScheduled
    <3> QED BY <1>1, <3>1, SomeStart DEF HInv
  <2>5. ReqInv'
    <3>1. lock' \in [Sessions -> {None, "launch"} \cup Prompts \cup Kills]
      BY <1>0, <2>1, LocksTyped, LockIs DEF HInv
    <3> QED BY <1>1, <2>1, <3>1, RequestMoves DEF HInv, ReqPcs
  <2>6. SetInv'
    <3>1. replaced' \subseteq Prompts
      BY <1>s, <2>1 DEF HInv, SetInv
    <3> QED BY <1>0, <1>1, <2>1, <3>1 DEF HInv, SetInv, Unlatches
  <2> QED BY <1>1, <2>4, <2>5, <2>6 DEF HInv, DiskInv, TurnInv
<1> QED BY <1>2, <1>3

LEMMA SteerWritesKeeps == ASSUME HInv, NEW p \in Prompts, SteerWrites(p) PROVE HInv'
<1> DEFINE s == Dest[p]
<1>0. s \in Sessions /\ disk[s].turn \in PromptOrNone
  BY DestIs, OfSession DEF HInv
<1>1. LaunchesFit' /\ SlotInv' /\ TurnInv'
  BY NothingStarts DEF HInv, SteerWrites, TurnInv
<1>2. victim' = victim /\ lock' = lock /\ ReqInv /\ DiskInv /\ SetInv
  BY DEF SteerWrites, HInv
<1>3. ASSUME disk' = [disk EXCEPT ![s].turn = p], Moves(p, "steerwrote"),
             replaced' = replaced \cup ({disk[s].turn} \ {None})
      PROVE  DiskInv' /\ ReqInv' /\ replaced' \subseteq Prompts
  <2>1. DiskInv'
    BY <1>0, <1>2, <1>3, DiskTurn DEF PromptOrNone
  <2>2. replaced' \subseteq Prompts
    BY <1>0, <1>2, <1>3 DEF SetInv, PromptOrNone
  <2>3. ReqInv'
    BY <1>2, <1>3, RequestMoves, LockIs DEF ReqPcs
  <2> QED BY <2>1, <2>2, <2>3
<1>4. ASSUME Moves(p, "steerfailed"), UNCHANGED <<disk, replaced>>
      PROVE  DiskInv' /\ ReqInv' /\ replaced' \subseteq Prompts
  <2>1. ReqInv'
    BY <1>2, <1>4, RequestMoves, LockIs DEF ReqPcs
  <2> QED BY <1>2, <1>4, <2>1 DEF DiskInv, SetInv
<1>5. DiskInv' /\ ReqInv' /\ replaced' \subseteq Prompts
  BY <1>3, <1>4, Zenon DEF SteerWrites
<1>6. SetInv'
  BY <1>5 DEF HInv, SetInv, SteerWrites, trackVars
<1> QED BY <1>1, <1>5, <1>6 DEF HInv

LEMMA SteerFailsKeeps == ASSUME HInv, NEW p \in Prompts, SteerFails(p) PROVE HInv'
<1> DEFINE s == Dest[p]
           h == IF byId[s] = SteerEntry(p) THEN Drop(Now, s) ELSE Now
<1>0. s \in Sessions /\ launch \in [Sessions -> LaunchRec] /\ Settled(Now, launch)
  BY DestIs DEF HInv, LaunchesFit, SlotInv
<1>1. /\ Schedules(Pump(h, Held \ {s}), launch) /\ UNCHANGED <<agent, loading>>
      /\ Moves(p, "refused") /\ lock' = [lock EXCEPT ![s] = None] /\ victim' = victim
  BY Zenon DEF SteerFails
<1>2. LaunchesFit' /\ SlotInv'
  <2>1. Settled(h, launch)
    BY <1>0, SettledDrop
  <2> HIDE DEF h
  <2>2. /\ launch' \in [Sessions -> LaunchRec] /\ SlotInv'
        /\ \A t \in Sessions : launch'[t] = launch[t] \/ (launch[t] = NoLaunch /\ launch'[t] \in StartRec)
    BY <1>0, <1>1, <2>1, PumpScheduled
  <2> QED BY <1>1, <2>2, SomeStart DEF HInv
<1>3. DiskInv' /\ TurnInv'
  BY DEF HInv, SteerFails, DiskInv, TurnInv, turnVars
<1>4. SetInv'
  BY DEF HInv, SetInv, SteerFails, turnVars, trackVars, histVars
<1>5. ReqInv'
  <2>1. lock' \in [Sessions -> {None, "launch"} \cup Prompts \cup Kills]
    BY <1>0, <1>1, LocksTyped, LockIs DEF HInv
  <2> QED BY <1>1, <2>1, RequestMoves DEF HInv, ReqPcs
<1> QED BY <1>2, <1>3, <1>4, <1>5 DEF HInv

\* The steer gives the session back and pumps.
LEMMA SteerEndsKeeps ==
  ASSUME HInv, NEW p \in Prompts, SteerEnds(p, Now),
         UNCHANGED <<disk, agent, loading, trackVars, turnVars, events, consumer, victim, histVars>>
  PROVE  HInv'
<1> DEFINE s == Dest[p]
<1>0. s \in Sessions /\ launch \in [Sessions -> LaunchRec] /\ Settled(Now, launch)
  BY DestIs DEF HInv, LaunchesFit, SlotInv
<1>1. /\ Schedules(Pump(Now, Held \ {s}), launch) /\ UNCHANGED <<agent, loading>>
      /\ Moves(p, "done") /\ lock' = [lock EXCEPT ![s] = None] /\ victim' = victim
      /\ steering' = steering \ {s} /\ accepted' = accepted \cup {p}
  BY DEF SteerEnds, Unlocks, Accepts
<1>2. LaunchesFit' /\ SlotInv'
  <2>1. /\ launch' \in [Sessions -> LaunchRec] /\ SlotInv'
        /\ \A t \in Sessions : launch'[t] = launch[t] \/ (launch[t] = NoLaunch /\ launch'[t] \in StartRec)
    BY <1>0, <1>1, PumpScheduled
  <2> QED BY <1>1, <2>1, SomeStart DEF HInv
<1>3. DiskInv' /\ TurnInv'
  BY DEF HInv, DiskInv, TurnInv, turnVars
<1>4. SetInv'
  BY <1>1 DEF HInv, SetInv, turnVars, trackVars, histVars
<1>5. ReqInv'
  <2>1. lock' \in [Sessions -> {None, "launch"} \cup Prompts \cup Kills]
    BY <1>0, <1>1, LocksTyped, LockIs DEF HInv
  <2> QED BY <1>1, <2>1, RequestMoves DEF HInv, ReqPcs
<1> QED BY <1>2, <1>3, <1>4, <1>5 DEF HInv

LEMMA SteerResumesKeeps == ASSUME HInv, NEW p \in Prompts, SteerResumes(p) PROVE HInv'
<1>1. UNCHANGED <<disk, agent, loading, trackVars, turnVars, events, consumer, victim, histVars>>
  BY DEF SteerResumes
<1>2. CASE ~Idle(Dest[p])
  <2>1. Moves(p, "steerint") /\ UNCHANGED <<steering, runVars, launch, lock, accepted>>
    BY <1>2 DEF SteerResumes
  <2>2. LaunchesFit' /\ SlotInv'
    BY <1>1, <2>1, NothingStarts DEF HInv
  <2>3. DiskInv' /\ TurnInv' /\ SetInv'
    BY <1>1, <2>1, SetsKept DEF HInv, DiskInv, TurnInv, turnVars, trackVars, histVars
  <2>4. ReqInv'
    BY <1>1, <2>1, RequestMoves, LockIs DEF HInv, ReqPcs
  <2> QED BY <2>2, <2>3, <2>4 DEF HInv
<1>3. CASE Idle(Dest[p])
  <2>1. SteerEnds(p, Now)
    BY <1>3 DEF SteerResumes
  <2> QED BY <1>1, <2>1, SteerEndsKeeps
<1> QED BY <1>2, <1>3

LEMMA SteerDoneKeeps == ASSUME HInv, NEW p \in Prompts, SteerDone(p) PROVE HInv'
BY SteerEndsKeeps DEF SteerDone

\* An interrupt puts its event and cancels the turn that runs.
LEMMA InterruptsKeeps ==
  ASSUME TurnInv, NEW s \in Sessions, Interrupts(s), consumer' = consumer
  PROVE  TurnInv' /\ foreign' = foreign
<1>1. /\ events' = Append(events, Ev("interrupt", s)) /\ foreign' = foreign
      /\ op' = IF op[s].st = "active" THEN [op EXCEPT ![s].st = "cancelling"] ELSE op
  BY DEF Interrupts
<1>2. Append(events, Ev("interrupt", s)) \in Seq(EvRec)
  BY EventsPut DEF TurnInv, EvKinds
<1>3. op' \in [Sessions -> OpRec]
  BY <1>1 DEF TurnInv, OpRec
<1> QED BY <1>1, <1>2, <1>3 DEF TurnInv

LEMMA SteerInterruptsKeeps == ASSUME HInv, NEW p \in Prompts, SteerInterrupts(p) PROVE HInv'
<1>1. LaunchesFit' /\ SlotInv'
  BY NothingStarts DEF HInv, SteerInterrupts
<1>2. TurnInv' /\ foreign' = foreign
  BY InterruptsKeeps, DestIs DEF HInv, SteerInterrupts
<1>3. DiskInv' /\ SetInv'
  BY <1>2, SetsKept DEF HInv, SteerInterrupts, DiskInv, trackVars, histVars
<1>4. ReqInv'
  <2>1. victim' = victim /\ lock' = lock /\ Moves(p, "steerwait")
    BY DEF SteerInterrupts
  <2> QED BY <2>1, RequestMoves, LockIs DEF HInv, ReqPcs
<1> QED BY <1>1, <1>2, <1>3, <1>4 DEF HInv

-----------------------------------------------------------------------------
(* A kill.                                                                   *)

LEMMA PromptsOf ==
  ASSUME NEW q \in Seq(Prompts) PROVE ToSet(q) \subseteq Prompts
BY SetOf

LEMMA KillEndsKeeps ==
  ASSUME HInv, NEW k \in Kills, NEW h, Settled(h, launch), NEW c \in BOOLEAN, KillEnds(k, h, c),
         victim' = victim,
         UNCHANGED <<loading, steering, failed, interrupted, turnVars, events, consumer, accepted,
                     crashes, settled, replaced, marked>>
  PROVE  HInv'
<1> DEFINE s == Target[k]
           lost == IF agent[s].up THEN ToSet(agent[s].mem)
                   ELSE IF c THEN {} ELSE ToSet(disk[s].queue)
           pc == IF Idle(s) THEN "done" ELSE "killint"
<1>0. /\ s \in Sessions /\ launch \in [Sessions -> LaunchRec] /\ agent \in [Sessions -> AgentRec]
      /\ agent[s] \in AgentRec /\ agent[s].mem \in Seq(Prompts) /\ disk[s].queue \in Seq(Prompts)
      /\ Fits(launch[s], agent[s], loading[s])
  BY DestIs, OfSession DEF HInv, LaunchesFit, AgentRec
<1>1. /\ withdrawn' = withdrawn \cup lost
      /\ stopped' = IF s \in running \/ ~Idle(s) THEN stopped \cup {s} ELSE stopped
      /\ Moves(k, pc) /\ Schedules(h, launch) /\ Unlocks(s)
      /\ IF agent[s].up THEN Saves(s, PopAll(agent[s]))
         ELSE /\ disk' = IF c THEN disk ELSE [disk EXCEPT ![s].queue = <<>>]
              /\ UNCHANGED agent
  BY Zenon DEF KillEnds
<1>2. lost \subseteq Prompts
  BY <1>0, PromptsOf
<1>3. PopAll(agent[s]) \in AgentRec /\ PopAll(agent[s]).flight = agent[s].flight
  <2>1. <<>> \in Seq(Prompts)
    OBVIOUS
  <2> QED BY <1>0, <2>1 DEF PopAll, AgentRec
<1>4. /\ DiskInv' /\ agent' \in [Sessions -> AgentRec] /\ agent'[s].flight = agent[s].flight
      /\ \A t \in Sessions \ {s} : agent'[t] = agent[t]
  <2>1. ASSUME agent[s].up
        PROVE  /\ DiskInv' /\ agent' \in [Sessions -> AgentRec] /\ agent'[s].flight = agent[s].flight
               /\ \A t \in Sessions \ {s} : agent'[t] = agent[t]
    <3>1. Saves(s, PopAll(agent[s]))
      BY <1>1, <2>1, Zenon
    <3>2. DiskInv
      BY DEF HInv
    <3> DEFINE x == PopAll(agent[s])
    <3>3. x \in AgentRec /\ x.flight = agent[s].flight /\ Saves(s, x)
      BY <1>3, <3>1
    <3> HIDE DEF x
    <3>4. DiskInv' /\ agent' \in [Sessions -> AgentRec] /\ agent'[s] = x
          /\ \A t \in Sessions \ {s} : agent'[t] = agent[t]
      BY <1>0, <3>2, <3>3, SavesKeeps
    <3> QED BY <3>3, <3>4
  <2>2. ASSUME ~agent[s].up
        PROVE  /\ DiskInv' /\ agent' \in [Sessions -> AgentRec] /\ agent'[s].flight = agent[s].flight
               /\ \A t \in Sessions \ {s} : agent'[t] = agent[t]
    <3>1. /\ disk' = IF c THEN disk ELSE [disk EXCEPT ![s].queue = <<>>]
          /\ agent' = agent
      BY <1>1, <2>2, Zenon
    <3>2. DiskInv /\ <<>> \in Seq(Prompts)
      BY DEF HInv
    <3>3. DiskInv'
      BY <1>0, <3>1, <3>2, DiskQueue DEF DiskInv
    <3> QED BY <1>0, <3>1, <3>3
  <2> QED BY <2>1, <2>2
<1> HIDE DEF lost, pc
<1>5. /\ launch' \in [Sessions -> LaunchRec] /\ SlotInv'
      /\ \A t \in Sessions : launch'[t] = launch[t] \/ (launch[t] = NoLaunch /\ launch'[t] \in StartRec)
  BY <1>0, <1>1, SettledScheduled
<1>6. loading' = loading /\ loading \in [Sessions -> Seq(Prompts) \cup {None}] /\ LaunchesFit
  BY DEF HInv, LaunchesFit
<1>7. Fits(launch'[s], agent'[s], loading'[s])
  <2>0. agent'[s] \in AgentRec /\ loading[s] \in Seq(Prompts) \cup {None}
    BY <1>0, <1>4, <1>6
  <2>1. CASE launch'[s] = launch[s]
    BY <1>0, <1>4, <1>6, <2>0, <2>1 DEF Fits
  <2>2. CASE launch[s] = NoLaunch /\ launch'[s] \in StartRec
    <3>1. agent'[s].flight = None
      BY <1>0, <1>4, <2>2, NoLaunchTyped DEF Fits
    <3> QED BY <1>6, <2>0, <2>2, <3>1, IdleFits
  <2> QED BY <1>0, <1>5, <2>1, <2>2
<1>8. LaunchesFit'
  BY <1>0, <1>4, <1>5, <1>6, <1>7, OneChanges
<1>9. TurnInv'
  BY DEF HInv, TurnInv, turnVars
<1>10. SetInv'
  BY <1>0, <1>1, <1>2 DEF HInv, SetInv, turnVars
<1>11. ReqInv'
  <2>1. pc \in ReqPcs /\ pc # "killwrite"
    BY DEF pc, ReqPcs
  <2>2. lock' = [lock EXCEPT ![s] = None]
    BY <1>1 DEF Unlocks
  <2>3. lock' \in [Sessions -> {None, "launch"} \cup Prompts \cup Kills]
    BY <1>0, <2>2, LocksTyped, LockIs DEF HInv
  <2> QED BY <1>1, <2>1, <2>3, RequestMoves DEF HInv
<1> QED BY <1>4, <1>5, <1>8, <1>9, <1>10, <1>11 DEF HInv

LEMMA KillKeeps == ASSUME HInv, NEW k \in Kills, Kill(k) PROVE HInv'
<1> DEFINE s == Target[k]
<1>0. /\ s \in Sessions /\ launch \in [Sessions -> LaunchRec] /\ Settled(Now, launch)
      /\ byId[s] # None => byId[s].p \in Prompts
  BY DestIs, OfSession DEF HInv, LaunchesFit, SlotInv
<1>1. Settled(Drop(Now, s), launch)
  BY <1>0, SettledDrop
<1>2. UNCHANGED <<loading, steering, failed, interrupted, turnVars, events, consumer, accepted,
                  crashes, settled, replaced, marked>>
  BY DEF Kill
<1>3. CASE byId[s] = None
  <2>1. KillEnds(k, Now, FALSE) /\ victim' = victim
    BY <1>3, Zenon DEF Kill
  <2> QED BY <1>0, <1>2, <2>1, KillEndsKeeps
<1>4. CASE byId[s] # None /\ byId[s].kind = "follow_up"
  <2>1. PICK c \in BOOLEAN : KillEnds(k, Drop(Now, s), c) /\ victim' = victim
    BY <1>4, Zenon DEF Kill
  <2> DEFINE h == Drop(Now, s)
  <2>2. Settled(h, launch) /\ KillEnds(k, h, c)
    BY <1>1, <2>1
  <2> HIDE DEF h
  <2> QED BY <1>2, <2>1, <2>2, KillEndsKeeps
<1>5. CASE byId[s] # None /\ byId[s].kind # "follow_up"
  <2>1. /\ lock' = [lock EXCEPT ![s] = k] /\ victim' = [victim EXCEPT ![k] = byId[s].p]
        /\ Schedules(Drop(Now, s), launch) /\ Moves(k, "killwrite")
        /\ UNCHANGED <<disk, agent, stopped, withdrawn>>
    BY <1>5, Zenon DEF Kill
  <2>2. LaunchesFit' /\ SlotInv'
    <3> DEFINE h == Drop(Now, s)
    <3>1. Settled(h, launch) /\ Schedules(h, launch)
      BY <1>1, <2>1
    <3> HIDE DEF h
    <3>2. /\ launch' \in [Sessions -> LaunchRec] /\ SlotInv'
          /\ \A t \in Sessions : launch'[t] = launch[t] \/ (launch[t] = NoLaunch /\ launch'[t] \in StartRec)
      BY <1>0, <3>1, SettledScheduled
    <3> QED BY <1>2, <2>1, <3>2, SomeStart DEF HInv
  <2>3. DiskInv' /\ TurnInv' /\ SetInv'
    BY <1>2, <2>1, SetsKept DEF HInv, DiskInv, TurnInv, turnVars
  <2>4. ReqInv'
    <3>1. lock' \in [Sessions -> {None, "launch"} \cup Prompts \cup Kills]
      BY <1>0, <2>1, LocksTyped, LockIs DEF HInv
    <3>2. req' \in [Prompts \cup Kills -> ReqPcs] /\ victim' \in [Kills -> PromptOrNone]
      BY <1>0, <1>5, <2>1 DEF HInv, ReqInv, Moves, ReqPcs, PromptOrNone
    <3>3. \A j \in Kills : req'[j] = "killwrite" => victim'[j] \in Prompts
      <4>1. victim'[k] \in Prompts
        BY <1>0, <1>5, <2>1 DEF HInv, ReqInv
      <4>2. \A j \in Kills \ {k} : req'[j] = req[j] /\ victim'[j] = victim[j]
        BY <2>1 DEF HInv, ReqInv, Moves
      <4> QED BY <4>1, <4>2 DEF HInv, ReqInv
    <3> QED BY <3>1, <3>2, <3>3 DEF ReqInv
  <2> QED BY <2>2, <2>3, <2>4 DEF HInv
<1> QED BY <1>3, <1>4, <1>5

LEMMA KillWritesKeeps == ASSUME HInv, NEW k \in Kills, KillWrites(k) PROVE HInv'
<1> DEFINE s == Target[k]
<1>0. s \in Sessions /\ victim[k] \in Prompts
  BY DestIs DEF HInv, ReqInv, KillWrites
<1>1. LaunchesFit' /\ SlotInv'
  BY NothingStarts DEF HInv, KillWrites
<1>2. DiskInv'
  <2>1. disk' = IF disk[s].turn = victim[k] THEN [disk EXCEPT ![s].turn = None] ELSE disk
    BY DEF KillWrites
  <2>2. DiskInv /\ None \in PromptOrNone
    BY DEF HInv, PromptOrNone
  <2>3. CASE disk[s].turn = victim[k]
    BY <1>0, <2>1, <2>2, <2>3, DiskTurn
  <2>4. CASE disk[s].turn # victim[k]
    BY <2>1, <2>2, <2>4 DEF DiskInv
  <2> QED BY <2>3, <2>4
<1>3. TurnInv'
  BY DEF HInv, TurnInv, KillWrites, turnVars
<1>4. SetInv'
  BY <1>0 DEF HInv, SetInv, KillWrites, turnVars, trackVars
<1>5. ReqInv'
  <2>1. victim' = victim /\ lock' = lock /\ Moves(k, "killwrote")
    BY DEF KillWrites
  <2> QED BY <2>1, RequestMoves, LockIs DEF HInv, ReqPcs
<1> QED BY <1>1, <1>2, <1>3, <1>4, <1>5 DEF HInv

LEMMA KillResumesKeeps == ASSUME HInv, NEW k \in Kills, KillResumes(k) PROVE HInv'
<1>1. /\ KillEnds(k, Now, TRUE) /\ victim' = victim
      /\ UNCHANGED <<loading, steering, failed, interrupted, turnVars, events, consumer, accepted,
                     crashes, settled, replaced, marked>>
  BY DEF KillResumes
<1>2. Settled(Now, launch)
  BY DEF HInv, SlotInv
<1> QED BY <1>1, <1>2, KillEndsKeeps

LEMMA KillInterruptsKeeps == ASSUME HInv, NEW k \in Kills, KillInterrupts(k) PROVE HInv'
<1>1. LaunchesFit' /\ SlotInv'
  BY NothingStarts DEF HInv, KillInterrupts
<1>2. TurnInv' /\ foreign' = foreign
  BY InterruptsKeeps, DestIs DEF HInv, KillInterrupts
<1>3. DiskInv' /\ SetInv'
  BY <1>2, SetsKept DEF HInv, KillInterrupts, DiskInv, trackVars, histVars
<1>4. ReqInv'
  <2>1. victim' = victim /\ lock' = lock /\ Moves(k, "done")
    BY DEF KillInterrupts
  <2> QED BY <2>1, RequestMoves, LockIs DEF HInv, ReqPcs
<1> QED BY <1>1, <1>2, <1>3, <1>4 DEF HInv

-----------------------------------------------------------------------------
(* The steps of a launch.                                                    *)

\* A launch goes on, and its session's agent or loading may change with it.
LEMMA GoesKeeps ==
  ASSUME LaunchesFit, SlotInv, NEW s \in Sessions, launch[s].pc # "none",
         NEW pc \in Pcs \ {"none", "loading"}, Goes(s, pc), UNCHANGED runVars,
         pc \in {"compact", "compacting", "recheck", "begin"} => launch[s].kind = "follow_up",
         agent' \in [Sessions -> AgentRec], loading' \in [Sessions -> Seq(Prompts) \cup {None}],
         agent'[s].flight # None => /\ launch[s].kind = "follow_up" /\ launch[s].p = agent'[s].flight
                                    /\ pc \in {"unfail", "wait", "flush", "mark", "marked"},
         \A t \in Sessions \ {s} : agent'[t] = agent[t] /\ loading'[t] = loading[t]
  PROVE  LaunchesFit' /\ SlotInv'
<1>0. launch \in [Sessions -> LaunchRec] /\ Fits(launch[s], agent[s], loading[s])
  BY DEF LaunchesFit
<1>1. /\ launch' \in [Sessions -> LaunchRec] /\ launch'[s].pc = pc /\ launch'[s].p = launch[s].p
      /\ launch'[s].kind = launch[s].kind /\ \A t \in Sessions \ {s} : launch'[t] = launch[t]
  BY <1>0 DEF Goes, LaunchRec
<1>2. launch'[s] \in LaunchRec /\ agent'[s] \in AgentRec /\ loading'[s] \in Seq(Prompts) \cup {None}
  BY <1>1
<1>3. launch[s].p \in Prompts
  BY <1>0 DEF Fits
<1>4. Fits(launch'[s], agent'[s], loading'[s])
  BY <1>1, <1>2, <1>3 DEF Fits
<1>5. LaunchesFit'
  BY <1>1, <1>4, OneChanges
<1>6. SlotInv'
  BY <1>0, <1>1, LaunchMoves
<1> QED BY <1>5, <1>6

LEMMA ProceedsKeeps ==
  ASSUME LaunchesFit, SlotInv, ReqInv, victim' = victim, NEW s \in Sessions, NEW a \in AgentRec,
         launch[s].pc # "none", Proceeds(s, a),
         agent' \in [Sessions -> AgentRec], loading' \in [Sessions -> Seq(Prompts) \cup {None}],
         agent'[s].flight = None,
         \A t \in Sessions \ {s} : agent'[t] = agent[t] /\ loading'[t] = loading[t]
  PROVE  LaunchesFit' /\ SlotInv' /\ ReqInv'
<1>1. ASSUME Ends(s, a) PROVE LaunchesFit' /\ SlotInv' /\ ReqInv'
  BY <1>1, EndsKeeps, EndsRequests
<1>2. ASSUME UNCHANGED <<runVars, req, lock>>,
             \/ Goes(s, "unfail")
             \/ launch[s].kind = "follow_up" /\ (Goes(s, "begin") \/ Goes(s, "compact"))
      PROVE  LaunchesFit' /\ SlotInv' /\ ReqInv'
  <2>1. ReqInv'
    BY <1>2, RequestStays, LockIs
  <2>2. ASSUME Goes(s, "unfail") PROVE LaunchesFit' /\ SlotInv'
    BY <1>2, <2>2, GoesKeeps DEF Pcs
  <2>3. ASSUME launch[s].kind = "follow_up", NEW pc \in {"begin", "compact"}, Goes(s, pc)
        PROVE  LaunchesFit' /\ SlotInv'
    BY <1>2, <2>3, GoesKeeps DEF Pcs
  <2> QED BY <1>2, <2>1, <2>2, <2>3
<1> QED BY <1>1, <1>2, Zenon DEF Proceeds

LEMMA LaunchesKeeps == ASSUME HInv, NEW s \in Sessions, Launches(s) PROVE HInv'
<1>0. /\ LaunchesFit /\ SlotInv /\ ReqInv /\ DiskInv
      /\ agent \in [Sessions -> AgentRec] /\ loading \in [Sessions -> Seq(Prompts) \cup {None}]
      /\ launch \in [Sessions -> LaunchRec]
      /\ Fits(launch[s], agent[s], loading[s]) /\ launch[s].pc = "init" /\ agent[s] \in AgentRec
      /\ launch[s].p \in Prompts /\ launch[s].kind \in Kinds
      /\ agent[s].flight = None /\ disk[s].queue \in Seq(Prompts)
  BY OfSession DEF HInv, LaunchesFit, Launches, At, Fits, LaunchRec
<1>1. UNCHANGED <<disk, agent, steering, trackVars, turnVars, events, consumer, victim, accepted, histVars>>
  BY DEF Launches
<1>2. ASSUME Proceeds(s, agent[s]), loading' = loading PROVE LaunchesFit' /\ SlotInv' /\ ReqInv'
  BY <1>0, <1>1, <1>2, ProceedsKeeps
<1>3. ASSUME loading' = [loading EXCEPT ![s] = disk[s].queue], Goes(s, "loading"), UNCHANGED <<runVars, req, lock>>
      PROVE  LaunchesFit' /\ SlotInv' /\ ReqInv'
  <2>1. ReqInv'
    BY <1>0, <1>1, <1>3, RequestStays, LockIs
  <2>2. /\ launch' \in [Sessions -> LaunchRec] /\ launch'[s].pc = "loading" /\ launch'[s].p = launch[s].p
        /\ \A t \in Sessions \ {s} : launch'[t] = launch[t]
    BY <1>0, <1>3 DEF Goes, LaunchRec, Pcs
  <2>3. /\ loading' \in [Sessions -> Seq(Prompts) \cup {None}] /\ loading'[s] \in Seq(Prompts)
        /\ \A t \in Sessions \ {s} : loading'[t] = loading[t]
    BY <1>0, <1>3
  <2>4. Fits(launch'[s], agent'[s], loading'[s])
    <3>1. launch'[s] \in LaunchRec /\ agent'[s] = agent[s]
      BY <1>1, <2>2
    <3> QED BY <1>0, <2>2, <2>3, <3>1 DEF Fits
  <2>5. LaunchesFit'
    BY <1>0, <1>1, <2>2, <2>3, <2>4, OneChanges
  <2>6. SlotInv'
    BY <1>0, <1>3, <2>2, LaunchMoves
  <2> QED BY <2>1, <2>5, <2>6
<1>4. LaunchesFit' /\ SlotInv' /\ ReqInv'
  BY <1>2, <1>3, Zenon DEF Launches
<1>5. DiskInv' /\ TurnInv' /\ SetInv'
  BY <1>1, SetsKept DEF HInv, DiskInv, TurnInv, turnVars, trackVars, histVars
<1> QED BY <1>4, <1>5 DEF HInv

LEMMA InitializedKeeps == ASSUME HInv, NEW s \in Sessions, Initialized(s) PROVE HInv'
<1> DEFINE a == Loaded(loading[s])
<1>0. /\ LaunchesFit /\ SlotInv /\ ReqInv /\ TurnInv
      /\ agent \in [Sessions -> AgentRec] /\ loading \in [Sessions -> Seq(Prompts) \cup {None}]
      /\ Fits(launch[s], agent[s], loading[s]) /\ launch[s].pc = "loading" /\ loading[s] \in Seq(Prompts)
  BY DEF HInv, LaunchesFit, Initialized, At, Fits
<1>1. UNCHANGED <<disk, steering, trackVars, turnVars, consumer, victim, accepted, histVars>>
  BY DEF Initialized
<1>2. a \in AgentRec /\ a.flight = None
  BY <1>0 DEF Loaded, AgentRec, PromptOrNone
<1>3. agent' = [agent EXCEPT ![s] = a] /\ loading' = [loading EXCEPT ![s] = None] /\ Proceeds(s, agent'[s])
  BY Zenon DEF Initialized
<1> HIDE DEF a
<1>4. /\ agent' \in [Sessions -> AgentRec] /\ agent'[s] = a
      /\ loading' \in [Sessions -> Seq(Prompts) \cup {None}]
      /\ \A t \in Sessions \ {s} : agent'[t] = agent[t] /\ loading'[t] = loading[t]
  BY <1>0, <1>2, <1>3
<1>5. Proceeds(s, a)
  BY <1>3, <1>4, Zenon
<1>6. LaunchesFit' /\ SlotInv' /\ ReqInv'
  BY <1>0, <1>1, <1>2, <1>4, <1>5, ProceedsKeeps
<1>7. DiskInv' /\ SetInv'
  BY <1>1, SetsKept DEF HInv, DiskInv, turnVars, trackVars, histVars
<1>8. TurnInv'
  <2>1. Append(events, Ev("opdone", s)) \in Seq(EvRec)
    BY <1>0, EventsPut DEF TurnInv, EvKinds
  <2>2. events' \in Seq(EvRec)
    BY <2>1, Zenon DEF Initialized
  <2> QED BY <1>0, <1>1, <2>2 DEF TurnInv, turnVars
<1> QED BY <1>6, <1>7, <1>8 DEF HInv

LEMMA InitFailsKeeps == ASSUME HInv, NEW s \in Sessions, InitFails(s) PROVE HInv'
<1>0. /\ LaunchesFit /\ SlotInv /\ ReqInv /\ TurnInv
      /\ agent \in [Sessions -> AgentRec] /\ loading \in [Sessions -> Seq(Prompts) \cup {None}]
      /\ Fits(launch[s], agent[s], loading[s]) /\ launch[s].pc = "loading" /\ launch[s].p \in Prompts
      /\ agent[s] \in AgentRec /\ agent[s].flight = None
  BY DEF HInv, LaunchesFit, InitFails, At, Fits
<1>1. /\ UNCHANGED <<disk, agent, steering, trackVars, op, foreign, consumer, victim, accepted,
                     crashes, withdrawn, replaced, marked>>
      /\ loading' = [loading EXCEPT ![s] = None] /\ events' = events \o <<Ev("error", s), Ev("opdone", s)>>
      /\ settled' = settled \cup {launch[s].p} /\ Ends(s, agent[s])
  BY DEF InitFails
<1>2. /\ loading' \in [Sessions -> Seq(Prompts) \cup {None}]
      /\ \A t \in Sessions \ {s} : loading'[t] = loading[t]
  BY <1>0, <1>1
<1>3. LaunchesFit' /\ SlotInv' /\ ReqInv'
  BY <1>0, <1>1, <1>2, EndsKeeps, EndsRequests
<1>4. TurnInv'
  <2>1. events \o <<Ev("error", s), Ev("opdone", s)>> \in Seq(EvRec)
    BY <1>0, EventsPut DEF TurnInv, EvKinds
  <2>2. events' \in Seq(EvRec)
    BY <1>1, <2>1, Zenon
  <2>3. op' = op /\ consumer' = consumer
    BY <1>1
  <2> QED BY <1>0, <2>2, <2>3 DEF TurnInv
<1>5. DiskInv' /\ SetInv'
  BY <1>0, <1>1 DEF HInv, DiskInv, SetInv, trackVars
<1> QED BY <1>3, <1>4, <1>5 DEF HInv

LEMMA OpTyped ==
  ASSUME op \in [Sessions -> OpRec], NEW s \in Sessions, NEW x \in OpRec, op' = [op EXCEPT ![s] = x]
  PROVE  op' \in [Sessions -> OpRec]
OBVIOUS

LEMMA CompactsKeeps == ASSUME HInv, NEW s \in Sessions, Compacts(s) PROVE HInv'
<1>0. /\ LaunchesFit /\ SlotInv /\ ReqInv /\ TurnInv
      /\ agent \in [Sessions -> AgentRec] /\ loading \in [Sessions -> Seq(Prompts) \cup {None}]
      /\ Fits(launch[s], agent[s], loading[s]) /\ launch[s].pc = "compact"
      /\ launch[s].kind = "follow_up" /\ agent[s].flight = None
  BY DEF HInv, LaunchesFit, Compacts, At, Fits
<1>1. UNCHANGED <<disk, agent, loading, runVars, steering, trackVars, foreign, faults, events, consumer,
                  reqVars, histVars>>
  BY DEF Compacts
<1>2. PICK pc \in {"recheck", "compacting"} : Goes(s, pc)
  BY DEF Compacts
<1>3. LaunchesFit' /\ SlotInv'
  BY <1>0, <1>1, <1>2, GoesKeeps DEF Pcs
<1>4. TurnInv'
  <2> DEFINE x == [st |-> "active", p |-> None]
  <2>1. op' = op \/ op' = [op EXCEPT ![s] = x]
    BY DEF Compacts
  <2>2. x \in OpRec
    BY DEF OpRec, PromptOrNone
  <2> HIDE DEF x
  <2>3. op' \in [Sessions -> OpRec]
    BY <1>0, <2>1, <2>2, OpTyped DEF TurnInv
  <2> QED BY <1>0, <1>1, <2>3 DEF TurnInv
<1>5. DiskInv' /\ SetInv' /\ ReqInv'
  BY <1>1, SetsKept, RequestStays, LockIs DEF HInv, DiskInv, trackVars, histVars, reqVars
<1> QED BY <1>3, <1>4, <1>5 DEF HInv

LEMMA NoOpTyped == NoOp \in OpRec
BY DEF NoOp, OpRec, PromptOrNone

LEMMA RechecksKeeps == ASSUME HInv, NEW s \in Sessions, Rechecks(s) PROVE HInv'
<1>0. /\ LaunchesFit /\ SlotInv /\ ReqInv /\ TurnInv
      /\ agent \in [Sessions -> AgentRec] /\ loading \in [Sessions -> Seq(Prompts) \cup {None}]
      /\ Fits(launch[s], agent[s], loading[s]) /\ launch[s].pc \in {"recheck", "compacting"}
      /\ launch[s].kind = "follow_up" /\ agent[s].flight = None /\ agent[s] \in AgentRec
  BY DEF HInv, LaunchesFit, Rechecks, At, Fits
<1>1. /\ UNCHANGED <<disk, agent, loading, steering, trackVars, foreign, faults, events, consumer, victim,
                     accepted, histVars>>
      /\ op' = [op EXCEPT ![s] = NoOp]
  BY DEF Rechecks
<1>2. ASSUME Ends(s, agent[s]) PROVE LaunchesFit' /\ SlotInv' /\ ReqInv'
  BY <1>0, <1>1, <1>2, EndsKeeps, EndsRequests
<1>3. ASSUME Goes(s, "begin"), UNCHANGED <<runVars, req, lock>> PROVE LaunchesFit' /\ SlotInv' /\ ReqInv'
  BY <1>0, <1>1, <1>3, GoesKeeps, RequestStays, LockIs DEF Pcs
<1>4. LaunchesFit' /\ SlotInv' /\ ReqInv'
  BY <1>2, <1>3, Zenon DEF Rechecks
<1>5. TurnInv'
  <2>1. op' \in [Sessions -> OpRec]
    BY <1>0, <1>1, OpTyped, NoOpTyped DEF TurnInv
  <2> QED BY <1>0, <1>1, <2>1 DEF TurnInv
<1>6. DiskInv' /\ SetInv'
  BY <1>1, SetsKept DEF HInv, DiskInv, trackVars, histVars
<1> QED BY <1>4, <1>5, <1>6 DEF HInv

LEMMA BeginsKeeps == ASSUME HInv, NEW s \in Sessions, Begins(s) PROVE HInv'
<1> DEFINE a == Begin(agent[s])
           id == Peek(agent[s])
<1>0. /\ LaunchesFit /\ SlotInv /\ ReqInv /\ TurnInv /\ launch \in [Sessions -> LaunchRec]
      /\ agent \in [Sessions -> AgentRec] /\ loading \in [Sessions -> Seq(Prompts) \cup {None}]
      /\ Fits(launch[s], agent[s], loading[s]) /\ launch[s].pc = "begin"
      /\ launch[s].kind = "follow_up" /\ agent[s].flight = None /\ agent[s] \in AgentRec
  BY DEF HInv, LaunchesFit, Begins, At, Fits
<1>1. UNCHANGED <<disk, loading, steering, trackVars, turnVars, consumer, victim, accepted, histVars>>
  BY DEF Begins
<1>2. ASSUME id # None, agent' = [agent EXCEPT ![s] = a],
             launch' = [launch EXCEPT ![s].pc = "unfail", ![s].p = id],
             events' = IF agent'[s].mem = <<>> THEN events ELSE Append(events, Ev("queued", s)),
             UNCHANGED <<runVars, req, lock>>
      PROVE  LaunchesFit' /\ SlotInv' /\ ReqInv' /\ TurnInv'
  <2>1. id \in Prompts /\ id = Head(agent[s].mem) /\ Tail(agent[s].mem) \in Seq(Prompts)
    BY <1>0, <1>2, PeekIs
  <2>2. a \in AgentRec /\ a.flight = id
    BY <1>0, <2>1 DEF Begin, AgentRec, PromptOrNone
  <2> HIDE DEF a, id
  <2>3. /\ launch' \in [Sessions -> LaunchRec] /\ launch'[s].pc = "unfail" /\ launch'[s].p = id
        /\ launch'[s].kind = "follow_up" /\ \A t \in Sessions \ {s} : launch'[t] = launch[t]
    <3>1. launch[s] \in LaunchRec /\ id \in PromptOrNone
      BY <1>0, <2>1 DEF PromptOrNone
    <3> DEFINE x == [launch[s] EXCEPT !.pc = "unfail", !.p = id]
    <3>2. x \in LaunchRec /\ x.pc = "unfail" /\ x.p = id /\ x.kind = launch[s].kind
      BY <3>1 DEF LaunchRec, Pcs
    <3>3. launch' = [launch EXCEPT ![s] = x]
      BY <1>0, <1>2
    <3> HIDE DEF x
    <3> QED BY <1>0, <3>2, <3>3
  <2>4. agent' \in [Sessions -> AgentRec] /\ agent'[s] = a /\ \A t \in Sessions \ {s} : agent'[t] = agent[t]
    BY <1>0, <1>2, <2>2
  <2>5. Fits(launch'[s], agent'[s], loading'[s])
    <3>1. launch'[s] \in LaunchRec /\ loading'[s] \in Seq(Prompts) \cup {None}
      BY <1>0, <1>1, <2>3
    <3> QED BY <2>1, <2>2, <2>3, <2>4, <3>1 DEF Fits
  <2>6. LaunchesFit'
    BY <1>0, <1>1, <2>3, <2>4, <2>5, OneChanges
  <2>7. SlotInv'
    BY <1>0, <1>2, <2>3, LaunchMoves
  <2>8. ReqInv'
    BY <1>0, <1>1, <1>2, RequestStays, LockIs
  <2>9. TurnInv'
    <3>1. Append(events, Ev("queued", s)) \in Seq(EvRec)
      BY <1>0, EventsPut DEF TurnInv, EvKinds
    <3>2. events' \in Seq(EvRec)
      BY <1>0, <1>2, <3>1, Zenon DEF TurnInv
    <3>3. op' = op /\ consumer' = consumer
      BY <1>1 DEF turnVars
    <3> QED BY <1>0, <3>2, <3>3 DEF TurnInv
  <2> QED BY <2>6, <2>7, <2>8, <2>9
<1>3. ASSUME Ends(s, agent[s]), UNCHANGED <<agent, events>>
      PROVE  LaunchesFit' /\ SlotInv' /\ ReqInv' /\ TurnInv'
  <2>1. TurnInv'
    BY <1>0, <1>1, <1>3 DEF TurnInv, turnVars
  <2> QED BY <1>0, <1>1, <1>3, <2>1, EndsKeeps, EndsRequests
<1>4. LaunchesFit' /\ SlotInv' /\ ReqInv' /\ TurnInv'
  BY <1>2, <1>3, Zenon DEF Begins
<1>5. DiskInv' /\ SetInv'
  BY <1>1, SetsKept DEF HInv, DiskInv, turnVars, trackVars, histVars
<1> QED BY <1>4, <1>5 DEF HInv

LEMMA SubmitsKeeps == ASSUME HInv, NEW s \in Sessions, Submits(s) PROVE HInv'
<1>0. /\ LaunchesFit /\ SlotInv /\ ReqInv /\ TurnInv /\ DiskInv
      /\ agent \in [Sessions -> AgentRec] /\ loading \in [Sessions -> Seq(Prompts) \cup {None}]
      /\ Fits(launch[s], agent[s], loading[s]) /\ launch[s].pc = "unfail" /\ launch[s].p \in Prompts
  BY DEF HInv, LaunchesFit, Submits, At, Fits
<1>1. /\ UNCHANGED <<agent, loading, runVars, steering, trackVars, foreign, faults, consumer, lock, victim,
                     accepted, histVars>>
      /\ Goes(s, "wait") /\ disk' = [disk EXCEPT ![s].failed = FALSE] /\ events' = Append(events, Ev("start", s))
      /\ op' = [op EXCEPT ![s] = [st |-> "accepted", p |-> launch[s].p]] /\ HandsOver(s)
  BY DEF Submits
<1>2. LaunchesFit' /\ SlotInv'
  BY <1>0, <1>1, GoesKeeps DEF Pcs, Fits
<1>3. DiskInv'
  BY <1>0, <1>1, DiskFailed
<1>4. ReqInv'
  BY <1>0, <1>1, HandedOver
<1>5. TurnInv'
  <2> DEFINE x == [st |-> "accepted", p |-> launch[s].p]
  <2>1. x \in OpRec /\ op' = [op EXCEPT ![s] = x]
    BY <1>0, <1>1 DEF OpRec, PromptOrNone
  <2> HIDE DEF x
  <2>2. op' \in [Sessions -> OpRec]
    BY <1>0, <2>1, OpTyped DEF TurnInv
  <2>3. Append(events, Ev("start", s)) \in Seq(EvRec)
    BY <1>0, EventsPut DEF TurnInv, EvKinds
  <2>4. events' \in Seq(EvRec)
    BY <1>1, <2>3, Zenon
  <2> QED BY <1>0, <1>1, <2>2, <2>4 DEF TurnInv
<1>6. SetInv'
  BY <1>1, SetsKept DEF HInv, trackVars, histVars
<1> QED BY <1>2, <1>3, <1>4, <1>5, <1>6 DEF HInv

\* A launch that raises leaves no head in flight.
LEMMA RaisesKeeps ==
  ASSUME LaunchesFit, DiskInv, NEW s \in Sessions, launch[s].pc # "none", Raises(s)
  PROVE  /\ DiskInv' /\ agent' \in [Sessions -> AgentRec] /\ agent'[s].flight = None
         /\ \A t \in Sessions \ {s} : agent'[t] = agent[t]
<1>0. /\ agent \in [Sessions -> AgentRec] /\ agent[s] \in AgentRec
      /\ Fits(launch[s], agent[s], loading[s]) /\ launch[s].p \in Prompts
  BY DEF LaunchesFit, Fits
<1>1. ASSUME launch[s].kind = "follow_up" /\ CanAbort(agent[s], launch[s].p), Saves(s, Abort(agent[s]))
      PROVE  /\ DiskInv' /\ agent' \in [Sessions -> AgentRec] /\ agent'[s].flight = None
             /\ \A t \in Sessions \ {s} : agent'[t] = agent[t]
  <2> DEFINE a == Abort(agent[s])
             r == <<agent[s].flight>> \o agent[s].mem
  <2>1. agent[s].flight \in Prompts /\ agent[s].mem \in Seq(Prompts)
    BY <1>0, <1>1 DEF CanAbort, AgentRec
  <2>2. r \in Seq(Prompts)
    BY <2>1
  <2>3. a = [agent[s] EXCEPT !.mem = r, !.flight = None]
    BY Zenon DEF Abort
  <2> HIDE DEF r
  <2>4. a \in AgentRec /\ a.flight = None
    BY <1>0, <2>2, <2>3 DEF AgentRec, PromptOrNone
  <2>5. Saves(s, a)
    BY <1>1
  <2> HIDE DEF a
  <2> QED BY <1>0, <2>4, <2>5, SavesKeeps
<1>2. ASSUME ~(launch[s].kind = "follow_up" /\ CanAbort(agent[s], launch[s].p)), UNCHANGED <<agent, disk>>
      PROVE  /\ DiskInv' /\ agent' \in [Sessions -> AgentRec] /\ agent'[s].flight = None
             /\ \A t \in Sessions \ {s} : agent'[t] = agent[t]
  <2>1. agent[s].flight = None
    BY <1>0, <1>2 DEF Fits, CanAbort
  <2> QED BY <1>0, <1>2, <2>1 DEF DiskInv
<1> QED BY <1>1, <1>2, Zenon DEF Raises

LEMMA AwaitsKeeps == ASSUME HInv, NEW s \in Sessions, Awaits(s) PROVE HInv'
<1>0. /\ LaunchesFit /\ SlotInv /\ ReqInv /\ TurnInv /\ DiskInv
      /\ agent \in [Sessions -> AgentRec] /\ loading \in [Sessions -> Seq(Prompts) \cup {None}]
      /\ Fits(launch[s], agent[s], loading[s]) /\ launch[s].pc = "wait" /\ launch[s].p \in Prompts
  BY DEF HInv, LaunchesFit, Awaits, At, Fits
<1>1. /\ UNCHANGED <<loading, runVars, steering, trackVars, foreign, faults, events, consumer, reqVars,
                     crashes, withdrawn, replaced, marked>>
      /\ op' = [op EXCEPT ![s] = NoOp]
      /\ settled' = IF op[s].st = "failed" THEN settled \cup {launch[s].p} ELSE settled
  BY DEF Awaits
<1>2. ASSUME Goes(s, "flush"), UNCHANGED <<agent, disk>> PROVE LaunchesFit' /\ SlotInv' /\ DiskInv'
  <2>1. LaunchesFit' /\ SlotInv'
    BY <1>0, <1>1, <1>2, GoesKeeps DEF Pcs, Fits
  <2> QED BY <1>0, <1>2, <2>1 DEF DiskInv
<1>3. ASSUME Goes(s, "failing"), Raises(s) PROVE LaunchesFit' /\ SlotInv' /\ DiskInv'
  <2>1. /\ DiskInv' /\ agent' \in [Sessions -> AgentRec] /\ agent'[s].flight = None
        /\ \A t \in Sessions \ {s} : agent'[t] = agent[t]
    BY <1>0, <1>3, RaisesKeeps
  <2> QED BY <1>0, <1>1, <1>3, <2>1, GoesKeeps DEF Pcs
<1>4. LaunchesFit' /\ SlotInv' /\ DiskInv'
  BY <1>2, <1>3, Zenon DEF Awaits
<1>5. TurnInv'
  <2>1. op' \in [Sessions -> OpRec]
    BY <1>0, <1>1, OpTyped, NoOpTyped DEF TurnInv
  <2> QED BY <1>0, <1>1, <2>1 DEF TurnInv
<1>6. SetInv'
  BY <1>0, <1>1 DEF HInv, SetInv, trackVars, reqVars
<1>7. ReqInv'
  BY <1>0, <1>1, RequestStays, LockIs DEF reqVars
<1> QED BY <1>4, <1>5, <1>6, <1>7 DEF HInv

LEMMA FlushesKeeps == ASSUME HInv, NEW s \in Sessions, Flushes(s) PROVE HInv'
<1>0. /\ LaunchesFit /\ SlotInv /\ ReqInv /\ TurnInv /\ DiskInv /\ SetInv
      /\ agent \in [Sessions -> AgentRec] /\ loading \in [Sessions -> Seq(Prompts) \cup {None}]
      /\ Fits(launch[s], agent[s], loading[s]) /\ launch[s].pc = "flush" /\ launch[s].p \in Prompts
  BY DEF HInv, LaunchesFit, Flushes, At, Fits
<1>1. UNCHANGED <<loading, runVars, steering, trackVars, turnVars, events, consumer, reqVars, crashes,
                  withdrawn, replaced, marked>>
  BY DEF Flushes
<1>2. ASSUME Goes(s, "mark"), UNCHANGED <<agent, disk, settled>>
      PROVE  LaunchesFit' /\ SlotInv' /\ DiskInv' /\ settled' \subseteq Prompts
  <2>1. LaunchesFit' /\ SlotInv'
    BY <1>0, <1>1, <1>2, GoesKeeps DEF Pcs, Fits
  <2> QED BY <1>0, <1>2, <2>1 DEF DiskInv, SetInv
<1>3. ASSUME Goes(s, "failing"), Raises(s), settled' = settled \cup {launch[s].p}
      PROVE  LaunchesFit' /\ SlotInv' /\ DiskInv' /\ settled' \subseteq Prompts
  <2>1. /\ DiskInv' /\ agent' \in [Sessions -> AgentRec] /\ agent'[s].flight = None
        /\ \A t \in Sessions \ {s} : agent'[t] = agent[t]
    BY <1>0, <1>3, RaisesKeeps
  <2>2. LaunchesFit' /\ SlotInv'
    BY <1>0, <1>1, <1>3, <2>1, GoesKeeps DEF Pcs
  <2> QED BY <1>0, <1>3, <2>1, <2>2 DEF SetInv
<1>4. LaunchesFit' /\ SlotInv' /\ DiskInv' /\ settled' \subseteq Prompts
  BY <1>2, <1>3, Zenon DEF Flushes
<1>5. TurnInv' /\ SetInv'
  BY <1>0, <1>1, <1>4 DEF TurnInv, SetInv, turnVars, trackVars, reqVars
<1>6. ReqInv'
  BY <1>0, <1>1, RequestStays, LockIs DEF reqVars
<1> QED BY <1>4, <1>5, <1>6 DEF HInv

LEMMA MarksKeeps == ASSUME HInv, NEW s \in Sessions, Marks(s) PROVE HInv'
<1>0. /\ LaunchesFit /\ SlotInv /\ ReqInv /\ TurnInv /\ DiskInv /\ SetInv
      /\ agent \in [Sessions -> AgentRec] /\ loading \in [Sessions -> Seq(Prompts) \cup {None}]
      /\ Fits(launch[s], agent[s], loading[s]) /\ launch[s].pc = "mark" /\ launch[s].p \in Prompts
  BY DEF HInv, LaunchesFit, Marks, At, Fits
<1>1. /\ UNCHANGED <<agent, loading, runVars, steering, trackVars, turnVars, events, consumer, reqVars,
                     crashes, withdrawn, replaced>>
      /\ Goes(s, "marked") /\ disk' = [disk EXCEPT ![s].done = launch[s].p]
      /\ marked' = marked \cup {launch[s].p} /\ settled' = settled \cup {launch[s].p}
  BY DEF Marks
<1>2. LaunchesFit' /\ SlotInv'
  BY <1>0, <1>1, GoesKeeps DEF Pcs, Fits
<1>3. DiskInv'
  BY <1>0, <1>1, DiskDone DEF PromptOrNone
<1>4. TurnInv' /\ SetInv'
  BY <1>0, <1>1 DEF TurnInv, SetInv, turnVars, trackVars, reqVars
<1>5. ReqInv'
  BY <1>0, <1>1, RequestStays, LockIs DEF reqVars
<1> QED BY <1>2, <1>3, <1>4, <1>5 DEF HInv

LEMMA AcknowledgesKeeps == ASSUME HInv, NEW s \in Sessions, Acknowledges(s) PROVE HInv'
<1>0. /\ LaunchesFit /\ SlotInv /\ ReqInv /\ TurnInv /\ DiskInv
      /\ agent \in [Sessions -> AgentRec] /\ loading \in [Sessions -> Seq(Prompts) \cup {None}]
      /\ Fits(launch[s], agent[s], loading[s]) /\ launch[s].pc = "marked" /\ launch[s].p \in Prompts
      /\ agent[s] \in AgentRec
  BY DEF HInv, LaunchesFit, Acknowledges, At, Fits
<1>1. /\ UNCHANGED <<loading, steering, trackVars, turnVars, events, consumer, victim, accepted, histVars>>
      /\ Ends(s, agent'[s])
  BY Zenon DEF Acknowledges
<1>2. /\ DiskInv' /\ agent' \in [Sessions -> AgentRec] /\ agent'[s].flight = None
      /\ \A t \in Sessions \ {s} : agent'[t] = agent[t]
  <2>1. ASSUME CanAcknowledge(agent[s], launch[s].p), Saves(s, Acknowledge(agent[s], launch[s].p))
        PROVE  /\ DiskInv' /\ agent' \in [Sessions -> AgentRec] /\ agent'[s].flight = None
               /\ \A t \in Sessions \ {s} : agent'[t] = agent[t]
    <3> DEFINE a == Acknowledge(agent[s], launch[s].p)
    <3>1. a \in AgentRec /\ a.flight = None
      <4>1. CASE agent[s].flight = launch[s].p
        BY <1>0, <4>1 DEF Acknowledge, AgentRec, PromptOrNone
      <4>2. CASE agent[s].flight # launch[s].p
        <5>1. agent[s].flight = None /\ Peek(agent[s]) = launch[s].p /\ launch[s].p # None
          BY <1>0, <2>1, <4>2, NoneApart DEF CanAcknowledge, Fits
        <5>2. Tail(agent[s].mem) \in Seq(Prompts)
          BY <1>0, <5>1, PeekIs
        <5> QED BY <1>0, <4>2, <5>1, <5>2 DEF Acknowledge, AgentRec
      <4> QED BY <4>1, <4>2
    <3>2. Saves(s, a)
      BY <2>1
    <3> HIDE DEF a
    <3> QED BY <1>0, <3>1, <3>2, SavesKeeps
  <2>2. ASSUME ~CanAcknowledge(agent[s], launch[s].p), UNCHANGED <<agent, disk>>
        PROVE  /\ DiskInv' /\ agent' \in [Sessions -> AgentRec] /\ agent'[s].flight = None
               /\ \A t \in Sessions \ {s} : agent'[t] = agent[t]
    <3>1. agent[s].flight = None
      BY <1>0, <2>2 DEF Fits, CanAcknowledge
    <3> QED BY <1>0, <2>2, <3>1 DEF DiskInv
  <2> QED BY <2>1, <2>2, Zenon DEF Acknowledges
<1>3. agent'[s] \in AgentRec
  BY <1>2
<1>4. LaunchesFit' /\ SlotInv' /\ ReqInv'
  BY <1>0, <1>1, <1>2, <1>3, EndsKeeps, EndsRequests
<1>5. TurnInv' /\ SetInv'
  BY <1>1, SetsKept DEF HInv, TurnInv, turnVars, trackVars, histVars
<1> QED BY <1>2, <1>4, <1>5 DEF HInv

LEMMA LocksToClearKeeps == ASSUME HInv, NEW s \in Sessions, LocksToClear(s) PROVE HInv'
<1>0. /\ LaunchesFit /\ SlotInv /\ ReqInv /\ TurnInv
      /\ agent \in [Sessions -> AgentRec] /\ loading \in [Sessions -> Seq(Prompts) \cup {None}]
      /\ Fits(launch[s], agent[s], loading[s]) /\ launch[s].pc = "marked" /\ launch[s].kind # "follow_up"
      /\ agent[s].flight = None
  BY DEF HInv, LaunchesFit, LocksToClear, At, Fits
<1>1. /\ UNCHANGED <<disk, agent, loading, runVars, steering, trackVars, turnVars, events, consumer, req,
                     victim, accepted, histVars>>
      /\ lock' = [lock EXCEPT ![s] = "launch"] /\ Goes(s, "clear")
  BY DEF LocksToClear
<1>2. LaunchesFit' /\ SlotInv'
  BY <1>0, <1>1, GoesKeeps DEF Pcs
<1>3. ReqInv'
  BY <1>0, <1>1, RequestStays, LocksTyped, LockIs
<1>4. DiskInv' /\ TurnInv' /\ SetInv'
  BY <1>1, SetsKept DEF HInv, DiskInv, TurnInv, turnVars, trackVars, histVars
<1> QED BY <1>2, <1>3, <1>4 DEF HInv

LEMMA ClearsKeeps == ASSUME HInv, NEW s \in Sessions, Clears(s) PROVE HInv'
<1>0. /\ LaunchesFit /\ SlotInv /\ ReqInv /\ TurnInv /\ DiskInv
      /\ agent \in [Sessions -> AgentRec] /\ loading \in [Sessions -> Seq(Prompts) \cup {None}]
      /\ Fits(launch[s], agent[s], loading[s]) /\ launch[s].pc = "clear"
      /\ agent[s].flight = None /\ agent[s] \in AgentRec
  BY DEF HInv, LaunchesFit, Clears, At, Fits
<1>1. /\ UNCHANGED <<agent, loading, steering, trackVars, turnVars, events, consumer, victim, accepted, histVars>>
      /\ Ends(s, agent[s]) /\ disk' = Cleared(s)
  BY DEF Clears
<1>2. LaunchesFit' /\ SlotInv' /\ ReqInv'
  BY <1>0, <1>1, EndsKeeps, EndsRequests
<1>3. DiskInv'
  <2>1. disk' = [disk EXCEPT ![s].turn = None] \/ disk' = disk
    BY <1>1 DEF Cleared
  <2>2. CASE disk' = [disk EXCEPT ![s].turn = None]
    BY <1>0, <2>2, DiskTurn DEF PromptOrNone
  <2>3. CASE disk' = disk
    BY <1>0, <2>3 DEF DiskInv
  <2> QED BY <2>1, <2>2, <2>3
<1>4. TurnInv' /\ SetInv'
  BY <1>1, SetsKept DEF HInv, TurnInv, turnVars, trackVars, histVars
<1> QED BY <1>2, <1>3, <1>4 DEF HInv

LEMMA FailsKeeps == ASSUME HInv, NEW s \in Sessions, Fails(s) PROVE HInv'
<1>0. /\ LaunchesFit /\ SlotInv /\ ReqInv /\ TurnInv /\ DiskInv
      /\ agent \in [Sessions -> AgentRec] /\ loading \in [Sessions -> Seq(Prompts) \cup {None}]
      /\ Fits(launch[s], agent[s], loading[s]) /\ launch[s].pc = "failing"
      /\ agent[s].flight = None /\ agent[s] \in AgentRec
  BY DEF HInv, LaunchesFit, Fails, At, Fits
<1>1. /\ UNCHANGED <<agent, loading, steering, trackVars, turnVars, events, consumer, victim, accepted, histVars>>
      /\ Ends(s, agent[s]) /\ disk' = [disk EXCEPT ![s].failed = TRUE]
  BY DEF Fails
<1>2. LaunchesFit' /\ SlotInv' /\ ReqInv'
  BY <1>0, <1>1, EndsKeeps, EndsRequests
<1>3. DiskInv'
  BY <1>0, <1>1, DiskFailed
<1>4. TurnInv' /\ SetInv'
  BY <1>1, SetsKept DEF HInv, TurnInv, turnVars, trackVars, histVars
<1> QED BY <1>2, <1>3, <1>4 DEF HInv

-----------------------------------------------------------------------------
(* The actor's operations and the consumer.                                  *)

\* Two sequences of events are put one after the other.
LEMMA TwoPut ==
  ASSUME events \in Seq(EvRec), NEW s \in Sessions,
         events' = events \o (IF op[s].p = None THEN <<>> ELSE <<Ev("finish", s)>>) \o <<Ev("opdone", s)>>
  PROVE  events' \in Seq(EvRec)
<1>0. "finish" \in EvKinds
  BY DEF EvKinds
<1>1. CASE op[s].p = None
  <2>1. events' = events \o <<>> \o <<Ev("opdone", s)>>
    BY <1>1
  <2>2. events \o <<>> \o <<Ev("opdone", s)>> \in Seq(EvRec)
    BY <1>0, EventsPut
  <2> QED BY <2>1, <2>2, Zenon
<1>2. CASE op[s].p # None
  <2>1. events' = events \o <<Ev("finish", s)>> \o <<Ev("opdone", s)>>
    BY <1>2
  <2>2. events \o <<Ev("finish", s)>> \o <<Ev("opdone", s)>> \in Seq(EvRec)
    BY <1>0, EventsPut
  <2> QED BY <2>1, <2>2, Zenon
<1> QED BY <1>1, <1>2

LEMMA PairPut ==
  ASSUME events \in Seq(EvRec), NEW s \in Sessions, NEW kind \in {"error", "finish"},
         events' = events \o <<Ev(kind, s), Ev("opdone", s)>>
  PROVE  events' \in Seq(EvRec)
<1>1. events \o <<Ev(kind, s), Ev("opdone", s)>> \in Seq(EvRec)
  BY EventsPut DEF EvKinds
<1> QED BY <1>1, Zenon

LEMMA OnePut ==
  ASSUME events \in Seq(EvRec), NEW s \in Sessions, NEW kind \in EvKinds,
         events' = Append(events, Ev(kind, s))
  PROVE  events' \in Seq(EvRec)
<1>1. Append(events, Ev(kind, s)) \in Seq(EvRec)
  BY EventsPut
<1> QED BY <1>1, Zenon

LEMMA OpStatus ==
  ASSUME op \in [Sessions -> OpRec], NEW s \in Sessions,
         NEW x \in {"none", "accepted", "active", "cancelling", "completed", "failed", "rejected"},
         op' = [op EXCEPT ![s].st = x]
  PROVE  op' \in [Sessions -> OpRec]
BY DEF OpRec

LEMMA OpStartsKeeps == ASSUME HInv, NEW s \in Sessions, OpStarts(s) PROVE HInv'
<1>0. op \in [Sessions -> OpRec] /\ events \in Seq(EvRec) /\ consumer \in Sessions \cup {None}
  BY DEF HInv, TurnInv
<1>1. UNCHANGED <<disk, agent, loading, runVars, steering, trackVars, launch, foreign, consumer, reqVars,
                  histVars>>
  BY DEF OpStarts
<1>2. ASSUME op' = [op EXCEPT ![s].st = "rejected"], UNCHANGED events PROVE TurnInv'
  <2>1. op' \in [Sessions -> OpRec]
    BY <1>0, <1>2, OpStatus
  <2> QED BY <1>0, <1>1, <1>2, <2>1 DEF TurnInv
<1>3. ASSUME op' = [op EXCEPT ![s].st = "active"], events' = Append(events, Ev("start", s)) PROVE TurnInv'
  <2>1. op' \in [Sessions -> OpRec]
    BY <1>0, <1>3, OpStatus
  <2>2. events' \in Seq(EvRec)
    BY <1>0, <1>3, OnePut DEF EvKinds
  <2> QED BY <1>0, <1>1, <2>1, <2>2 DEF TurnInv
<1>4. TurnInv'
  BY <1>2, <1>3, Zenon DEF OpStarts
<1>5. LaunchesFit' /\ SlotInv'
  BY <1>1, NothingStarts DEF HInv
<1>6. DiskInv' /\ SetInv'
  BY <1>1, SetsKept DEF HInv, DiskInv, reqVars, trackVars, histVars
<1>7. ReqInv'
  BY <1>1, RequestStays, LockIs DEF HInv, reqVars
<1> QED BY <1>4, <1>5, <1>6, <1>7 DEF HInv

LEMMA OpEndsKeeps == ASSUME HInv, NEW s \in Sessions, OpEnds(s) PROVE HInv'
<1>0. op \in [Sessions -> OpRec] /\ events \in Seq(EvRec) /\ consumer \in Sessions \cup {None}
  BY DEF HInv, TurnInv
<1>1. UNCHANGED <<disk, agent, loading, runVars, steering, trackVars, launch, foreign, consumer, reqVars,
                  histVars>>
  BY DEF OpEnds
<1>2. ASSUME op' = [op EXCEPT ![s].st = "completed"],
             events' = events \o (IF op[s].p = None THEN <<>> ELSE <<Ev("finish", s)>>) \o <<Ev("opdone", s)>>
      PROVE  TurnInv'
  <2>1. op' \in [Sessions -> OpRec]
    BY <1>0, <1>2, OpStatus
  <2>2. events' \in Seq(EvRec)
    BY <1>0, <1>2, TwoPut
  <2> QED BY <1>0, <1>1, <2>1, <2>2 DEF TurnInv
<1>3. ASSUME NEW st \in {"completed", "failed"}, op' = [op EXCEPT ![s].st = st],
             events' = events \o <<Ev("error", s), Ev("opdone", s)>>
      PROVE  TurnInv'
  <2>1. op' \in [Sessions -> OpRec]
    BY <1>0, <1>3, OpStatus
  <2>2. events' \in Seq(EvRec)
    BY <1>0, <1>3, PairPut
  <2> QED BY <1>0, <1>1, <2>1, <2>2 DEF TurnInv
<1>4. TurnInv'
  BY <1>2, <1>3, Zenon DEF OpEnds
<1>5. LaunchesFit' /\ SlotInv'
  BY <1>1, NothingStarts DEF HInv
<1>6. DiskInv' /\ SetInv'
  BY <1>1, SetsKept DEF HInv, DiskInv, reqVars, trackVars, histVars
<1>7. ReqInv'
  BY <1>1, RequestStays, LockIs DEF HInv, reqVars
<1> QED BY <1>4, <1>5, <1>6, <1>7 DEF HInv

LEMMA ForeignStartsKeeps == ASSUME HInv, NEW s \in Sessions, ForeignStarts(s) PROVE HInv'
<1>0. op \in [Sessions -> OpRec] /\ events \in Seq(EvRec) /\ consumer \in Sessions \cup {None} /\ SetInv
  BY DEF HInv, TurnInv
<1>1. /\ UNCHANGED <<disk, agent, loading, runVars, steering, trackVars, launch, op, consumer, reqVars, histVars>>
      /\ foreign' = foreign \cup {s} /\ events' = Append(events, Ev("start", s))
  BY DEF ForeignStarts
<1>2. events' \in Seq(EvRec)
  BY <1>0, <1>1, OnePut DEF EvKinds
<1>3. TurnInv' /\ SetInv'
  BY <1>0, <1>1, <1>2 DEF TurnInv, SetInv, reqVars, trackVars, histVars
<1>4. LaunchesFit' /\ SlotInv'
  BY <1>1, NothingStarts DEF HInv
<1>5. DiskInv' /\ ReqInv'
  BY <1>1, RequestStays, LockIs DEF HInv, DiskInv, reqVars
<1> QED BY <1>3, <1>4, <1>5 DEF HInv

LEMMA ForeignEndsKeeps == ASSUME HInv, NEW s \in Sessions, ForeignEnds(s) PROVE HInv'
<1>0. op \in [Sessions -> OpRec] /\ events \in Seq(EvRec) /\ consumer \in Sessions \cup {None} /\ SetInv
  BY DEF HInv, TurnInv
<1>1. /\ UNCHANGED <<disk, agent, loading, runVars, steering, trackVars, launch, op, consumer, reqVars, histVars>>
      /\ foreign' = foreign \ {s}
      /\ \E kind \in {"error", "finish"} : events' = events \o <<Ev(kind, s), Ev("opdone", s)>>
  BY DEF ForeignEnds
<1>2. events' \in Seq(EvRec)
  BY <1>0, <1>1, PairPut
<1>3. TurnInv' /\ SetInv'
  BY <1>0, <1>1, <1>2 DEF TurnInv, SetInv, reqVars, trackVars, histVars
<1>4. LaunchesFit' /\ SlotInv'
  BY <1>1, NothingStarts DEF HInv
<1>5. DiskInv' /\ ReqInv'
  BY <1>1, RequestStays, LockIs DEF HInv, DiskInv, reqVars
<1> QED BY <1>3, <1>4, <1>5 DEF HInv

LEMMA ConsumesKeeps == ASSUME HInv, Consumes PROVE HInv'
<1> DEFINE e == Head(events)
           h == Drained(Now, e.s, stopped, failed', agent[e.s], Held)
<1>0. /\ op \in [Sessions -> OpRec] /\ events \in Seq(EvRec) /\ events # <<>> /\ SetInv
      /\ launch \in [Sessions -> LaunchRec] /\ Settled(Now, launch) /\ LaunchesFit /\ ReqInv
      /\ agent \in [Sessions -> AgentRec]
  BY DEF HInv, TurnInv, Consumes, SlotInv, LaunchesFit
<1>1. e \in EvRec /\ Tail(events) \in Seq(EvRec)
  BY <1>0
<1>2. e.s \in Sessions
  BY <1>1 DEF EvRec
<1>3. /\ UNCHANGED <<disk, agent, loading, steering, stopped, turnVars, reqVars, histVars>>
      /\ events' = Tail(events) /\ Tracks(e) /\ Persists(e)
      /\ Schedules(IF Triggers(e) THEN h ELSE Now, launch)
  BY DEF Consumes
<1> HIDE DEF e
<1>4. LaunchesFit' /\ SlotInv'
  <2>1. CASE Triggers(e)
    <3>1. Schedules(h, launch) /\ agent[e.s] \in AgentRec
      BY <1>0, <1>2, <1>3, <2>1
    <3>2. /\ launch' \in [Sessions -> LaunchRec] /\ SlotInv'
          /\ \A t \in Sessions : launch'[t] = launch[t] \/ (launch[t] = NoLaunch /\ launch'[t] \in StartRec)
      BY <1>0, <1>2, <3>1, DrainScheduled
    <3> QED BY <1>0, <1>3, <3>2, SomeStart
  <2>2. CASE ~Triggers(e)
    <3>1. Schedules(Now, launch)
      BY <1>3, <2>2
    <3>2. /\ launch' \in [Sessions -> LaunchRec] /\ SlotInv'
          /\ \A t \in Sessions : launch'[t] = launch[t] \/ (launch[t] = NoLaunch /\ launch'[t] \in StartRec)
      BY <1>0, <3>1, SettledScheduled
    <3> QED BY <1>0, <1>3, <3>2, SomeStart
  <2> QED BY <2>1, <2>2
<1>5. failed' \subseteq failed \cup {e.s} /\ interrupted' \subseteq interrupted \cup {e.s}
  BY <1>3 DEF Tracks
<1>6. SetInv'
  BY <1>0, <1>2, <1>3, <1>5 DEF SetInv, turnVars, reqVars, histVars
<1>7. TurnInv'
  <2>1. consumer' \in Sessions \cup {None}
    BY <1>2, <1>3 DEF Persists
  <2> QED BY <1>0, <1>1, <1>3, <2>1 DEF TurnInv, turnVars, e
<1>8. DiskInv' /\ ReqInv'
  BY <1>0, <1>3, RequestStays, LockIs DEF HInv, DiskInv, reqVars
<1> QED BY <1>4, <1>6, <1>7, <1>8 DEF HInv

LEMMA ConsumerPersistsKeeps == ASSUME HInv, ConsumerPersists PROVE HInv'
<1>0. DiskInv /\ consumer \in Sessions
  BY DEF HInv, TurnInv, ConsumerPersists
<1>1. /\ UNCHANGED <<agent, loading, runVars, steering, trackVars, launch, turnVars, events, reqVars, histVars>>
      /\ consumer' = None /\ disk' = [disk EXCEPT ![consumer].failed = TRUE]
  BY DEF ConsumerPersists
<1>2. DiskInv'
  BY <1>0, <1>1, DiskFailed
<1>3. LaunchesFit' /\ SlotInv'
  BY <1>1, NothingStarts DEF HInv
<1>4. TurnInv' /\ SetInv'
  BY <1>1, SetsKept DEF HInv, TurnInv, turnVars, reqVars, trackVars, histVars
<1>5. ReqInv'
  BY <1>1, RequestStays, LockIs DEF HInv, reqVars
<1> QED BY <1>2, <1>3, <1>4, <1>5 DEF HInv

-----------------------------------------------------------------------------
(* A crash and the restore.                                                  *)

\* What is restored is an entry, one of a session, and finitely many.
LEMMA RestoredIs ==
  ASSUME NEW d, d \in [Sessions -> DiskRec]
  PROVE  /\ RestoredEntries(d) \subseteq Entry /\ IsFiniteSet(RestoredEntries(d))
         /\ \A x, y \in RestoredEntries(d) : x.s = y.s => x = y
<1> DEFINE of(s) == IF d[s].turn # None THEN [s |-> s, p |-> d[s].turn, kind |-> "turn"]
                    ELSE [s |-> s, p |-> Head(d[s].queue), kind |-> "follow_up"]
           g == [s \in Sessions |-> of(s)]
           T == {of(s) : s \in Sessions}
<1>1. \A x \in RestoredEntries(d) : x.s \in Sessions /\ x = of(x.s)
  BY DEF RestoredEntries
<1>2. ASSUME NEW x \in RestoredEntries(d) PROVE x \in Entry
  <2>1. CASE \E s \in Sessions : d[s].turn # None /\ x = [s |-> s, p |-> d[s].turn, kind |-> "turn"]
    BY <2>1 DEF Entry, DiskRec, PromptOrNone
  <2>2. CASE \E s \in Sessions : d[s].queue # <<>> /\ x = [s |-> s, p |-> Head(d[s].queue), kind |-> "follow_up"]
    <3>1. PICK s \in Sessions : d[s].queue # <<>> /\ x = [s |-> s, p |-> Head(d[s].queue), kind |-> "follow_up"]
      BY <2>2
    <3>2. d[s].queue \in Seq(Prompts)
      BY DEF DiskRec
    <3>3. Head(d[s].queue) \in Prompts
      BY <3>1, <3>2
    <3> QED BY <3>1, <3>3 DEF Entry
  <2> QED BY <2>1, <2>2 DEF RestoredEntries
<1>3. IsFiniteSet(RestoredEntries(d))
  <2>1. g \in Surjection(Sessions, T)
    BY DEF Surjection
  <2>2. IsFiniteSet(T)
    BY <2>1, FS_Surjection, HeadlessAssumption
  <2>3. RestoredEntries(d) \subseteq T
    BY <1>1
  <2> QED BY <2>2, <2>3, FS_Subset
<1> QED BY <1>1, <1>2, <1>3

LEMMA QueuedSettled ==
  ASSUME NEW S, S \subseteq Entry, IsFiniteSet(S), \A x, y \in S : x.s = y.s => x = y,
         NEW order \in SetToSeqs(S)
  PROVE  Settled(Queued(order), [s \in Sessions |-> NoLaunch])
<1> DEFINE h == Queued(order)
           l == [s \in Sessions |-> NoLaunch]
           at(s) == CHOOSE e \in ToSet(order) : e.s = s
           index == [s \in Sessions |-> IF \E e \in ToSet(order) : e.s = s THEN at(s) ELSE None]
<1>1. Cardinality(S) \in Nat
  BY FS_CardinalityType
<1>2. /\ order \in [1 .. Cardinality(S) -> S]
      /\ \A i, j \in 1 .. Cardinality(S) : i # j => order[i] # order[j]
  BY DEF SetToSeqs
<1>3. order \in Seq(Entry) /\ DOMAIN order = 1 .. Cardinality(S) /\ IsInjective(order)
  <2>1. order \in Seq(S)
    BY <1>1, <1>2
  <2> QED BY <1>2, <2>1 DEF IsInjective
<1>4. ToSet(order) \subseteq S
  BY <1>2 DEF ToSet
<1>5. \A e \in ToSet(order) : e \in Entry /\ e.s \in Sessions /\ at(e.s) = e /\ e # None
  <2>1. \A x, y \in ToSet(order) : x.s = y.s => x = y
    BY <1>4
  <2> QED BY <1>4, <2>1, EntryFields
<1>6. \A s \in Sessions : (\E e \in ToSet(order) : e.s = s) => at(s) \in ToSet(order) /\ at(s).s = s
  OBVIOUS
<1>7. h = [q |-> order, run |-> {}, go |-> {}, ids |-> index]
  BY Zenon DEF Queued
<1> HIDE DEF at
<1>8. index \in [Sessions -> Entry \cup {None}]
  <2>1. \A s \in Sessions : (\E e \in ToSet(order) : e.s = s) => at(s) \in Entry
    BY <1>5, <1>6
  <2> QED BY <2>1
<1>9. \A s \in Sessions : index[s] # None => index[s].s = s /\ index[s] \in ToSet(order)
  BY <1>6
<1>10. \A e \in ToSet(order) : index[e.s] = e
  BY <1>5
<1> HIDE DEF index, h
<1>11. h.q = order /\ h.run = {} /\ h.go = {} /\ h.ids = index /\ h \in Queues
  BY <1>3, <1>7, <1>8 DEF Queues
<1>12. Indexed(h)
  BY <1>3, <1>9, <1>10, <1>11 DEF Indexed
<1>13. Slotted(h)
  <2>1. IsFiniteSet({}) /\ Cardinality({}) = 0 /\ 0 <= MaxRunning
    BY FS_EmptySet, HeadlessAssumption
  <2> QED BY <1>11, <2>1 DEF Slotted
<1> QED BY <1>11, <1>12, <1>13 DEF Settled, h

LEMMA UnfinishedIs ==
  ASSUME NEW q \in Seq(Prompts), NEW x PROVE Unfinished(q, x) \in Seq(Prompts)
<1>1. q # <<>> => Tail(q) \in Seq(Prompts)
  OBVIOUS
<1> QED BY <1>1 DEF Unfinished

LEMMA CrashKeeps == ASSUME HInv, Crash PROVE HInv'
<1> DEFINE l == [s \in Sessions |-> NoLaunch]
<1>1. /\ disk' = [s \in Sessions |-> Restored(disk[s])]
      /\ agent' = [s \in Sessions |-> Absent] /\ loading' = [s \in Sessions |-> None]
      /\ steering' = {} /\ stopped' = {} /\ interrupted' = {}
      /\ failed' = {s \in Sessions : disk[s].failed}
      /\ op' = [s \in Sessions |-> NoOp] /\ foreign' = {} /\ events' = <<>> /\ consumer' = None
      /\ req' = [r \in DOMAIN req |-> IF req[r] \in {"new", "done", "refused"} THEN req[r] ELSE "cut"]
      /\ lock' = [s \in Sessions |-> None] /\ victim' = [k \in Kills |-> None]
      /\ UNCHANGED <<faults, accepted, settled, withdrawn, replaced, marked>>
  BY DEF Crash
<1>2. disk' \in [Sessions -> DiskRec]
  <2>1. ASSUME NEW d \in DiskRec PROVE Restored(d) \in DiskRec
    <3> DEFINE t == IF d.turn = d.done THEN None ELSE d.turn
               q == Unfinished(d.queue, d.done)
    <3>1. t \in PromptOrNone /\ q \in Seq(Prompts)
      BY UnfinishedIs DEF DiskRec, PromptOrNone
    <3>2. Restored(d) = [d EXCEPT !.turn = t, !.queue = q]
      BY Zenon DEF Restored
    <3> HIDE DEF t, q
    <3> QED BY <3>1, <3>2 DEF DiskRec
  <2>2. \A s \in Sessions : disk[s] \in DiskRec
    BY DEF HInv, DiskInv
  <2> QED BY <1>1, <2>1, <2>2
<1>3. PICK order \in SetToSeqs(RestoredEntries(disk')) : Schedules(Pump(Queued(order), {}), l)
  BY Zenon DEF Crash
<1>4. Settled(Queued(order), l)
  <2> DEFINE S == RestoredEntries(disk')
  <2>1. S \subseteq Entry /\ IsFiniteSet(S) /\ \A x, y \in S : x.s = y.s => x = y
    BY <1>2, RestoredIs
  <2>2. order \in SetToSeqs(S)
    OBVIOUS
  <2> HIDE DEF S
  <2> QED BY <2>1, <2>2, QueuedSettled
<1>5. /\ launch' \in [Sessions -> LaunchRec] /\ SlotInv'
      /\ \A t \in Sessions : launch'[t] = NoLaunch \/ launch'[t] \in StartRec
  <2>1. l \in [Sessions -> LaunchRec] /\ \A t \in Sessions : l[t] = NoLaunch
    BY NoLaunchTyped
  <2> DEFINE h == Queued(order)
  <2>2. Settled(h, l) /\ Schedules(Pump(h, {}), l)
    BY <1>3, <1>4
  <2> HIDE DEF l, h
  <2>3. /\ launch' \in [Sessions -> LaunchRec] /\ SlotInv'
        /\ \A t \in Sessions : launch'[t] = l[t] \/ (l[t] = NoLaunch /\ launch'[t] \in StartRec)
    BY <2>1, <2>2, PumpScheduled
  <2> QED BY <2>1, <2>3
<1>6. LaunchesFit'
  <2>1. Absent \in AgentRec /\ Absent.flight = None
    BY DEF Absent, AgentRec, PromptOrNone
  <2>2. \A s \in Sessions : agent'[s] = Absent /\ loading'[s] = None
    BY <1>1
  <2>3. agent' \in [Sessions -> AgentRec] /\ loading' \in [Sessions -> Seq(Prompts) \cup {None}]
    BY <1>1, <2>1
  <2>4. ASSUME NEW s \in Sessions PROVE Fits(launch'[s], agent'[s], loading'[s])
    BY <1>5, <2>1, <2>2, IdleFits
  <2> QED BY <1>5, <2>3, <2>4 DEF LaunchesFit
<1>7. TurnInv'
  BY <1>1, NoOpTyped DEF TurnInv
<1>8. SetInv'
  BY <1>1 DEF HInv, SetInv
<1>9. ReqInv'
  BY <1>1 DEF HInv, ReqInv, ReqPcs, PromptOrNone
<1> QED BY <1>2, <1>5, <1>6, <1>7, <1>8, <1>9 DEF HInv, DiskInv

-----------------------------------------------------------------------------
(* The invariant is inductive.                                               *)

LEMMA InvInit == ASSUME Init PROVE HInv
<1>1. /\ disk = [s \in Sessions |-> [turn |-> None, queue |-> <<>>, done |-> None, failed |-> FALSE]]
      /\ agent = [s \in Sessions |-> Absent] /\ loading = [s \in Sessions |-> None]
      /\ queue = <<>> /\ byId = [s \in Sessions |-> None] /\ running = {}
      /\ launch = [s \in Sessions |-> NoLaunch] /\ op = [s \in Sessions |-> NoOp]
      /\ events = <<>> /\ consumer = None
  BY DEF Init
<1>2. DiskInv
  BY <1>1 DEF DiskInv, DiskRec, PromptOrNone
<1>3. LaunchesFit
  <2>1. Absent \in AgentRec /\ Absent.flight = None
    BY DEF Absent, AgentRec, PromptOrNone
  <2>2. ASSUME NEW s \in Sessions PROVE Fits(launch[s], agent[s], loading[s])
    BY <1>1, <2>1, IdleFits
  <2>3. launch \in [Sessions -> LaunchRec] /\ agent \in [Sessions -> AgentRec]
        /\ loading \in [Sessions -> Seq(Prompts) \cup {None}]
    BY <1>1, <2>1, NoLaunchTyped
  <2> QED BY <2>2, <2>3 DEF LaunchesFit
<1>4. SlotInv
  <2>1. <<>> \in Seq(Entry) /\ byId \in [Sessions -> Entry \cup {None}]
    BY <1>1
  <2>2. Now \in Queues /\ Now.q = <<>> /\ Now.ids = byId /\ Now.run = {} /\ Now.go = {}
    BY <1>1, <2>1 DEF Now, Queues
  <2>3. Indexed(Now)
    BY <1>1, <2>2 DEF Indexed, IsInjective, ToSet
  <2>4. IsFiniteSet({}) /\ Cardinality({}) = 0 /\ 0 <= MaxRunning
    BY FS_EmptySet, HeadlessAssumption
  <2>5. Slotted(Now)
    BY <2>2, <2>4 DEF Slotted
  <2> QED BY <1>1, <2>2, <2>3, <2>5 DEF SlotInv, Settled
<1>5. TurnInv
  BY <1>1, NoOpTyped DEF TurnInv
<1>6. ReqInv /\ SetInv
  BY DEF Init, ReqInv, ReqPcs, SetInv, PromptOrNone
<1> QED BY <1>2, <1>3, <1>4, <1>5, <1>6 DEF HInv

LEMMA RequestKeeps == ASSUME HInv, NEW r \in Prompts \cup Kills, Request(r) PROVE HInv'
<1>1. CASE RequestArrives(r)
  BY <1>1, RequestArrivesKeeps
<1>2. CASE r \in Kills /\ (Kill(r) \/ KillWrites(r) \/ KillResumes(r) \/ KillInterrupts(r))
  BY <1>2, KillKeeps, KillWritesKeeps, KillResumesKeeps, KillInterruptsKeeps
<1>3. CASE r \in Prompts /\ (SpawnWrites(r) \/ Enqueues(r) \/ Send(r) \/ SendResumes(r) \/ SendWrites(r))
  BY <1>3, SpawnWritesKeeps, EnqueuesKeeps, SendKeeps, SendResumesKeeps, SendWritesKeeps
<1>4. CASE r \in Prompts /\ (FollowUpRuns(r) \/ SendReturns(r) \/ Steer(r) \/ SteerWrites(r))
  BY <1>4, FollowUpRunsKeeps, SendReturnsKeeps, SteerKeeps, SteerWritesKeeps
<1>5. CASE r \in Prompts /\ (SteerFails(r) \/ SteerResumes(r) \/ SteerInterrupts(r) \/ SteerDone(r))
  BY <1>5, SteerFailsKeeps, SteerResumesKeeps, SteerInterruptsKeeps, SteerDoneKeeps
<1> QED BY <1>1, <1>2, <1>3, <1>4, <1>5 DEF Request

LEMMA LaunchStepKeeps == ASSUME HInv, NEW s \in Sessions, LaunchStep(s) PROVE HInv'
<1>1. CASE Launches(s) \/ Initialized(s) \/ InitFails(s) \/ Compacts(s) \/ Rechecks(s)
  BY <1>1, LaunchesKeeps, InitializedKeeps, InitFailsKeeps, CompactsKeeps, RechecksKeeps
<1>2. CASE Begins(s) \/ Submits(s) \/ Awaits(s) \/ Flushes(s) \/ Marks(s)
  BY <1>2, BeginsKeeps, SubmitsKeeps, AwaitsKeeps, FlushesKeeps, MarksKeeps
<1>3. CASE Acknowledges(s) \/ LocksToClear(s) \/ Clears(s) \/ Fails(s)
  BY <1>3, AcknowledgesKeeps, LocksToClearKeeps, ClearsKeeps, FailsKeeps
<1> QED BY <1>1, <1>2, <1>3 DEF LaunchStep

LEMMA StutterKeeps == ASSUME HInv, UNCHANGED vars PROVE HInv'
<1>1. UNCHANGED <<disk, agent, loading, runVars, steering, trackVars, launch, op, foreign, events, consumer,
                  req, lock, victim, accepted, settled, withdrawn, replaced, marked>>
  BY DEF vars, turnVars, reqVars, trackVars
<1>2. LaunchesFit' /\ SlotInv'
  BY <1>1, NothingStarts DEF HInv
<1>3. DiskInv' /\ TurnInv' /\ SetInv'
  BY <1>1, SetsKept DEF HInv, DiskInv, TurnInv, trackVars
<1>4. ReqInv'
  BY <1>1, RequestStays, LockIs DEF HInv
<1> QED BY <1>2, <1>3, <1>4 DEF HInv

LEMMA InvStep == ASSUME HInv, [Next]_vars PROVE HInv'
<1>1. CASE \E r \in Prompts \cup Kills : Request(r)
  BY <1>1, RequestKeeps
<1>2. CASE \E s \in Sessions : LaunchStep(s) \/ OpStarts(s) \/ OpEnds(s) \/ ForeignStarts(s) \/ ForeignEnds(s)
  BY <1>2, LaunchStepKeeps, OpStartsKeeps, OpEndsKeeps, ForeignStartsKeeps, ForeignEndsKeeps
<1>3. CASE Consumes \/ ConsumerPersists \/ Crash
  BY <1>3, ConsumesKeeps, ConsumerPersistsKeeps, CrashKeeps
<1>4. CASE UNCHANGED vars
  BY <1>4, StutterKeeps
<1>5. CASE Done
  BY <1>5, StutterKeeps DEF Done
<1> QED BY <1>1, <1>2, <1>3, <1>4, <1>5 DEF Next, ActorStep

LEMMA InvHolds == Spec => []HInv
<1>1. Init => HInv
  BY InvInit
<1>2. HInv /\ [Next]_vars => HInv'
  BY InvStep
<1> QED BY <1>1, <1>2, PTL DEF Spec

\* What waits for a slot is in the queue and in the index of the server, in both
\* or in neither, and a session's launch or agent names only what a client sent.
LEMMA InvTypes == ASSUME HInv PROVE TypeOK
<1>1. /\ disk \in [Sessions -> DiskRec] /\ agent \in [Sessions -> AgentRec] /\ launch \in [Sessions -> LaunchRec]
      /\ op \in [Sessions -> OpRec] /\ lock \in [Sessions -> {None, "launch"} \cup Prompts \cup Kills] /\ SetInv
      /\ Now \in Queues
  BY DEF HInv, DiskInv, LaunchesFit, TurnInv, ReqInv, SlotInv, Settled, Indexed
<1>2. queue \in Seq(Entry) /\ byId \in [Sessions -> Entry \cup {None}] /\ running \subseteq Sessions
  <2>1. Now.q = queue /\ Now.ids = byId /\ Now.run = running
    BY DEF Now
  <2> QED BY <1>1, <2>1, QueueFields
<1>3. \A s \in Sessions : launch[s].p \in PromptOrNone /\ op[s].p \in PromptOrNone
  BY <1>1 DEF LaunchRec, OpRec
<1> QED BY <1>1, <1>2, <1>3 DEF TypeOK, SetInv, DiskRec, AgentRec

LEMMA InvSlots == ASSUME HInv PROVE SlotsHeld
<1>1. /\ Settled(Now, launch) /\ LaunchesFit
  BY DEF HInv, SlotInv
<1>2. Now.q = queue /\ Now.ids = byId /\ Now.run = running
  BY DEF Now
<1>3. queue \in Seq(Entry)
  BY <1>1, <1>2, QueueFields DEF Settled, Indexed
<1>4. Cardinality(running) <= MaxRunning /\ running = {s \in Sessions : launch[s] # NoLaunch}
  BY <1>1, <1>2 DEF Settled, Slotted
<1>5. InFlightHasLaunch
  <2>1. \A s \in Sessions : Fits(launch[s], agent[s], loading[s])
    BY <1>1 DEF LaunchesFit
  <2> QED BY <2>1 DEF Fits, InFlightHasLaunch
<1>6. QueueIndexed
  <2>1. \A i \in DOMAIN queue : queue[i] \in ToSet(queue)
    BY <1>3 DEF ToSet
  <2> QED BY <1>1, <1>2, <2>1 DEF QueueIndexed, Settled, Indexed
<1> QED BY <1>4, <1>5, <1>6 DEF SlotsHeld

-----------------------------------------------------------------------------
(* Types and slots.                                                          *)

\* Whatever clients ask, turns do and crashes interrupt, the server's queues,
\* launches, agents and the session meta on disk keep their types.
THEOREM HeadlessTyped == Spec => []TypeOK
<1>1. HInv => TypeOK
  BY InvTypes
<1> QED BY <1>1, InvHolds, PTL

\* _pump never gives away more than max_running slots; a session holds one exactly
\* while it has a launch task; a follow-up in flight is its launch's; and the
\* run queue and its index by session hold the same entries, one for a session.
THEOREM HeadlessSlots == Spec => []SlotsHeld
<1>1. HInv => SlotsHeld
  BY InvSlots
<1> QED BY <1>1, InvHolds, PTL

-----------------------------------------------------------------------------
(* Where the prompts of a session are.  The operators take the session's     *)
(* record on disk, its entry in the run queue, its launch, its agent, what   *)
(* its agent is about to load, and the completed prompts.                    *)

\* The request of a prompt: before the prompt is anywhere, and of a steer.
Early == {"new", "waiting", "handoff", "handed", "writing", "submitted"}
Steers == {"steering", "steerwrote", "steerfailed", "steerint", "steerwait"}
Begun == {"unfail", "wait", "flush", "mark", "marked"}

Waits(e, p) == e # None /\ e.kind # "follow_up" /\ e.p = p
Runs(l, p) == l.pc # "none" /\ l.kind # "follow_up" /\ l.p = p
Follows(d, a, q, p) ==
  p \in ToSet(a.mem) \/ a.flight = p \/ p \in ToSet(d.queue) \/ (q # None /\ p \in ToSet(q))
Placed(d, e, l, a, q, p) == d.turn = p \/ Waits(e, p) \/ Runs(l, p) \/ Follows(d, a, q, p)

\* A prompt is a turn that waits, a turn that runs, or a follow-up; a completed
\* one is left only where its launch or a restart takes it away.
Once(d, e, l, a, q, m, p) ==
  /\ Waits(e, p) => p \notin m /\ ~Runs(l, p) /\ ~Follows(d, a, q, p)
  /\ Runs(l, p) => ~Follows(d, a, q, p) /\ (p \in m => l.pc \in {"marked", "clear"} /\ d.done = p)
  /\ d.turn = p => ~Follows(d, a, q, p) /\ (p \in m => Runs(l, p))
  /\ p \in m => /\ p \notin ToSet(a.mem) /\ (q # None => p \notin ToSet(q))
                /\ a.flight = p => l.pc = "marked" /\ d.done = p
                /\ ~a.up => p \notin ToSet(d.queue)

\* What the state x of its request says of a prompt.
Asks(d, e, l, a, q, m, p, x) ==
  /\ x \in Early => p \notin m /\ ~Placed(d, e, l, a, q, p)
  /\ x \in Steers => p \notin m /\ Waits(e, p) /\ ~Runs(l, p) /\ ~Follows(d, a, q, p)
  /\ x = "wrote" => p \notin m /\ ~Waits(e, p) /\ ~Runs(l, p) /\ ~Follows(d, a, q, p)

\* The queue on disk is the agent's, or what it will load, unless a kill emptied it.
Stored(d, l, a, q) ==
  /\ ~a.up => a.mem = <<>> /\ a.flight = None
  /\ q # None => ~a.up /\ (d.queue = q \/ (d.queue = <<>> /\ Kills # {})) /\ IsInjective(q)
  /\ a.up => d.queue = Durable(a) \/ (d.queue = <<>> /\ Kills # {})
  /\ IsInjective(a.mem) /\ a.flight \notin ToSet(a.mem) /\ IsInjective(d.queue)
  /\ l.kind = "follow_up" /\ l.pc \in Begun => a.flight = l.p

Typed(d, e, l, a, q) ==
  /\ d \in DiskRec /\ e \in Entry \cup {None} /\ l \in LaunchRec /\ a \in AgentRec
  /\ q \in Seq(Prompts) \cup {None}

InPlace(s, d, e, l, a, q, m, r) ==
  /\ Typed(d, e, l, a, q) /\ Stored(d, l, a, q)
  /\ \A p \in Prompts :
       /\ Once(d, e, l, a, q, m, p)
       /\ Dest[p] # s => ~Placed(d, e, l, a, q, p)
       /\ Dest[p] = s => Asks(d, e, l, a, q, m, p, r[p])

-----------------------------------------------------------------------------
(* The changes of one session.                                               *)

\* A request that says no more than before.
Milder(x, y) == (y \in Early => x \in Early) /\ (y \in Steers => x \in Steers) /\ (y = "wrote" => x = "wrote")

LEMMA RequestMilder ==
  ASSUME NEW s, NEW d, NEW e, NEW l, NEW a, NEW q, NEW m, NEW r, InPlace(s, d, e, l, a, q, m, r),
         NEW r2, \A p \in Prompts : Dest[p] = s => Milder(r[p], r2[p])
  PROVE  InPlace(s, d, e, l, a, q, m, r2)
<1>1. ASSUME NEW p \in Prompts, Dest[p] = s PROVE Asks(d, e, l, a, q, m, p, r2[p])
  BY <1>1 DEF InPlace, Asks, Milder
<1> QED BY <1>1 DEF InPlace

\* The queued turn takes a slot.
LEMMA TurnStarts ==
  ASSUME NEW s, NEW d, NEW e \in Entry, NEW a, NEW q, NEW m, NEW r,
         InPlace(s, d, e, NoLaunch, a, q, m, r), \A p \in Prompts : r[p] \in Steers => Dest[p] # s,
         NEW l, l = [pc |-> "init", p |-> e.p, kind |-> e.kind, handed |-> FALSE]
  PROVE  InPlace(s, d, None, l, a, q, m, r)
<1>1. /\ l \in LaunchRec /\ l.pc = "init" /\ l.p = e.p /\ l.kind = e.kind /\ e # None
  BY EntryFields DEF LaunchRec, Pcs, Kinds, PromptOrNone, Entry
<1>2. NoLaunch.pc = "none"
  BY DEF NoLaunch
<1> HIDE DEF NoLaunch
<1>3. Typed(d, None, l, a, q) /\ Stored(d, l, a, q)
  BY <1>1, <1>2 DEF InPlace, Typed, Stored, Begun
<1>4. ASSUME NEW p \in Prompts
      PROVE  /\ Once(d, None, l, a, q, m, p)
             /\ Dest[p] # s => ~Placed(d, None, l, a, q, p)
             /\ Dest[p] = s => Asks(d, None, l, a, q, m, p, r[p])
  <2>1. /\ Once(d, e, NoLaunch, a, q, m, p)
        /\ Dest[p] # s => ~Placed(d, e, NoLaunch, a, q, p)
        /\ Dest[p] = s => Asks(d, e, NoLaunch, a, q, m, p, r[p])
    BY DEF InPlace
  <2>2. /\ Runs(l, p) <=> Waits(e, p)
        /\ ~Runs(NoLaunch, p) /\ ~Waits(None, p)
    BY <1>1, <1>2 DEF Runs, Waits
  <2>3. Once(d, None, l, a, q, m, p)
    BY <1>1, <1>2, <2>1, <2>2 DEF Once
  <2>4. Dest[p] # s => ~Placed(d, None, l, a, q, p)
    BY <2>1, <2>2 DEF Placed
  <2>5. Dest[p] = s => Asks(d, None, l, a, q, m, p, r[p])
    BY <2>1, <2>2 DEF Asks, Placed
  <2> QED BY <2>3, <2>4, <2>5
<1> QED BY <1>3, <1>4 DEF InPlace

\* The launch goes on; nothing it does moves the prompt.
LEMMA LaunchGoes ==
  ASSUME NEW s, NEW d, NEW e, NEW l, NEW a, NEW q, NEW m, NEW r, InPlace(s, d, e, l, a, q, m, r),
         NEW l2 \in LaunchRec, l.pc # "none", l2.pc # "none", l2.p = l.p, l2.kind = l.kind,
         l.pc \in {"marked", "clear"} => l2.pc = "clear" /\ a.flight = None,
         l2.kind = "follow_up" /\ l2.pc \in Begun => l.pc \in Begun
  PROVE  InPlace(s, d, e, l2, a, q, m, r)
<1>1. Typed(d, e, l2, a, q) /\ Stored(d, l2, a, q)
  BY DEF InPlace, Typed, Stored
<1>2. ASSUME NEW p \in Prompts
      PROVE  /\ Once(d, e, l2, a, q, m, p)
             /\ Dest[p] # s => ~Placed(d, e, l2, a, q, p)
             /\ Dest[p] = s => Asks(d, e, l2, a, q, m, p, r[p])
  <2>1. /\ Once(d, e, l, a, q, m, p)
        /\ Dest[p] # s => ~Placed(d, e, l, a, q, p)
        /\ Dest[p] = s => Asks(d, e, l, a, q, m, p, r[p])
    BY DEF InPlace
  <2>2. Runs(l2, p) <=> Runs(l, p)
    BY DEF Runs
  <2>p. p # None
    BY NoneApart
  <2>3. Once(d, e, l2, a, q, m, p)
    BY <2>1, <2>2, <2>p DEF Once
  <2>4. Dest[p] # s => ~Placed(d, e, l2, a, q, p)
    BY <2>1, <2>2 DEF Placed
  <2>5. Dest[p] = s => Asks(d, e, l2, a, q, m, p, r[p])
    BY <2>1, <2>2 DEF Asks, Placed
  <2> QED BY <2>3, <2>4, <2>5
<1> QED BY <1>1, <1>2 DEF InPlace

\* The launch is over: no completed turn is left on disk.
LEMMA LaunchEnds ==
  ASSUME NEW s, NEW d, NEW e, NEW l, NEW a, NEW q, NEW m, NEW r, InPlace(s, d, e, l, a, q, m, r),
         NEW d2 \in DiskRec, d2.queue = d.queue, d2.done = d.done, d2.turn \in {d.turn, None},
         l.kind # "follow_up" /\ l.pc \in {"marked", "clear"} => d2.turn # l.p,
         a.flight = None
  PROVE  InPlace(s, d2, e, NoLaunch, a, q, m, r)
<1>0. NoLaunch.pc = "none" /\ NoLaunch \in LaunchRec
  BY NoLaunchTyped
<1> HIDE DEF NoLaunch
<1>1. Typed(d2, e, NoLaunch, a, q) /\ Stored(d2, NoLaunch, a, q)
  BY <1>0 DEF InPlace, Typed, Stored, Begun
<1>2. ASSUME NEW p \in Prompts
      PROVE  /\ Once(d2, e, NoLaunch, a, q, m, p)
             /\ Dest[p] # s => ~Placed(d2, e, NoLaunch, a, q, p)
             /\ Dest[p] = s => Asks(d2, e, NoLaunch, a, q, m, p, r[p])
  <2>1. /\ Once(d, e, l, a, q, m, p)
        /\ Dest[p] # s => ~Placed(d, e, l, a, q, p)
        /\ Dest[p] = s => Asks(d, e, l, a, q, m, p, r[p])
    BY DEF InPlace
  <2>2. /\ ~Runs(NoLaunch, p) /\ p # None /\ (d2.turn = p => d.turn = p)
        /\ Follows(d2, a, q, p) <=> Follows(d, a, q, p)
    BY <1>0, NoneApart DEF Runs, Follows
  <2>3. p \in m /\ Runs(l, p) => d2.turn # p
    BY <2>1 DEF Once, Runs
  <2>4. Once(d2, e, NoLaunch, a, q, m, p)
    BY <2>1, <2>2, <2>3 DEF Once
  <2>5. Dest[p] # s => ~Placed(d2, e, NoLaunch, a, q, p)
    BY <2>1, <2>2 DEF Placed
  <2>6. Dest[p] = s => Asks(d2, e, NoLaunch, a, q, m, p, r[p])
    BY <2>1, <2>2 DEF Asks, Placed
  <2> QED BY <2>4, <2>5, <2>6
<1> QED BY <1>1, <1>2 DEF InPlace

\* The entry of the session changes: what waits is the same, or nothing does, or
\* a prompt that was nowhere else.
LEMMA EntryChanges ==
  ASSUME NEW s, NEW d, NEW e, NEW l, NEW a, NEW q, NEW m, NEW r, InPlace(s, d, e, l, a, q, m, r),
         NEW e2 \in Entry \cup {None}, NEW r2,
         \A p \in Prompts : \/ Waits(e2, p) <=> Waits(e, p)
                            \/ ~Waits(e2, p) /\ (Dest[p] = s => r2[p] \notin Steers)
                            \/ /\ Waits(e2, p) /\ Dest[p] = s /\ r2[p] \notin Early \cup {"wrote"}
                               /\ p \notin m /\ ~Runs(l, p) /\ ~Follows(d, a, q, p),
         \A p \in Prompts : Dest[p] = s => Milder(r[p], r2[p]) \/ (Waits(e2, p) /\ r2[p] \in Steers)
  PROVE  InPlace(s, d, e2, l, a, q, m, r2)
<1>1. Typed(d, e2, l, a, q) /\ Stored(d, l, a, q)
  BY DEF InPlace, Typed
<1>2. ASSUME NEW p \in Prompts
      PROVE  /\ Once(d, e2, l, a, q, m, p)
             /\ Dest[p] # s => ~Placed(d, e2, l, a, q, p)
             /\ Dest[p] = s => Asks(d, e2, l, a, q, m, p, r2[p])
  <2>1. /\ Once(d, e, l, a, q, m, p)
        /\ Dest[p] # s => ~Placed(d, e, l, a, q, p)
        /\ Dest[p] = s => Asks(d, e, l, a, q, m, p, r[p])
    BY DEF InPlace
  <2>2. Once(d, e2, l, a, q, m, p)
    BY <2>1 DEF Once
  <2>3. Dest[p] # s => ~Placed(d, e2, l, a, q, p)
    BY <2>1 DEF Placed
  <2>4. ASSUME Dest[p] = s PROVE Asks(d, e2, l, a, q, m, p, r2[p])
    <3>1. CASE Milder(r[p], r2[p])
      BY <2>1, <2>4, <3>1 DEF Asks, Placed, Milder, Once
    <3>2. CASE Waits(e2, p) /\ r2[p] \in Steers
      <4>1. r2[p] \notin Early /\ r2[p] # "wrote"
        BY <3>2 DEF Early, Steers
      <4>2. p \notin m /\ ~Runs(l, p) /\ ~Follows(d, a, q, p)
        BY <2>1, <2>4, <3>2 DEF Once
      <4> QED BY <3>2, <4>1, <4>2 DEF Asks
    <3> QED BY <2>4, <3>1, <3>2
  <2> QED BY <2>2, <2>3, <2>4
<1> QED BY <1>1, <1>2 DEF InPlace

\* The queued turn on disk becomes the prompt, or is cleared.
LEMMA TurnWritten ==
  ASSUME NEW s, NEW d, NEW e, NEW l, NEW a, NEW q, NEW m, NEW r, InPlace(s, d, e, l, a, q, m, r),
         NEW d2 \in DiskRec, d2.queue = d.queue, d2.done = d.done, NEW r2,
         \A p \in Prompts : d2.turn = p => d.turn = p \/ (Dest[p] = s /\ r[p] \in Early \cup {"steering"}),
         \A p \in Prompts : Dest[p] = s => \/ r2[p] = "wrote" /\ r[p] \in Early
                                           \/ Milder(r[p], r2[p]) /\ (d2.turn = p => d.turn = p \/ r2[p] \notin Early)
  PROVE  InPlace(s, d2, e, l, a, q, m, r2)
<1>1. Typed(d2, e, l, a, q) /\ Stored(d2, l, a, q)
  BY DEF InPlace, Typed, Stored
<1>2. ASSUME NEW p \in Prompts
      PROVE  /\ Once(d2, e, l, a, q, m, p)
             /\ Dest[p] # s => ~Placed(d2, e, l, a, q, p)
             /\ Dest[p] = s => Asks(d2, e, l, a, q, m, p, r2[p])
  <2>1. /\ Once(d, e, l, a, q, m, p)
        /\ Dest[p] # s => ~Placed(d, e, l, a, q, p)
        /\ Dest[p] = s => Asks(d, e, l, a, q, m, p, r[p])
    BY DEF InPlace
  <2>2. Follows(d2, a, q, p) <=> Follows(d, a, q, p)
    BY DEF Follows
  <2>3. d2.turn = p => d.turn = p \/ (p \notin m /\ ~Follows(d, a, q, p) /\ Dest[p] = s)
    BY <2>1 DEF Asks, Placed, Steers
  <2>4. Once(d2, e, l, a, q, m, p)
    BY <2>1, <2>2, <2>3 DEF Once
  <2>5. Dest[p] # s => ~Placed(d2, e, l, a, q, p)
    BY <2>1, <2>2, <2>3 DEF Placed
  <2>6. ASSUME Dest[p] = s PROVE Asks(d2, e, l, a, q, m, p, r2[p])
    <3>1. CASE r2[p] = "wrote" /\ r[p] \in Early
      BY <2>1, <2>2, <2>6, <3>1 DEF Asks, Placed, Early, Steers
    <3>2. CASE Milder(r[p], r2[p]) /\ (d2.turn = p => d.turn = p \/ r2[p] \notin Early)
      BY <2>1, <2>2, <2>6, <3>2 DEF Asks, Placed, Milder
    <3> QED BY <2>6, <3>1, <3>2
  <2> QED BY <2>4, <2>5, <2>6
<1> QED BY <1>1, <1>2 DEF InPlace

-----------------------------------------------------------------------------
(* The follow-up queue of an agent, in memory and on disk.                   *)

LEMMA AgentFields ==
  ASSUME NEW a \in AgentRec
  PROVE  /\ a = [up |-> a.up, mem |-> a.mem, flight |-> a.flight]
         /\ a.up \in BOOLEAN /\ a.mem \in Seq(Prompts) /\ a.flight \in PromptOrNone
         /\ ToSet(a.mem) \subseteq Prompts
<1>1. a = [up |-> a.up, mem |-> a.mem, flight |-> a.flight] /\ a.up \in BOOLEAN /\ a.mem \in Seq(Prompts)
      /\ a.flight \in PromptOrNone
  BY DEF AgentRec
<1>2. ToSet(a.mem) \subseteq Prompts
  BY <1>1, SetOf
<1> QED BY <1>1, <1>2

LEMMA NoneIn ==
  ASSUME NEW z \in Seq(Prompts), Len(z) = 0
  PROVE  ToSet(z) = {} /\ IsInjective(z)
<1>1. ToSet(z) = {z[i] : i \in 1 .. Len(z)} /\ DOMAIN z = 1 .. Len(z)
  BY SetOf
<1>2. ToSet(z) = {} /\ DOMAIN z = {}
  BY <1>1
<1> QED BY <1>2 DEF IsInjective

LEMMA EmptyIs ==
  ASSUME NEW z, z \in Seq(Prompts), z = <<>> \/ Len(z) = 0
  PROVE  ToSet(z) = {} /\ IsInjective(z)
<1>1. Len(z) = 0
  OBVIOUS
<1> QED BY <1>1, NoneIn

\* A head put back before the rest.
LEMMA HeadPut ==
  ASSUME NEW x \in Prompts, NEW q \in Seq(Prompts)
  PROVE  /\ <<x>> \o q \in Seq(Prompts) /\ ToSet(<<x>> \o q) = ToSet(q) \cup {x}
         /\ Head(<<x>> \o q) = x /\ Tail(<<x>> \o q) = q /\ <<x>> \o q # <<>>
         /\ IsInjective(q) /\ x \notin ToSet(q) => IsInjective(<<x>> \o q)
<1> DEFINE w == <<x>> \o q
<1>1. /\ w \in Seq(Prompts) /\ Len(q) \in Nat /\ Len(w) = Len(q) + 1 /\ w # <<>>
      /\ w[1] = x /\ \A i \in 1 .. Len(q) : w[i + 1] = q[i]
      /\ DOMAIN w = 1 .. Len(q) + 1 /\ DOMAIN q = 1 .. Len(q)
  OBVIOUS
<1> HIDE DEF w
<1>2. Head(w) = x
  BY <1>1
<1>3. Tail(w) = q
  <2>1. /\ Tail(w) \in Seq(Prompts) /\ Len(Tail(w)) = Len(q)
        /\ \A i \in 1 .. Len(q) : Tail(w)[i] = q[i]
    BY <1>1
  <2> QED BY <2>1, <1>1
<1>4. ToSet(w) = ToSet(q) \cup {x}
  <2>1. ToSet(w) = ToSet(Tail(w)) \cup {Head(w)}
    BY <1>1, HeadAndTail, Zenon
  <2> QED BY <1>2, <1>3, <2>1
<1>5. ASSUME IsInjective(q), x \notin ToSet(q) PROVE IsInjective(w)
  <2>1. \A i, j \in 1 .. Len(q) : q[i] = q[j] => i = j
    BY <1>1, <1>5 DEF IsInjective
  <2>2. \A i \in 1 .. Len(q) : q[i] # x
    BY <1>1, <1>5 DEF ToSet
  <2>3. \A i \in 2 .. Len(q) + 1 : i - 1 \in 1 .. Len(q) /\ w[i] = q[i - 1]
    BY <1>1
  <2>4. ASSUME NEW i \in 1 .. Len(q) + 1, NEW j \in 1 .. Len(q) + 1, w[i] = w[j] PROVE i = j
    <3>1. CASE i = 1 /\ j = 1
      BY <3>1
    <3>2. CASE i = 1 /\ j # 1
      <4>1. j \in 2 .. Len(q) + 1
        BY <1>1, <3>2
      <4> QED BY <1>1, <2>2, <2>3, <2>4, <3>2, <4>1
    <3>3. CASE i # 1 /\ j = 1
      <4>1. i \in 2 .. Len(q) + 1
        BY <1>1, <3>3
      <4> QED BY <1>1, <2>2, <2>3, <2>4, <3>3, <4>1
    <3>4. CASE i # 1 /\ j # 1
      <4>1. i \in 2 .. Len(q) + 1 /\ j \in 2 .. Len(q) + 1
        BY <1>1, <3>4
      <4>2. i - 1 = j - 1
        BY <2>1, <2>3, <2>4, <4>1
      <4> QED BY <1>1, <4>2
    <3> QED BY <3>1, <3>2, <3>3, <3>4
  <2> QED BY <1>1, <2>4 DEF IsInjective
<1> QED BY <1>1, <1>2, <1>3, <1>4, <1>5 DEF w

\* What the durable queue of an agent holds.
LEMMA DurableHolds ==
  ASSUME NEW a \in AgentRec, IsInjective(a.mem), a.flight \notin ToSet(a.mem)
  PROVE  /\ Durable(a) \in Seq(Prompts) /\ IsInjective(Durable(a))
         /\ \A p \in Prompts : p \in ToSet(Durable(a)) <=> p \in ToSet(a.mem) \/ a.flight = p
         /\ a.flight = None => Durable(a) = a.mem
         /\ a.flight # None => Durable(a) = <<a.flight>> \o a.mem /\ a.flight \in Prompts
<1>1. a.mem \in Seq(Prompts) /\ a.flight \in PromptOrNone
  BY AgentFields
<1>2. CASE a.flight = None
  BY <1>1, <1>2, NoneApart DEF Durable
<1>3. CASE a.flight # None
  <2>1. a.flight \in Prompts /\ Durable(a) = <<a.flight>> \o a.mem
    BY <1>1, <1>3 DEF Durable, PromptOrNone
  <2> QED BY <1>1, <1>3, <2>1, HeadPut
<1> QED BY <1>2, <1>3

\* The follow-up queue changes, and no prompt comes into it.
LEMMA QueueChanges ==
  ASSUME NEW s, NEW d, NEW e, NEW l, NEW a, NEW q, NEW m, NEW r, InPlace(s, d, e, l, a, q, m, r),
         NEW d2, NEW l2, NEW a2, NEW q2, Typed(d2, e, l2, a2, q2), Stored(d2, l2, a2, q2),
         d2.turn = d.turn, d2.done = d.done,
         \A p \in Prompts : Runs(l2, p) <=> Runs(l, p),
         l2.pc = l.pc \/ l.pc \notin {"marked", "clear"} \/ l.kind = "follow_up",
         \A p \in Prompts : Follows(d2, a2, q2, p) => Follows(d, a, q, p),
         \A p \in Prompts : p \in m => /\ p \notin ToSet(a2.mem) /\ (q2 # None => p \notin ToSet(q2))
                                       /\ a2.flight = p => l2.pc = "marked" /\ d2.done = p
                                       /\ ~a2.up => p \notin ToSet(d2.queue)
  PROVE  InPlace(s, d2, e, l2, a2, q2, m, r)
<1>1. ASSUME NEW p \in Prompts
      PROVE  /\ Once(d2, e, l2, a2, q2, m, p)
             /\ Dest[p] # s => ~Placed(d2, e, l2, a2, q2, p)
             /\ Dest[p] = s => Asks(d2, e, l2, a2, q2, m, p, r[p])
  <2>1. /\ Once(d, e, l, a, q, m, p)
        /\ Dest[p] # s => ~Placed(d, e, l, a, q, p)
        /\ Dest[p] = s => Asks(d, e, l, a, q, m, p, r[p])
    BY DEF InPlace
  <2>2. /\ Runs(l2, p) <=> Runs(l, p)
        /\ Follows(d2, a2, q2, p) => Follows(d, a, q, p)
        /\ p \in m => /\ p \notin ToSet(a2.mem) /\ (q2 # None => p \notin ToSet(q2))
                      /\ a2.flight = p => l2.pc = "marked" /\ d2.done = p
                      /\ ~a2.up => p \notin ToSet(d2.queue)
    OBVIOUS
  <2>3. Runs(l, p) => l.kind # "follow_up"
    BY DEF Runs
  <2>4. Once(d2, e, l2, a2, q2, m, p)
    BY <2>1, <2>2, <2>3 DEF Once
  <2>5. Dest[p] # s => ~Placed(d2, e, l2, a2, q2, p)
    BY <2>1, <2>2 DEF Placed
  <2>6. Dest[p] = s => Asks(d2, e, l2, a2, q2, m, p, r[p])
    BY <2>1, <2>2 DEF Asks, Placed
  <2> QED BY <2>4, <2>5, <2>6
<1> QED BY <1>1 DEF InPlace

\* A prompt that was nowhere is appended.
LEMMA FollowUpPut ==
  ASSUME NEW s, NEW d, NEW e, NEW l, NEW a, NEW q, NEW m, NEW r, InPlace(s, d, e, l, a, q, m, r),
         NEW x \in Prompts, Dest[x] = s, r[x] \in Early, a.up,
         NEW a2 \in AgentRec, a2.up, a2.flight = a.flight, a2.mem = Append(a.mem, x),
         NEW d2 \in DiskRec, d2.queue = Durable(a2), d2.turn = d.turn, d2.done = d.done,
         NEW r2, r2[x] \notin Early \cup Steers \cup {"wrote"}, \A p \in Prompts \ {x} : r2[p] = r[p]
  PROVE  InPlace(s, d2, e, l, a2, q, m, r2)
<1>0. /\ Typed(d, e, l, a, q) /\ Stored(d, l, a, q) /\ a \in AgentRec /\ a.mem \in Seq(Prompts)
      /\ a.flight \notin ToSet(a.mem) /\ IsInjective(a.mem) /\ q = None
  BY AgentFields DEF InPlace, Typed, Stored
<1>1. x \notin m /\ ~Placed(d, e, l, a, q, x)
  BY DEF InPlace, Asks
<1>2. x \notin ToSet(a.mem) /\ a.flight # x
  BY <1>1 DEF Placed, Follows
<1>3. ToSet(a2.mem) = ToSet(a.mem) \cup {x} /\ IsInjective(a2.mem) /\ a2.flight \notin ToSet(a2.mem)
  BY <1>0, <1>2, Appended
<1>4. /\ IsInjective(Durable(a2)) /\ \A p \in Prompts : p \in ToSet(Durable(a2)) <=> p \in ToSet(a2.mem) \/ a2.flight = p
  BY <1>3, DurableHolds
<1>5. Typed(d2, e, l, a2, q) /\ Stored(d2, l, a2, q)
  BY <1>0, <1>3, <1>4 DEF Typed, Stored
<1>6. ASSUME NEW p \in Prompts
      PROVE  /\ Once(d2, e, l, a2, q, m, p)
             /\ Dest[p] # s => ~Placed(d2, e, l, a2, q, p)
             /\ Dest[p] = s => Asks(d2, e, l, a2, q, m, p, r2[p])
  <2>1. /\ Once(d, e, l, a, q, m, p)
        /\ Dest[p] # s => ~Placed(d, e, l, a, q, p)
        /\ Dest[p] = s => Asks(d, e, l, a, q, m, p, r[p])
    BY DEF InPlace
  <2>2. Follows(d2, a2, q, p) => p = x \/ Follows(d, a, q, p)
    BY <1>0, <1>3, <1>4 DEF Follows
  <2>3. CASE p = x
    BY <1>0, <1>1, <1>2, <1>3, <2>3 DEF Once, Placed, Asks
  <2>4. CASE p # x
    <3>1. r2[p] = r[p] /\ (Follows(d2, a2, q, p) => Follows(d, a, q, p)) /\ (p \in ToSet(a2.mem) => p \in ToSet(a.mem))
      BY <1>3, <2>2, <2>4
    <3>2. Once(d2, e, l, a2, q, m, p)
      BY <1>0, <2>1, <3>1 DEF Once
    <3>3. Dest[p] # s => ~Placed(d2, e, l, a2, q, p)
      BY <2>1, <3>1 DEF Placed
    <3>4. Dest[p] = s => Asks(d2, e, l, a2, q, m, p, r2[p])
      BY <2>1, <3>1 DEF Asks, Placed
    <3> QED BY <3>2, <3>3, <3>4
  <2> QED BY <2>3, <2>4
<1> QED BY <1>5, <1>6 DEF InPlace

\* A kill takes what follows the head in flight.
LEMMA QueuePopped ==
  ASSUME NEW s, NEW d, NEW e, NEW l, NEW a, NEW q, NEW m, NEW r, InPlace(s, d, e, l, a, q, m, r), a.up,
         NEW a2 \in AgentRec, a2.up, a2.flight = a.flight, a2.mem = <<>>,
         NEW d2 \in DiskRec, d2.queue = Durable(a2), d2.turn = d.turn, d2.done = d.done
  PROVE  InPlace(s, d2, e, l, a2, q, m, r)
<1>0. /\ Typed(d, e, l, a, q) /\ Stored(d, l, a, q) /\ q = None
  BY DEF InPlace, Stored
<1>1. ToSet(a2.mem) = {} /\ IsInjective(a2.mem)
  BY AgentFields, EmptyIs
<1>2. IsInjective(d2.queue) /\ \A p \in Prompts : p \in ToSet(d2.queue) <=> a2.flight = p
  BY <1>1, DurableHolds
<1>3. Typed(d2, e, l, a2, q) /\ Stored(d2, l, a2, q)
  BY <1>0, <1>1, <1>2 DEF Typed, Stored
<1>4. \A p \in Prompts : Follows(d2, a2, q, p) => Follows(d, a, q, p)
  BY <1>0, <1>1, <1>2 DEF Follows
<1>5. \A p \in Prompts : p \in m => (a.flight = p => l.pc = "marked" /\ d.done = p)
  BY DEF InPlace, Once
<1> QED BY <1>0, <1>1, <1>3, <1>4, <1>5, QueueChanges

LEMMA DiskCleared ==
  ASSUME NEW s, NEW d, NEW e, NEW l, NEW a, NEW q, NEW m, NEW r, InPlace(s, d, e, l, a, q, m, r), ~a.up,
         Kills # {}, NEW d2 \in DiskRec, d2.queue = <<>>, d2.turn = d.turn, d2.done = d.done
  PROVE  InPlace(s, d2, e, l, a, q, m, r)
<1>0. /\ Typed(d, e, l, a, q) /\ Stored(d, l, a, q) /\ d2.queue \in Seq(Prompts)
  BY DEF InPlace, DiskRec
<1>1. ToSet(d2.queue) = {} /\ IsInjective(d2.queue)
  BY <1>0, EmptyIs
<1>2. Typed(d2, e, l, a, q) /\ Stored(d2, l, a, q)
  BY <1>0, <1>1 DEF Typed, Stored
<1>3. \A p \in Prompts : Follows(d2, a, q, p) => Follows(d, a, q, p)
  BY <1>1 DEF Follows
<1>4. \A p \in Prompts : p \in m => /\ p \notin ToSet(a.mem) /\ (q # None => p \notin ToSet(q))
                                    /\ a.flight = p => l.pc = "marked" /\ d.done = p
  BY DEF InPlace, Once
<1> QED BY <1>1, <1>2, <1>3, <1>4, QueueChanges

\* The head of the queue is begun.
LEMMA HeadBegun ==
  ASSUME NEW s, NEW d, NEW e, NEW l, NEW a, NEW q, NEW m, NEW r, InPlace(s, d, e, l, a, q, m, r),
         l.pc = "begin", l.kind = "follow_up", Peek(a) # None, a.flight = None,
         NEW a2 \in AgentRec, a2.up = a.up, a2.flight = Peek(a), a2.mem = Tail(a.mem),
         NEW l2 \in LaunchRec, l2.pc = "unfail", l2.kind = "follow_up", l2.p = Peek(a)
  PROVE  InPlace(s, d, e, l2, a2, q, m, r)
<1>0. /\ Typed(d, e, l, a, q) /\ Stored(d, l, a, q) /\ a \in AgentRec /\ a.mem \in Seq(Prompts) /\ IsInjective(a.mem)
  BY AgentFields DEF InPlace, Typed, Stored
<1> DEFINE h == Peek(a)
           w == Tail(a.mem)
<1>1. a.mem # <<>> /\ h = Head(a.mem) /\ h \in Prompts /\ w \in Seq(Prompts)
  BY <1>0, PeekIs
<1>2. ToSet(a.mem) = ToSet(w) \cup {h} /\ IsInjective(w) /\ h \notin ToSet(w)
  BY <1>0, <1>1, HeadAndTail
<1>3. <<h>> \o w = a.mem
  <2> DEFINE z == <<h>> \o w
  <2>1. /\ z \in Seq(Prompts) /\ Len(z) = Len(a.mem) /\ \A i \in 1 .. Len(a.mem) : z[i] = a.mem[i]
    BY <1>0, <1>1
  <2> QED BY <1>0, <2>1
<1>4. a.up /\ q = None /\ Durable(a) = a.mem
  BY <1>0, <1>1, NoneApart DEF Stored, Durable
<1>5. Durable(a2) = a.mem
  BY <1>1, <1>3, NoneApart DEF Durable
<1> HIDE DEF h, w
<1>6. a2.mem = w /\ a2.flight = h
  BY DEF h, w
<1>7. Typed(d, e, l2, a2, q) /\ Stored(d, l2, a2, q)
  BY <1>0, <1>2, <1>4, <1>5, <1>6 DEF Typed, Stored, h
<1>8. \A p \in Prompts : Runs(l2, p) <=> Runs(l, p)
  BY DEF Runs
<1>9. \A p \in Prompts : Follows(d, a2, q, p) => Follows(d, a, q, p)
  BY <1>2, <1>6 DEF Follows
<1>10. \A p \in Prompts : p \in m => p \notin ToSet(a.mem)
  BY DEF InPlace, Once
<1>11. \A p \in Prompts : p \in m => p \notin ToSet(a2.mem) /\ a2.flight # p
  BY <1>2, <1>6, <1>10
<1> QED BY <1>4, <1>7, <1>8, <1>9, <1>11, QueueChanges

\* The head in flight goes back.
LEMMA HeadGivenBack ==
  ASSUME NEW s, NEW d, NEW e, NEW l, NEW a, NEW q, NEW m, NEW r, InPlace(s, d, e, l, a, q, m, r),
         l.pc \notin {"none", "marked", "clear"}, a.flight # None,
         NEW a2 \in AgentRec, a2.up = a.up, a2.flight = None, a2.mem = <<a.flight>> \o a.mem,
         NEW d2 \in DiskRec, d2.queue = Durable(a2), d2.turn = d.turn, d2.done = d.done,
         NEW l2 \in LaunchRec, l2.pc = "failing", l2.kind = l.kind, l2.p = l.p
  PROVE  InPlace(s, d2, e, l2, a2, q, m, r)
<1>0. /\ Typed(d, e, l, a, q) /\ Stored(d, l, a, q) /\ a \in AgentRec /\ a.mem \in Seq(Prompts)
      /\ IsInjective(a.mem) /\ a.flight \notin ToSet(a.mem) /\ a.flight \in Prompts /\ a.up /\ q = None
  BY AgentFields DEF InPlace, Typed, Stored, PromptOrNone
<1> DEFINE f == a.flight
<1>1. ToSet(a2.mem) = ToSet(a.mem) \cup {f} /\ IsInjective(a2.mem) /\ a2.mem \in Seq(Prompts)
  BY <1>0, HeadPut
<1>2. None \notin ToSet(a2.mem)
  BY <1>1, AgentFields, NoneApart
<1>3. Durable(a2) = a2.mem
  BY DEF Durable
<1>4. Typed(d2, e, l2, a2, q) /\ Stored(d2, l2, a2, q)
  BY <1>0, <1>1, <1>2, <1>3 DEF Typed, Stored, Begun
<1>5. \A p \in Prompts : Runs(l2, p) <=> Runs(l, p)
  BY DEF Runs
<1>6. \A p \in Prompts : Follows(d2, a2, q, p) => Follows(d, a, q, p)
  BY <1>0, <1>1, <1>3, NoneApart DEF Follows
<1>7. \A p \in Prompts : p \in m => p \notin ToSet(a.mem) /\ a.flight # p
  BY DEF InPlace, Once
<1>8. \A p \in Prompts : p \in m => p \notin ToSet(a2.mem) /\ a2.flight # p
  BY <1>1, <1>7, NoneApart
<1> QED BY <1>0, <1>4, <1>5, <1>6, <1>8, QueueChanges

\* The head in flight is acknowledged, and its launch is over.
LEMMA HeadAcknowledged ==
  ASSUME NEW s, NEW d, NEW e, NEW l, NEW a, NEW q, NEW m, NEW r, InPlace(s, d, e, l, a, q, m, r),
         l.kind = "follow_up", a.flight # None,
         NEW a2 \in AgentRec, a2.up = a.up, a2.flight = None, a2.mem = a.mem,
         NEW d2 \in DiskRec, d2.queue = Durable(a2), d2.turn = d.turn, d2.done = d.done
  PROVE  InPlace(s, d2, e, NoLaunch, a2, q, m, r)
<1>a. NoLaunch.pc = "none" /\ NoLaunch \in LaunchRec
  BY NoLaunchTyped
<1> HIDE DEF NoLaunch
<1>0. /\ Typed(d, e, l, a, q) /\ Stored(d, l, a, q) /\ a \in AgentRec /\ a.mem \in Seq(Prompts)
      /\ IsInjective(a.mem) /\ ToSet(a.mem) \subseteq Prompts /\ a.up /\ q = None
  BY AgentFields DEF InPlace, Typed, Stored
<1>1. None \notin ToSet(a2.mem) /\ Durable(a2) = a.mem
  BY <1>0, NoneApart DEF Durable
<1>2. Typed(d2, e, NoLaunch, a2, q) /\ Stored(d2, NoLaunch, a2, q)
  BY <1>a, <1>0, <1>1 DEF Typed, Stored, Begun
<1>3. \A p \in Prompts : Runs(NoLaunch, p) <=> Runs(l, p)
  BY <1>a DEF Runs
<1>4. \A p \in Prompts : Follows(d2, a2, q, p) => Follows(d, a, q, p)
  BY <1>0, <1>1, NoneApart DEF Follows
<1>5. \A p \in Prompts : p \in m => p \notin ToSet(a.mem)
  BY DEF InPlace, Once
<1>6. \A p \in Prompts : p \in m => p \notin ToSet(a2.mem) /\ a2.flight # p
  BY <1>5, NoneApart
<1> QED BY <1>0, <1>2, <1>3, <1>4, <1>6, QueueChanges

\* InitAgent reads the queue on disk, and installs it.
LEMMA QueueRead ==
  ASSUME NEW s, NEW d, NEW e, NEW l, NEW a, NEW m, NEW r, InPlace(s, d, e, l, a, None, m, r),
         l.pc = "init", ~a.up, NEW l2 \in LaunchRec, l2.pc = "loading", l2.kind = l.kind, l2.p = l.p
  PROVE  InPlace(s, d, e, l2, a, d.queue, m, r)
<1>0. /\ Typed(d, e, l, a, None) /\ Stored(d, l, a, None) /\ d.queue \in Seq(Prompts)
  BY DEF InPlace, Typed, DiskRec
<1>1. Typed(d, e, l2, a, d.queue) /\ Stored(d, l2, a, d.queue)
  BY <1>0 DEF Typed, Stored, Begun
<1>2. \A p \in Prompts : Runs(l2, p) <=> Runs(l, p)
  BY DEF Runs
<1>3. \A p \in Prompts : Follows(d, a, d.queue, p) => Follows(d, a, None, p)
  BY DEF Follows
<1>4. \A p \in Prompts : p \in m => p \notin ToSet(a.mem) /\ p \notin ToSet(d.queue) /\ a.flight # p
  BY DEF InPlace, Once
<1> QED BY <1>1, <1>2, <1>3, <1>4, QueueChanges

LEMMA QueueInstalled ==
  ASSUME NEW s, NEW d, NEW e, NEW l, NEW a, NEW q \in Seq(Prompts), NEW m, NEW r, InPlace(s, d, e, l, a, q, m, r),
         q # None, l.pc = "loading", NEW a2 \in AgentRec, a2.up, a2.mem = q, a2.flight = None
  PROVE  InPlace(s, d, e, l, a2, None, m, r)
<1>0. /\ Typed(d, e, l, a, q) /\ Stored(d, l, a, q) /\ ToSet(q) \subseteq Prompts
  BY SetOf DEF InPlace
<1>1. None \notin ToSet(a2.mem) /\ Durable(a2) = q
  BY <1>0, NoneApart DEF Durable
<1>2. Typed(d, e, l, a2, None) /\ Stored(d, l, a2, None)
  BY <1>0, <1>1 DEF Typed, Stored, Begun
<1>3. \A p \in Prompts : Follows(d, a2, None, p) => Follows(d, a, q, p)
  BY NoneApart DEF Follows
<1>4. \A p \in Prompts : p \in m => p \notin ToSet(q)
  BY DEF InPlace, Once
<1>5. \A p \in Prompts : p \in m => p \notin ToSet(a2.mem) /\ a2.flight # p
  BY <1>4, NoneApart
<1> QED BY <1>2, <1>3, <1>5, QueueChanges

\* InitAgent fails.
LEMMA QueueDropped ==
  ASSUME NEW s, NEW d, NEW e, NEW l, NEW a, NEW q, NEW m, NEW r, InPlace(s, d, e, l, a, q, m, r)
  PROVE  InPlace(s, d, e, l, a, None, m, r)
<1>1. Typed(d, e, l, a, None) /\ Stored(d, l, a, None)
  BY DEF InPlace, Typed, Stored
<1>2. \A p \in Prompts : Follows(d, a, None, p) => Follows(d, a, q, p)
  BY DEF Follows
<1>3. \A p \in Prompts : p \in m => /\ p \notin ToSet(a.mem) /\ (a.flight = p => l.pc = "marked" /\ d.done = p)
                                    /\ ~a.up => p \notin ToSet(d.queue)
  BY DEF InPlace, Once
<1> QED BY <1>1, <1>2, <1>3, QueueChanges

-----------------------------------------------------------------------------
(* A turn completes.                                                         *)

\* The completed prompt is the one of the launch.
LEMMA TurnMarked ==
  ASSUME NEW s, NEW d, NEW e, NEW l, NEW a, NEW q, NEW m, NEW r, InPlace(s, d, e, l, a, q, m, r),
         Fits(l, a, q), l.pc = "mark",
         NEW d2 \in DiskRec, d2.queue = d.queue, d2.turn = d.turn, d2.done = l.p,
         NEW l2 \in LaunchRec, l2.pc = "marked", l2.kind = l.kind, l2.p = l.p
  PROVE  Dest[l.p] = s /\ InPlace(s, d2, e, l2, a, q, m \cup {l.p}, r)
<1> DEFINE x == l.p
<1>0. /\ Typed(d, e, l, a, q) /\ Stored(d, l, a, q) /\ x \in Prompts /\ x # None
  BY NoneApart DEF InPlace, Fits
<1>1. \/ Runs(l, x) /\ l.kind # "follow_up" /\ a.flight = None
      \/ l.kind = "follow_up" /\ a.flight = x
  BY <1>0 DEF Runs, Stored, Begun, Fits
<1>2. Dest[x] = s
  BY <1>0, <1>1 DEF InPlace, Placed, Follows
<1>3. Typed(d2, e, l2, a, q) /\ Stored(d2, l2, a, q)
  BY <1>0, <1>1 DEF Typed, Stored, Begun
<1>4. ASSUME NEW p \in Prompts
      PROVE  /\ Once(d2, e, l2, a, q, m \cup {x}, p)
             /\ Dest[p] # s => ~Placed(d2, e, l2, a, q, p)
             /\ Dest[p] = s => Asks(d2, e, l2, a, q, m \cup {x}, p, r[p])
  <2>1. /\ Once(d, e, l, a, q, m, p)
        /\ Dest[p] # s => ~Placed(d, e, l, a, q, p)
        /\ Dest[p] = s => Asks(d, e, l, a, q, m, p, r[p])
    BY DEF InPlace
  <2>2. (Runs(l2, p) <=> Runs(l, p)) /\ (Follows(d2, a, q, p) <=> Follows(d, a, q, p))
    BY DEF Runs, Follows
  <2>3. Dest[p] # s => ~Placed(d2, e, l2, a, q, p)
    BY <2>1, <2>2 DEF Placed
  <2>4. CASE p = x
    <3>1. Runs(l, p) \/ Follows(d, a, q, p)
      BY <1>1, <2>4 DEF Follows
    <3>2. ~Waits(e, p)
      BY <2>1, <3>1 DEF Once
    <3>3. /\ d.turn = p => Runs(l, p)
          /\ p \notin ToSet(a.mem) /\ (q # None => p \notin ToSet(q)) /\ (~a.up => p \notin ToSet(d.queue))
      <4>1. CASE Runs(l, x)
        BY <2>1, <2>4, <4>1 DEF Once, Follows
      <4>2. CASE a.flight = x
        BY <1>0, <2>1, <2>4, <4>2 DEF Once, Follows, Stored
      <4> QED BY <1>1, <4>1, <4>2
    <3>4. Once(d2, e, l2, a, q, m \cup {x}, p)
      BY <2>1, <2>2, <2>4, <3>2, <3>3 DEF Once
    <3>5. Asks(d2, e, l2, a, q, m \cup {x}, p, r[p]) \/ Dest[p] # s
      BY <2>1, <3>1, <3>2 DEF Asks, Placed
    <3> QED BY <2>3, <3>4, <3>5
  <2>5. CASE p # x
    <3>1. ~Runs(l, p) /\ (p \in m \cup {x} <=> p \in m)
      BY <2>5 DEF Runs
    <3>2. Once(d2, e, l2, a, q, m \cup {x}, p)
      BY <2>1, <2>2, <3>1 DEF Once
    <3>3. Dest[p] = s => Asks(d2, e, l2, a, q, m \cup {x}, p, r[p])
      BY <2>1, <2>2, <3>1 DEF Asks, Placed
    <3> QED BY <2>3, <3>2, <3>3
  <2> QED BY <2>4, <2>5
<1> QED BY <1>2, <1>3, <1>4 DEF InPlace

\* It is of no other session.
LEMMA OtherMarked ==
  ASSUME NEW s, NEW d, NEW e, NEW l, NEW a, NEW q, NEW m, NEW r, InPlace(s, d, e, l, a, q, m, r),
         NEW x \in Prompts, Dest[x] # s
  PROVE  InPlace(s, d, e, l, a, q, m \cup {x}, r)
<1>1. ASSUME NEW p \in Prompts
      PROVE  /\ Once(d, e, l, a, q, m \cup {x}, p)
             /\ Dest[p] # s => ~Placed(d, e, l, a, q, p)
             /\ Dest[p] = s => Asks(d, e, l, a, q, m \cup {x}, p, r[p])
  <2>1. /\ Once(d, e, l, a, q, m, p)
        /\ Dest[p] # s => ~Placed(d, e, l, a, q, p)
        /\ Dest[p] = s => Asks(d, e, l, a, q, m, p, r[p])
    BY DEF InPlace
  <2>2. CASE p = x
    BY <2>1, <2>2 DEF Once, Placed, Follows
  <2>3. CASE p # x
    BY <2>1, <2>3 DEF Once, Asks
  <2> QED BY <2>2, <2>3
<1> QED BY <1>1 DEF InPlace

\* A restart: what is restored is in place, and nothing else is anywhere.
LEMMA Restarted ==
  ASSUME NEW s, NEW d, NEW e, NEW l, NEW a, NEW q, NEW m, NEW r, InPlace(s, d, e, l, a, q, m, r),
         NEW d2 \in DiskRec, d2.turn = IF d.turn = d.done THEN None ELSE d.turn,
         d2.queue = Unfinished(d.queue, d.done), d2.done = d.done,
         NEW e2 \in Entry \cup {None}, \A p \in Prompts : Waits(e2, p) => d2.turn = p,
         NEW r2, \A p \in Prompts : /\ r2[p] \notin Early \ {"new"} /\ r2[p] \notin Steers /\ r2[p] # "wrote"
                                    /\ r2[p] = "new" => r[p] = "new"
  PROVE  InPlace(s, d2, e2, NoLaunch, Absent, None, m, r2)
<1>a. /\ NoLaunch.pc = "none" /\ NoLaunch \in LaunchRec
      /\ Absent \in AgentRec /\ ~Absent.up /\ Absent.mem = <<>> /\ Absent.flight = None
  BY NoLaunchTyped DEF Absent, AgentRec, PromptOrNone
<1> HIDE DEF NoLaunch, Absent
<1>0. /\ Typed(d, e, l, a, q) /\ Stored(d, l, a, q) /\ d.queue \in Seq(Prompts) /\ d2.queue \in Seq(Prompts)
      /\ a \in AgentRec
  BY DEF InPlace, Typed, DiskRec
<1>1. ToSet(Absent.mem) = {} /\ IsInjective(Absent.mem)
  BY <1>a, AgentFields, EmptyIs
<1>2. ToSet(d2.queue) \subseteq ToSet(d.queue) /\ IsInjective(d2.queue)
  <2>1. d.queue # <<>> => ToSet(d.queue) = ToSet(Tail(d.queue)) \cup {Head(d.queue)} /\ IsInjective(Tail(d.queue))
    BY <1>0, HeadAndTail DEF Stored
  <2> QED BY <1>0, <2>1 DEF Unfinished, Stored
<1>3. ASSUME NEW p \in Prompts, p \in m PROVE p \notin ToSet(d2.queue)
  <2>1. SUFFICES ASSUME p \in ToSet(d.queue) PROVE p \notin ToSet(d2.queue)
    BY <1>2
  <2>2. a.up /\ p \notin ToSet(a.mem) /\ (a.flight = p => d.done = p)
    BY <1>3, <2>1 DEF InPlace, Once
  <2>3. d.queue # <<>>
    BY <1>0, <2>1, EmptyIs
  <2>4. d.queue = Durable(a)
    BY <1>0, <2>2, <2>3 DEF Stored
  <2>5. a.flight = p
    BY <1>0, <2>1, <2>2, <2>4, DurableHolds DEF Stored
  <2>6. d.queue = <<p>> \o a.mem
    BY <1>0, <2>4, <2>5, NoneApart, DurableHolds DEF Stored
  <2>7. Head(d.queue) = p /\ Tail(d.queue) = a.mem
    BY <1>0, <2>6, AgentFields, HeadPut
  <2>8. d2.queue = a.mem
    BY <2>2, <2>3, <2>5, <2>7 DEF Unfinished
  <2> QED BY <2>2, <2>8
<1>4. Typed(d2, e2, NoLaunch, Absent, None) /\ Stored(d2, NoLaunch, Absent, None)
  BY <1>a, <1>0, <1>1, <1>2 DEF Typed, Stored, Begun
<1>5. ASSUME NEW p \in Prompts
      PROVE  /\ Once(d2, e2, NoLaunch, Absent, None, m, p)
             /\ Dest[p] # s => ~Placed(d2, e2, NoLaunch, Absent, None, p)
             /\ Dest[p] = s => Asks(d2, e2, NoLaunch, Absent, None, m, p, r2[p])
  <2>1. /\ Once(d, e, l, a, q, m, p)
        /\ Dest[p] # s => ~Placed(d, e, l, a, q, p)
        /\ Dest[p] = s => Asks(d, e, l, a, q, m, p, r[p])
    BY DEF InPlace
  <2>2. ~Runs(NoLaunch, p) /\ p # None /\ (d2.turn = p => d.turn = p /\ d.done # p) /\ (Waits(e2, p) => d2.turn = p)
    BY <1>a, NoneApart DEF Runs
  <2>3. /\ Follows(d2, Absent, None, p) <=> p \in ToSet(d2.queue)
        /\ p \in ToSet(d2.queue) => Follows(d, a, q, p)
    BY <1>a, <1>1, <1>2, <2>2 DEF Follows
  <2>4. d2.turn = p => p \notin m /\ ~Follows(d2, Absent, None, p)
    BY <2>1, <2>2, <2>3 DEF Once
  <2>5. Once(d2, e2, NoLaunch, Absent, None, m, p)
    BY <1>a, <1>1, <1>3, <2>2, <2>4 DEF Once
  <2>6. Dest[p] # s => ~Placed(d2, e2, NoLaunch, Absent, None, p)
    BY <2>1, <2>2, <2>3 DEF Placed
  <2>7. Dest[p] = s => Asks(d2, e2, NoLaunch, Absent, None, m, p, r2[p])
    BY <2>1, <2>2, <2>3 DEF Asks, Placed, Early
  <2> QED BY <2>5, <2>6, <2>7
<1> QED BY <1>4, <1>5 DEF InPlace

-----------------------------------------------------------------------------
(* All sessions: what the run queue does in one step.                        *)

AllPlaced(d, e, l, a, q, m, r) ==
  \A t \in Sessions : InPlace(t, d[t], e[t], l[t], a[t], q[t], m, r)

\* One session changes; to the others, requests say at most less.
LEMMA OneMoves ==
  ASSUME NEW d, NEW e, NEW l, NEW a, NEW q, NEW m, NEW r, AllPlaced(d, e, l, a, q, m, r), NEW s \in Sessions,
         NEW d2, NEW e2, NEW l2, NEW a2, NEW q2, NEW r2,
         \A t \in Sessions \ {s} : d2[t] = d[t] /\ e2[t] = e[t] /\ l2[t] = l[t] /\ a2[t] = a[t] /\ q2[t] = q[t],
         \A p \in Prompts : Dest[p] # s => Milder(r[p], r2[p]),
         InPlace(s, d2[s], e2[s], l2[s], a2[s], q2[s], m, r2)
  PROVE  AllPlaced(d2, e2, l2, a2, q2, m, r2)
<1>1. ASSUME NEW t \in Sessions \ {s} PROVE InPlace(t, d2[t], e2[t], l2[t], a2[t], q2[t], m, r2)
  <2>1. InPlace(t, d[t], e[t], l[t], a[t], q[t], m, r)
    BY DEF AllPlaced
  <2>2. \A p \in Prompts : Dest[p] = t => Milder(r[p], r2[p])
    OBVIOUS
  <2>3. InPlace(t, d[t], e[t], l[t], a[t], q[t], m, r2)
    BY <2>1, <2>2, RequestMilder
  <2> QED BY <2>3
<1> QED BY <1>1 DEF AllPlaced

LEMMA PumpPlaces ==
  ASSUME NEW h, NEW l, l \in [Sessions -> LaunchRec], Settled(h, l), NEW held,
         NEW d, NEW a, NEW q, NEW m, NEW r, AllPlaced(d, h.ids, l, a, q, m, r),
         \A p \in Prompts : r[p] \in Steers => Dest[p] \in held,
         Schedules(Pump(h, held), l)
  PROVE  AllPlaced(d, byId', launch', a, q, m, r)
<1> DEFINE g == Pump(h, held)
           of(s) == CHOOSE e \in g.go : e.s = s
           new(s) == [pc |-> "init", p |-> of(s).p, kind |-> of(s).kind, handed |-> FALSE]
<1>1. Indexed(h) /\ Slotted(h) /\ h.go = {} /\ h.run = {s \in Sessions : l[s] # NoLaunch}
  BY DEF Settled
<1>2. /\ Indexed(g) /\ Slotted(g) /\ Starts(h, g, held)
      /\ \A e \in g.go : e.s \notin h.run
  BY <1>1, PumpKeeps
<1>3. /\ byId' = g.ids
      /\ launch' = [s \in Sessions |-> IF \E e \in g.go : e.s = s THEN new(s) ELSE l[s]]
  BY Zenon DEF Schedules
<1> HIDE DEF g
<1>4. ASSUME NEW t \in Sessions PROVE InPlace(t, d[t], byId'[t], launch'[t], a[t], q[t], m, r)
  <2>1. InPlace(t, d[t], h.ids[t], l[t], a[t], q[t], m, r)
    BY DEF AllPlaced
  <2>2. CASE g.ids[t] = h.ids[t] /\ \A e \in g.go \ h.go : e.s # t
    <3>1. launch'[t] = l[t] /\ byId'[t] = h.ids[t]
      <4> HIDE DEF new
      <4> QED BY <1>1, <1>3, <2>2
    <3> QED BY <2>1, <3>1
  <2>3. CASE h.ids[t] # None /\ g.ids[t] = None /\ h.ids[t] \in g.go \ h.go /\ t \notin held
    <3> DEFINE e == h.ids[t]
    <3>1. e \in Entry /\ e.s = t
      BY <1>1, <2>3, QueueFields DEF Indexed
    <3>2. of(t) = e
      BY <1>2, <2>3, <3>1 DEF Slotted
    <3> HIDE DEF of
    <3>3. launch'[t] = [pc |-> "init", p |-> e.p, kind |-> e.kind, handed |-> FALSE] /\ byId'[t] = None
      <4>1. \E x \in g.go : x.s = t
        BY <2>3, <3>1
      <4>2. launch'[t] = new(t)
        <5> HIDE DEF new
        <5> QED BY <1>3, <4>1
      <4> QED BY <1>3, <2>3, <3>2, <4>2
    <3>4. l[t] = NoLaunch
      BY <1>1, <1>2, <2>3, <3>1
    <3>5. \A p \in Prompts : r[p] \in Steers => Dest[p] # t
      BY <2>3
    <3> DEFINE n == launch'[t]
    <3>6. n = [pc |-> "init", p |-> e.p, kind |-> e.kind, handed |-> FALSE]
      BY <3>3
    <3>7. InPlace(t, d[t], e, NoLaunch, a[t], q[t], m, r)
      BY <2>1, <3>4
    <3> HIDE DEF e, n, NoLaunch
    <3>8. InPlace(t, d[t], None, n, a[t], q[t], m, r)
      BY <3>1, <3>5, <3>6, <3>7, TurnStarts
    <3> QED BY <3>3, <3>8 DEF n
  <2> QED BY <1>2, <2>2, <2>3 DEF Starts
<1> QED BY <1>4 DEF AllPlaced

LEMMA SamePlaces ==
  ASSUME NEW h, NEW l, l \in [Sessions -> LaunchRec], Settled(h, l), Schedules(h, l)
  PROVE  byId' = h.ids /\ launch' = l
<1> DEFINE of(s) == CHOOSE x \in h.go : x.s = s
           new(s) == [pc |-> "init", p |-> of(s).p, kind |-> of(s).kind, handed |-> FALSE]
<1>1. h.go = {}
  BY DEF Settled
<1>2. /\ byId' = h.ids
      /\ launch' = [s \in Sessions |-> IF \E e \in h.go : e.s = s THEN new(s) ELSE l[s]]
  BY Zenon DEF Schedules
<1> HIDE DEF new
<1> QED BY <1>1, <1>2

LEMMA EnqueuedIds ==
  ASSUME NEW h, NEW l, Settled(h, l), NEW e \in Entry
  PROVE  Enqueue(h, e).ids = IF h.ids[e.s] # None THEN h.ids ELSE [h.ids EXCEPT ![e.s] = e]
<1>1. CASE h.ids[e.s] # None
  BY <1>1 DEF Enqueue
<1>2. CASE h.ids[e.s] = None
  <2>1. h \in Queues
    BY DEF Settled, Indexed
  <2> QED BY <1>2, <2>1 DEF Enqueue, Queues
<1> QED BY <1>1, <1>2

LEMMA DroppedIds ==
  ASSUME NEW h, NEW l, Settled(h, l), NEW s \in Sessions
  PROVE  Drop(h, s).ids = [h.ids EXCEPT ![s] = None]
<1> DEFINE w == RemoveFirst(h.q, h.ids[s])
           cut == [h EXCEPT !.q = w]
<1>1. Indexed(h) /\ h \in Queues
  BY DEF Settled, Indexed
<1>2. h.q \in Seq(Entry) /\ h.ids \in [Sessions -> Entry \cup {None}] /\ h.run \in SUBSET Sessions /\ h.go \in SUBSET Entry
  BY <1>1, QueueFields
<1>3. w \in Seq(Entry)
  BY <1>1, <1>2, FirstRemoved DEF Indexed
<1> HIDE DEF w
<1>4. cut = [q |-> w, ids |-> h.ids, run |-> h.run, go |-> h.go]
  BY <1>1, <1>3, Replaced, Zenon
<1>5. Drop(h, s) = [cut EXCEPT !.ids = [@ EXCEPT ![s] = None]]
  BY Zenon DEF Drop, cut, w
<1> HIDE DEF cut
<1>6. cut.ids = h.ids /\ cut = [q |-> cut.q, ids |-> cut.ids, run |-> cut.run, go |-> cut.go]
  BY <1>4
<1> QED BY <1>5, <1>6

LEMMA FollowUpPlaces ==
  ASSUME NEW h, NEW l, Settled(h, l), NEW d, NEW a, NEW q, NEW m, NEW r, AllPlaced(d, h.ids, l, a, q, m, r),
         NEW s \in Sessions, NEW b \in AgentRec, Peek(b) # None
  PROVE  AllPlaced(d, Enqueue(h, FollowUpEntry(s, b)).ids, l, a, q, m, r)
<1> DEFINE e == FollowUpEntry(s, b)
           ids == Enqueue(h, e).ids
<1>1. e \in Entry /\ e.s = s /\ e.kind = "follow_up"
  BY FollowUpTyped DEF FollowUpEntry
<1> HIDE DEF e
<1>2. ids = IF h.ids[s] # None THEN h.ids ELSE [h.ids EXCEPT ![s] = e]
  BY <1>1, EnqueuedIds
<1>3. h.ids \in [Sessions -> Entry \cup {None}]
  BY QueueFields DEF Settled, Indexed
<1> HIDE DEF ids
<1>4. CASE h.ids[s] # None
  BY <1>2, <1>4 DEF ids, e
<1>5. CASE h.ids[s] = None
  <2>1. ids[s] = e /\ \A t \in Sessions \ {s} : ids[t] = h.ids[t]
    BY <1>2, <1>3, <1>5
  <2>2. InPlace(s, d[s], h.ids[s], l[s], a[s], q[s], m, r)
    BY DEF AllPlaced
  <2>3. \A p \in Prompts : Waits(e, p) <=> Waits(h.ids[s], p)
    BY <1>1, <1>5 DEF Waits
  <2>4. \A p \in Prompts : Milder(r[p], r[p])
    BY DEF Milder
  <2>5. InPlace(s, d[s], e, l[s], a[s], q[s], m, r)
    BY <1>1, <2>2, <2>3, <2>4, EntryChanges
  <2>6. InPlace(s, d[s], ids[s], l[s], a[s], q[s], m, r)
    BY <2>1, <2>5
  <2> QED BY <2>1, <2>4, <2>6, OneMoves DEF ids, e
<1> QED BY <1>4, <1>5

LEMMA DrainPlaces ==
  ASSUME NEW h, NEW l, l \in [Sessions -> LaunchRec], Settled(h, l), NEW held, NEW stop, NEW fail,
         NEW d, NEW a, NEW q, NEW m, NEW r, AllPlaced(d, h.ids, l, a, q, m, r),
         \A p \in Prompts : r[p] \in Steers => Dest[p] \in held,
         NEW s \in Sessions, NEW b \in AgentRec, Schedules(Drained(h, s, stop, fail, b, held), l)
  PROVE  AllPlaced(d, byId', launch', a, q, m, r)
<1>1. CASE s \in stop \cup fail \/ ~b.up \/ Peek(b) = None
  <2>1. Schedules(h, l)
    BY <1>1 DEF Drained
  <2> QED BY <2>1, SamePlaces
<1>2. CASE ~(s \in stop \cup fail \/ ~b.up \/ Peek(b) = None)
  <2> DEFINE e == FollowUpEntry(s, b)
             g == Enqueue(h, e)
  <2>1. Schedules(Pump(g, held), l)
    BY <1>2 DEF Drained
  <2>2. e \in Entry
    BY <1>2, FollowUpTyped
  <2>3. AllPlaced(d, g.ids, l, a, q, m, r)
    BY <1>2, FollowUpPlaces
  <2> HIDE DEF e
  <2>4. Settled(g, l)
    BY <2>2, SettledEnqueue
  <2> HIDE DEF g
  <2> QED BY <2>1, <2>3, <2>4, PumpPlaces
<1> QED BY <1>1, <1>2

\* A launch of s is over.
LEMMA EndsPlaces ==
  ASSUME launch \in [Sessions -> LaunchRec], SlotInv, NEW s \in Sessions, NEW b \in AgentRec, Ends(s, b),
         NEW d, NEW a, NEW q, NEW m, NEW r, AllPlaced(d, byId, [launch EXCEPT ![s] = NoLaunch], a, q, m, r),
         \A p \in Prompts : r[p] \in Steers => Dest[p] \in steering
  PROVE  AllPlaced(d, byId', launch', a, q, m, r)
<1> DEFINE freed == [Now EXCEPT !.run = @ \ {s}]
           l == [launch EXCEPT ![s] = NoLaunch]
           h == IF s \in stopped \cup failed \/ ~b.up \/ Peek(b) = None THEN freed
                ELSE Enqueue(freed, FollowUpEntry(s, b))
<1>1. Settled(freed, l) /\ l \in [Sessions -> LaunchRec]
  BY FreedSettled, NoLaunchTyped
<1>2. freed.ids = byId
  <2>1. Now = [q |-> queue, ids |-> byId, run |-> running, go |-> {}]
    BY DEF Now
  <2> QED BY <2>1
<1>3. Schedules(Pump(h, Held), l)
  BY Zenon DEF Ends
<1>4. AllPlaced(d, freed.ids, l, a, q, m, r)
  BY <1>2
<1> HIDE DEF freed, l
<1>5. Settled(h, l) /\ AllPlaced(d, h.ids, l, a, q, m, r)
  <2>1. CASE s \in stopped \cup failed \/ ~b.up \/ Peek(b) = None
    BY <1>1, <1>4, <2>1
  <2>2. CASE ~(s \in stopped \cup failed \/ ~b.up \/ Peek(b) = None)
    <3> DEFINE e == FollowUpEntry(s, b)
    <3>1. e \in Entry
      BY <2>2, FollowUpTyped
    <3>2. AllPlaced(d, Enqueue(freed, e).ids, l, a, q, m, r)
      BY <1>1, <1>4, <2>2, FollowUpPlaces
    <3> HIDE DEF e
    <3>3. Settled(Enqueue(freed, e), l)
      BY <1>1, <3>1, SettledEnqueue
    <3> QED BY <2>2, <3>2, <3>3 DEF e
  <2> QED BY <2>1, <2>2
<1> HIDE DEF h
<1> QED BY <1>1, <1>3, <1>5, PumpPlaces DEF Held

-----------------------------------------------------------------------------
(* The inductive invariant.                                                  *)

\* The request r in state x holds the scheduling lock of its session.
HoldsLock(r, x) ==
  \/ x \in Steers \cup {"handoff", "handed", "writing", "submitted", "followed", "killwrite", "killwrote"}
  \/ x = "wrote" /\ r \in Prompts /\ Via[r] = "send"

LockInv ==
  /\ \A r \in Prompts \cup Kills : HoldsLock(r, req[r]) => lock[To(r)] = r
  /\ \A p \in Prompts : req[p] \in Steers => Dest[p] \in steering

Places == AllPlaced(disk, byId, launch, agent, loading, marked, req)

NInv == HInv /\ LockInv /\ Places

-----------------------------------------------------------------------------
(* Locks.                                                                    *)

LEMMA Moved ==
  ASSUME ReqInv, NEW r \in Prompts \cup Kills, NEW y, Moves(r, y)
  PROVE  req'[r] = y /\ \A x \in Prompts \cup Kills : x # r => req'[x] = req[x]
BY DEF ReqInv, Moves

LEMMA LockFacts ==
  ASSUME ReqInv
  PROVE  /\ lock \in [Sessions -> {None, "launch"} \cup Prompts \cup Kills]
         /\ \A r \in Prompts \cup Kills : To(r) \in Sessions /\ r # None /\ r # "launch"
         /\ \A p \in Prompts : To(p) = Dest[p]
         /\ \A k \in Kills : To(k) = Target[k]
BY DestIs, HeadlessAssumption DEF ReqInv, To, Prompted

LEMMA LockKept ==
  ASSUME ReqInv, LockInv, NEW r \in Prompts \cup Kills, NEW y, Moves(r, y), lock' = lock, steering \subseteq steering',
         HoldsLock(r, y) => HoldsLock(r, req[r]), y \in Steers => req[r] \in Steers
  PROVE  LockInv'
<1>1. req'[r] = y /\ \A x \in Prompts \cup Kills : x # r => req'[x] = req[x]
  BY Moved
<1>2. \A x \in Prompts \cup Kills : HoldsLock(x, req'[x]) => HoldsLock(x, req[x])
  BY <1>1
<1>3. \A p \in Prompts : req'[p] \in Steers => req[p] \in Steers
  BY <1>1
<1>4. \A x \in Prompts \cup Kills : HoldsLock(x, req'[x]) => lock'[To(x)] = x
  BY <1>2 DEF LockInv
<1> QED BY <1>3, <1>4 DEF LockInv

LEMMA LockTaken ==
  ASSUME ReqInv, LockInv, NEW r \in Prompts \cup Kills, NEW y, Moves(r, y), lock[To(r)] = None,
         lock' = [lock EXCEPT ![To(r)] = r], steering \subseteq steering',
         y \in Steers => To(r) \in steering'
  PROVE  LockInv'
<1>1. req'[r] = y /\ \A x \in Prompts \cup Kills : x # r => req'[x] = req[x]
  BY Moved
<1>2. ASSUME NEW x \in Prompts \cup Kills, HoldsLock(x, req'[x]) PROVE lock'[To(x)] = x
  <2>1. CASE x = r
    BY <2>1, LockFacts
  <2>2. CASE x # r
    <3>1. lock[To(x)] = x
      BY <1>1, <1>2, <2>2 DEF LockInv
    <3> QED BY <3>1, LockFacts
  <2> QED BY <2>1, <2>2
<1>3. \A p \in Prompts : req'[p] \in Steers => Dest[p] \in steering'
  BY <1>1, LockFacts DEF LockInv
<1> QED BY <1>2, <1>3 DEF LockInv

LEMMA LockGiven ==
  ASSUME ReqInv, LockInv, NEW r \in Prompts \cup Kills, NEW y, Moves(r, y), lock[To(r)] = r, ~HoldsLock(r, y),
         lock' = [lock EXCEPT ![To(r)] = None], steering \ {To(r)} \subseteq steering'
  PROVE  LockInv'
<1>1. req'[r] = y /\ \A x \in Prompts \cup Kills : x # r => req'[x] = req[x]
  BY Moved
<1>2. ASSUME NEW x \in Prompts \cup Kills, HoldsLock(x, req'[x]) PROVE lock'[To(x)] = x /\ To(x) # To(r)
  <2>1. x # r
    BY <1>1, <1>2
  <2>2. lock[To(x)] = x
    BY <1>1, <1>2, <2>1 DEF LockInv
  <2> QED BY <2>1, <2>2, LockFacts
<1>3. ASSUME NEW p \in Prompts, req'[p] \in Steers PROVE Dest[p] \in steering'
  <2>1. HoldsLock(p, req'[p])
    BY <1>3 DEF HoldsLock
  <2>2. p # r /\ Dest[p] # To(r)
    BY <1>1, <1>2, <2>1, LockFacts
  <2>3. Dest[p] \in steering
    BY <1>1, <1>3, <2>2 DEF LockInv
  <2> QED BY <2>2, <2>3
<1> QED BY <1>2, <1>3 DEF LockInv

\* A lock that no request holds changes, or none.
LEMMA LockIdle ==
  ASSUME ReqInv, LockInv, req' = req, steering' = steering, NEW s \in Sessions, NEW x,
         lock' = lock \/ (lock' = [lock EXCEPT ![s] = x] /\ lock[s] \notin Prompts \cup Kills)
  PROVE  LockInv'
<1>1. ASSUME NEW z \in Prompts \cup Kills, HoldsLock(z, req'[z]) PROVE lock'[To(z)] = z
  <2>1. lock[To(z)] = z
    BY <1>1 DEF LockInv
  <2> QED BY <2>1, LockFacts
<1> QED BY <1>1 DEF LockInv

LEMMA LockHanded ==
  ASSUME ReqInv, LockInv, NEW s, HandsOver(s), lock' = lock, steering' = steering
  PROVE  LockInv'
<1>1. \A x \in Prompts \cup Kills : req'[x] = req[x] \/ (req[x] = "handoff" /\ req'[x] = "handed")
  BY DEF ReqInv, HandsOver
<1>2. \A x \in Prompts \cup Kills : HoldsLock(x, req'[x]) => HoldsLock(x, req[x])
  BY <1>1 DEF HoldsLock
<1>3. \A p \in Prompts : req'[p] \in Steers => req[p] \in Steers
  BY <1>1 DEF Steers
<1> QED BY <1>2, <1>3 DEF LockInv

\* What the end of a launch does to requests and locks.
LEMMA EndsMild ==
  ASSUME ReqInv, LockInv, NEW s \in Sessions, NEW b, Ends(s, b), steering' = steering
  PROVE  /\ LockInv' /\ \A x \in Prompts \cup Kills : Milder(req[x], req'[x])
         /\ \A p \in Prompts : req'[p] \in Steers => Dest[p] \in steering
<1> DEFINE orphans == {r \in Prompts : req[r] = "handoff" /\ Dest[r] = s}
<1>1. /\ req' = [r \in DOMAIN req |-> IF r \in orphans THEN "refused" ELSE req[r]]
      /\ lock' = IF lock[s] \in orphans \cup {"launch"} THEN [lock EXCEPT ![s] = None] ELSE lock
  BY Zenon DEF Ends
<1>2. \A x \in Prompts \cup Kills : req'[x] = req[x] \/ (req'[x] = "refused" /\ x \in orphans)
  BY <1>1 DEF ReqInv
<1>3. \A x \in Prompts \cup Kills : Milder(req[x], req'[x])
  BY <1>2 DEF Milder, Early, Steers
<1>4. \A p \in Prompts : req'[p] \in Steers => Dest[p] \in steering
  BY <1>3 DEF Milder, LockInv
<1>5. ASSUME NEW z \in Prompts \cup Kills, HoldsLock(z, req'[z]) PROVE lock'[To(z)] = z
  <2>1. req'[z] = req[z]
    BY <1>2, <1>5 DEF HoldsLock, Steers
  <2>2. lock[To(z)] = z
    BY <1>5, <2>1 DEF LockInv
  <2>3. z \notin orphans
    <3>1. z \in DOMAIN req
      BY DEF ReqInv
    <3>2. z \in orphans => req'[z] = "refused"
      BY <1>1, <3>1
    <3>3. z \in orphans => req[z] = "handoff"
      OBVIOUS
    <3> QED BY <2>1, <3>2, <3>3
  <2>4. lock[s] \in orphans \cup {"launch"} => To(z) # s
    BY <2>2, <2>3, LockFacts
  <2> HIDE DEF orphans
  <2> QED BY <1>1, <2>2, <2>4, LockFacts
<1> QED BY <1>3, <1>4, <1>5 DEF LockInv

-----------------------------------------------------------------------------
(* Requests keep every prompt in its place.                                  *)

LEMMA OneRequest ==
  ASSUME ReqInv, NEW r \in Prompts \cup Kills, NEW y, Moves(r, y), Milder(req[r], y)
  PROVE  \A x \in Prompts \cup Kills : Milder(req[x], req'[x])
<1>1. req'[r] = y /\ \A x \in Prompts \cup Kills : x # r => req'[x] = req[x]
  BY Moved
<1> QED BY <1>1 DEF Milder

LEMMA PlacesMild ==
  ASSUME Places, \A x \in Prompts \cup Kills : Milder(req[x], req'[x])
  PROVE  AllPlaced(disk, byId, launch, agent, loading, marked, req')
<1>1. ASSUME NEW t \in Sessions
      PROVE  InPlace(t, disk[t], byId[t], launch[t], agent[t], loading[t], marked, req')
  <2>1. InPlace(t, disk[t], byId[t], launch[t], agent[t], loading[t], marked, req)
    BY DEF Places, AllPlaced
  <2> QED BY <2>1, RequestMilder
<1> QED BY <1>1 DEF AllPlaced

LEMMA OnlyRequests ==
  ASSUME Places, \A x \in Prompts \cup Kills : Milder(req[x], req'[x]),
         UNCHANGED <<disk, byId, launch, agent, loading, marked>>
  PROVE  Places'
BY PlacesMild DEF Places

\* One field of a session's record on disk is written.
LEMMA DiskIs ==
  ASSUME DiskInv, NEW s \in Sessions, NEW x
  PROVE  /\ disk' = [disk EXCEPT ![s].turn = x] =>
              /\ disk'[s].turn = x /\ disk'[s].queue = disk[s].queue /\ disk'[s].done = disk[s].done
              /\ \A t \in Sessions \ {s} : disk'[t] = disk[t]
         /\ disk' = [disk EXCEPT ![s].failed = x] =>
              /\ disk'[s].turn = disk[s].turn /\ disk'[s].queue = disk[s].queue /\ disk'[s].done = disk[s].done
              /\ \A t \in Sessions \ {s} : disk'[t] = disk[t]
         /\ disk' = [disk EXCEPT ![s].done = x] =>
              /\ disk'[s].turn = disk[s].turn /\ disk'[s].queue = disk[s].queue /\ disk'[s].done = x
              /\ \A t \in Sessions \ {s} : disk'[t] = disk[t]
         /\ disk' = [disk EXCEPT ![s].queue = x] =>
              /\ disk'[s].turn = disk[s].turn /\ disk'[s].queue = x /\ disk'[s].done = disk[s].done
              /\ \A t \in Sessions \ {s} : disk'[t] = disk[t]
BY DEF DiskInv, DiskRec

LEMMA SavesIs ==
  ASSUME DiskInv, agent \in [Sessions -> AgentRec], NEW s \in Sessions, NEW a \in AgentRec, Saves(s, a)
  PROVE  /\ disk'[s] \in DiskRec /\ disk'[s].queue = Durable(a)
         /\ disk'[s].turn = disk[s].turn /\ disk'[s].done = disk[s].done /\ agent'[s] = a
         /\ \A t \in Sessions \ {s} : disk'[t] = disk[t] /\ agent'[t] = agent[t]
<1>1. disk' = [disk EXCEPT ![s].queue = Durable(a)] /\ DiskInv' /\ agent'[s] = a
      /\ \A t \in Sessions \ {s} : agent'[t] = agent[t]
  BY SavesKeeps DEF Saves
<1>2. disk'[s] \in DiskRec
  BY <1>1 DEF DiskInv
<1> QED BY <1>1, <1>2, DiskIs

LEMMA HFacts ==
  ASSUME HInv
  PROVE  /\ LaunchesFit /\ SlotInv /\ DiskInv /\ ReqInv /\ Settled(Now, launch) /\ Now.ids = byId
         /\ launch \in [Sessions -> LaunchRec] /\ agent \in [Sessions -> AgentRec]
         /\ byId \in [Sessions -> Entry \cup {None}]
<1>1. /\ LaunchesFit /\ SlotInv /\ DiskInv /\ ReqInv /\ Settled(Now, launch)
      /\ launch \in [Sessions -> LaunchRec] /\ agent \in [Sessions -> AgentRec]
  BY DEF HInv, SlotInv, LaunchesFit
<1>2. Now = [q |-> queue, ids |-> byId, run |-> running, go |-> {}] /\ Now.ids = byId
  BY DEF Now
<1>3. Now.ids \in [Sessions -> Entry \cup {None}]
  BY <1>1, QueueFields DEF Settled, Indexed
<1> QED BY <1>1, <1>2, <1>3

LEMMA PlaceOf ==
  ASSUME Places, NEW s \in Sessions
  PROVE  InPlace(s, disk[s], byId[s], launch[s], agent[s], loading[s], marked, req)
BY DEF Places, AllPlaced

\* Without the lock no steer of the session is under way.
LEMMA NoSteer ==
  ASSUME ReqInv, LockInv, NEW s, NEW p \in Prompts, Dest[p] = s, req[p] \in Steers
  PROVE  lock[s] = p /\ lock[s] # None
<1>1. HoldsLock(p, req[p])
  BY DEF HoldsLock
<1> QED BY <1>1, LockFacts DEF LockInv

\* The queued turn of a session is written while its request goes on.
LEMMA TurnPlaces ==
  ASSUME HInv, Places, NEW p \in Prompts, NEW y, Moves(p, y),
         disk' = [disk EXCEPT ![Dest[p]].turn = p], DiskInv',
         \/ y = "wrote" /\ req[p] \in Early
         \/ y = "steerwrote" /\ req[p] = "steering",
         UNCHANGED <<byId, launch, agent, loading, marked>>
  PROVE  Places'
<1> DEFINE s == Dest[p]
<1>0. s \in Sessions /\ ReqInv /\ DiskInv
  BY DestIs, HFacts
<1>1. /\ disk'[s].turn = p /\ disk'[s].queue = disk[s].queue /\ disk'[s].done = disk[s].done
      /\ \A t \in Sessions \ {s} : disk'[t] = disk[t]
      /\ disk'[s] \in DiskRec
  BY <1>0, DiskIs DEF DiskInv
<1>2. req'[p] = y /\ \A x \in Prompts \cup Kills : x # p => req'[x] = req[x]
  BY <1>0, Moved
<1> HIDE DEF s
<1>3. InPlace(s, disk[s], byId[s], launch[s], agent[s], loading[s], marked, req)
  BY <1>0, PlaceOf
<1>4. \A x \in Prompts : disk'[s].turn = x => disk[s].turn = x \/ (Dest[x] = s /\ req[x] \in Early \cup {"steering"})
  BY <1>1 DEF s
<1>5. \A x \in Prompts : Dest[x] = s => \/ req'[x] = "wrote" /\ req[x] \in Early
                                        \/ Milder(req[x], req'[x]) /\ (disk'[s].turn = x => disk[s].turn = x \/ req'[x] \notin Early)
  BY <1>1, <1>2 DEF Milder, Early, Steers
<1> DEFINE d2 == disk'
           r2 == req'
           f == d2[s]
<1>6. InPlace(s, f, byId[s], launch[s], agent[s], loading[s], marked, r2)
  <2>1. f \in DiskRec /\ f.queue = disk[s].queue /\ f.done = disk[s].done
    BY <1>1
  <2>2. \A x \in Prompts : f.turn = x => disk[s].turn = x \/ (Dest[x] = s /\ req[x] \in Early \cup {"steering"})
    BY <1>4
  <2>3. \A x \in Prompts : Dest[x] = s => \/ r2[x] = "wrote" /\ req[x] \in Early
                                          \/ Milder(req[x], r2[x]) /\ (f.turn = x => disk[s].turn = x \/ r2[x] \notin Early)
    BY <1>5
  <2> HIDE DEF f, r2
  <2> QED BY <1>3, <2>1, <2>2, <2>3, TurnWritten
<1>7. \A x \in Prompts : Dest[x] # s => Milder(req[x], r2[x])
  BY <1>2 DEF s, Milder
<1>8. AllPlaced(d2, byId, launch, agent, loading, marked, r2)
  <2>1. \A t \in Sessions \ {s} : d2[t] = disk[t]
    BY <1>1
  <2>2. AllPlaced(disk, byId, launch, agent, loading, marked, req)
    BY DEF Places
  <2> HIDE DEF d2, r2
  <2> QED BY <1>0, <1>6, <1>7, <2>1, <2>2, OneMoves DEF f
<1> QED BY <1>8 DEF Places

LEMMA SpawnWritesPlaces == ASSUME NInv, NEW p \in Prompts, SpawnWrites(p) PROVE LockInv' /\ Places'
<1>0. HInv /\ LockInv /\ Places /\ ReqInv
  BY HFacts DEF NInv
<1>1. /\ Via[p] = "spawn" /\ req[p] = "new" /\ Moves(p, "wrote") /\ disk' = [disk EXCEPT ![Dest[p]].turn = p]
      /\ UNCHANGED <<byId, launch, agent, loading, marked, lock, steering>>
  BY DEF SpawnWrites, runVars, histVars
<1>2. DiskInv'
  BY <1>0, SpawnWritesKeeps DEF HInv
<1>3. LockInv'
  BY <1>0, <1>1, LockKept DEF HoldsLock, Steers
<1> QED BY <1>0, <1>1, <1>2, <1>3, TurnPlaces DEF Early

LEMMA SendWritesPlaces == ASSUME NInv, NEW p \in Prompts, SendWrites(p) PROVE LockInv' /\ Places'
<1>0. HInv /\ LockInv /\ Places /\ ReqInv
  BY HFacts DEF NInv
<1>1. /\ req[p] = "writing" /\ Moves(p, "wrote") /\ disk' = [disk EXCEPT ![Dest[p]].turn = p]
      /\ UNCHANGED <<byId, launch, agent, loading, marked, lock, steering>>
  BY DEF SendWrites, runVars, histVars
<1>2. DiskInv'
  BY <1>0, SendWritesKeeps DEF HInv
<1>3. LockInv'
  BY <1>0, <1>1, LockKept DEF HoldsLock, Steers
<1> QED BY <1>0, <1>1, <1>2, <1>3, TurnPlaces DEF Early

LEMMA SteerWritesPlaces == ASSUME NInv, NEW p \in Prompts, SteerWrites(p) PROVE LockInv' /\ Places'
<1>0. HInv /\ LockInv /\ Places /\ ReqInv
  BY HFacts DEF NInv
<1>1. /\ req[p] = "steering"
      /\ \/ Moves(p, "steerwrote") /\ disk' = [disk EXCEPT ![Dest[p]].turn = p]
         \/ Moves(p, "steerfailed") /\ disk' = disk
      /\ UNCHANGED <<byId, launch, agent, loading, marked, lock, steering>>
  BY DEF SteerWrites, runVars
<1>2. DiskInv'
  BY <1>0, SteerWritesKeeps DEF HInv
<1>3. CASE Moves(p, "steerwrote") /\ disk' = [disk EXCEPT ![Dest[p]].turn = p]
  <2>1. LockInv'
    BY <1>0, <1>1, <1>3, LockKept DEF HoldsLock, Steers
  <2> QED BY <1>0, <1>1, <1>2, <1>3, <2>1, TurnPlaces
<1>4. CASE Moves(p, "steerfailed") /\ disk' = disk
  <2>1. LockInv'
    BY <1>0, <1>1, <1>4, LockKept DEF HoldsLock, Steers
  <2>2. Milder(req[p], "steerfailed")
    BY <1>1 DEF Milder, Early, Steers
  <2>3. \A x \in Prompts \cup Kills : Milder(req[x], req'[x])
    BY <1>0, <1>4, <2>2, OneRequest
  <2> QED BY <1>0, <1>1, <1>4, <2>1, <2>3, OnlyRequests
<1> QED BY <1>1, <1>3, <1>4

LEMMA RequestArrivesPlaces == ASSUME NInv, NEW r \in Prompts \cup Kills, RequestArrives(r) PROVE LockInv' /\ Places'
<1>0. HInv /\ LockInv /\ Places /\ ReqInv
  BY HFacts DEF NInv
<1> DEFINE y == IF Prompted(r) /\ RouteRefuses(r) THEN "refused" ELSE "waiting"
<1>1. /\ req[r] = "new" /\ Moves(r, y)
      /\ UNCHANGED <<disk, byId, launch, agent, loading, marked, lock, steering>>
  BY DEF RequestArrives, runVars, histVars
<1>2. y \in {"refused", "waiting"}
  OBVIOUS
<1> HIDE DEF y
<1>3. ~HoldsLock(r, y) /\ y \notin Steers /\ Milder(req[r], y)
  BY <1>1, <1>2 DEF HoldsLock, Steers, Early, Milder
<1>4. LockInv'
  BY <1>0, <1>1, <1>3, LockKept
<1>5. \A x \in Prompts \cup Kills : Milder(req[x], req'[x])
  BY <1>0, <1>1, <1>3, OneRequest
<1> QED BY <1>0, <1>1, <1>4, <1>5, OnlyRequests

LEMMA SendPlaces == ASSUME NInv, NEW p \in Prompts, Send(p) PROVE LockInv' /\ Places'
<1>0. HInv /\ LockInv /\ Places /\ ReqInv
  BY HFacts DEF NInv
<1> DEFINE s == Dest[p]
           y == IF s \in running /\ ~agent[s].up THEN "handoff"
                ELSE IF Busy(s) \/ Peek(agent[s]) # None THEN "submitted" ELSE "writing"
<1>1. /\ Locks(p) /\ Moves(p, y)
      /\ UNCHANGED <<disk, byId, launch, agent, loading, marked, steering>>
  BY Zenon DEF Send, runVars, histVars
<1>2. y \in {"handoff", "submitted", "writing"}
  OBVIOUS
<1> HIDE DEF y
<1>3. req[p] = "waiting" /\ lock[To(p)] = None /\ lock' = [lock EXCEPT ![To(p)] = p]
  BY <1>1 DEF Locks, Free
<1>4. y \notin Steers /\ Milder(req[p], y)
  BY <1>2, <1>3 DEF Steers, Early, Milder
<1>5. LockInv'
  BY <1>0, <1>1, <1>3, <1>4, LockTaken
<1>6. \A x \in Prompts \cup Kills : Milder(req[x], req'[x])
  BY <1>0, <1>1, <1>4, OneRequest
<1> QED BY <1>0, <1>1, <1>5, <1>6, OnlyRequests

LEMMA SendResumesPlaces == ASSUME NInv, NEW p \in Prompts, SendResumes(p) PROVE LockInv' /\ Places'
<1>0. HInv /\ LockInv /\ Places /\ ReqInv
  BY HFacts DEF NInv
<1> DEFINE y == IF Busy(Dest[p]) \/ Peek(agent[Dest[p]]) # None THEN "submitted" ELSE "writing"
<1>1. /\ req[p] = "handed" /\ Moves(p, y)
      /\ UNCHANGED <<disk, byId, launch, agent, loading, marked, lock, steering>>
  BY Zenon DEF SendResumes, runVars, histVars
<1>2. y \in {"submitted", "writing"}
  OBVIOUS
<1> HIDE DEF y
<1>3. y \notin Steers /\ Milder(req[p], y) /\ HoldsLock(p, req[p])
  BY <1>1, <1>2 DEF Steers, Early, Milder, HoldsLock
<1>4. LockInv'
  BY <1>0, <1>1, <1>3, LockKept
<1>5. \A x \in Prompts \cup Kills : Milder(req[x], req'[x])
  BY <1>0, <1>1, <1>3, OneRequest
<1> QED BY <1>0, <1>1, <1>4, <1>5, OnlyRequests

LEMMA EnqueuesPlaces == ASSUME NInv, NEW p \in Prompts, Enqueues(p) PROVE LockInv' /\ Places'
<1> DEFINE s == Dest[p]
           e == [s |-> s, p |-> p, kind |-> "turn"]
           h == Enqueue(Now, e)
           r2 == req'
<1>0. /\ HInv /\ LockInv /\ Places /\ ReqInv /\ s \in Sessions
      /\ Settled(Now, launch) /\ Now.ids = byId /\ launch \in [Sessions -> LaunchRec]
      /\ byId \in [Sessions -> Entry \cup {None}]
  BY HFacts, DestIs DEF NInv
<1>1. /\ req[p] = "wrote" /\ Moves(p, "done") /\ Schedules(Pump(h, Held), launch)
      /\ lock' = IF Via[p] = "send" THEN [lock EXCEPT ![s] = None] ELSE lock
      /\ UNCHANGED <<disk, agent, loading, marked, steering>>
  BY Zenon DEF Enqueues, runVars, histVars
<1>2. req'[p] = "done" /\ \A x \in Prompts \cup Kills : x # p => req'[x] = req[x]
  BY <1>0, <1>1, Moved
<1>3. LockInv'
  <2>1. ~HoldsLock(p, "done") /\ "done" \notin Steers
    BY DEF HoldsLock, Steers
  <2>2. CASE Via[p] = "send"
    <3>1. lock[To(p)] = p /\ To(p) = s
      BY <1>0, <1>1, <2>2, LockFacts DEF LockInv, HoldsLock
    <3> QED BY <1>0, <1>1, <2>1, <2>2, <3>1, LockGiven
  <2>3. CASE Via[p] # "send"
    BY <1>0, <1>1, <2>1, <2>3, LockKept
  <2> QED BY <2>2, <2>3
<1>4. e \in Entry /\ e.s = s /\ e.p = p /\ e.kind = "turn" /\ e # None
  BY <1>0, NoneApart DEF Entry
<1>5. \A x \in Prompts : r2[x] \in Steers => Dest[x] \in Held
  BY <1>1, <1>3 DEF LockInv, Held
<1>6. \A x \in Prompts \cup Kills : Milder(req[x], r2[x])
  BY <1>2 DEF Milder, Early, Steers
<1>7. AllPlaced(disk, byId, launch, agent, loading, marked, r2)
  BY <1>0, <1>6, PlacesMild
<1> HIDE DEF e, r2
<1>8. h.ids = IF byId[s] # None THEN byId ELSE [byId EXCEPT ![s] = e]
  <2>1. h.ids = IF Now.ids[e.s] # None THEN Now.ids ELSE [Now.ids EXCEPT ![e.s] = e]
    BY <1>0, <1>4, EnqueuedIds
  <2>2. Now.ids = byId /\ e.s = s
    BY <1>0, <1>4
  <2> HIDE DEF h, s
  <2> QED BY <2>1, <2>2
<1>9. AllPlaced(disk, h.ids, launch, agent, loading, marked, r2)
  <2>1. CASE byId[s] # None
    BY <1>7, <1>8, <2>1
  <2>2. CASE byId[s] = None
    <3> DEFINE ids == [byId EXCEPT ![s] = e]
    <3>1. ids[s] = e /\ \A t \in Sessions \ {s} : ids[t] = byId[t]
      BY <1>0
    <3>2. InPlace(s, disk[s], byId[s], launch[s], agent[s], loading[s], marked, r2)
      BY <1>0, <1>7 DEF AllPlaced
    <3>3. p \notin marked /\ ~Runs(launch[s], p) /\ ~Follows(disk[s], agent[s], loading[s], p)
      <4>1. InPlace(s, disk[s], byId[s], launch[s], agent[s], loading[s], marked, req)
        BY <1>0, PlaceOf
      <4> QED BY <1>1, <4>1 DEF InPlace, Asks
    <3>4. \A x \in Prompts : (Waits(e, x) <=> x = p) /\ ~Waits(byId[s], x)
      BY <1>4, <2>2 DEF Waits
    <3>5. r2[p] = "done" /\ "done" \notin Early \cup {"wrote"}
      BY <1>2 DEF r2, Early
    <3>6. \A x \in Prompts : Milder(r2[x], r2[x])
      BY DEF Milder
    <3>7. InPlace(s, disk[s], e, launch[s], agent[s], loading[s], marked, r2)
      BY <1>4, <3>2, <3>3, <3>4, <3>5, <3>6, EntryChanges
    <3> HIDE DEF ids
    <3>8. InPlace(s, disk[s], ids[s], launch[s], agent[s], loading[s], marked, r2)
      BY <3>1, <3>7
    <3>9. AllPlaced(disk, ids, launch, agent, loading, marked, r2)
      BY <1>0, <1>7, <3>1, <3>6, <3>8, OneMoves
    <3> QED BY <1>8, <2>2, <3>9 DEF ids
  <2> QED BY <2>1, <2>2
<1>10. Settled(h, launch)
  BY <1>0, <1>4, SettledEnqueue
<1>11. Schedules(Pump(h, Held), launch)
  BY <1>1 DEF e
<1> HIDE DEF h
<1>12. AllPlaced(disk, byId', launch', agent, loading, marked, r2)
  BY <1>0, <1>5, <1>9, <1>10, <1>11, PumpPlaces
<1> QED BY <1>1, <1>3, <1>12 DEF Places, r2

LEMMA FollowUpFields ==
  ASSUME NEW a \in AgentRec, NEW p \in Prompts
  PROVE  /\ FollowUp(a, p) \in AgentRec /\ FollowUp(a, p).up = a.up
         /\ FollowUp(a, p).flight = a.flight /\ FollowUp(a, p).mem = Append(a.mem, p)
<1>1. a.mem \in Seq(Prompts) /\ Append(a.mem, p) \in Seq(Prompts)
  BY AgentFields, Appended
<1> DEFINE w == Append(a.mem, p)
<1>2. FollowUp(a, p) = [a EXCEPT !.mem = w]
  BY Zenon DEF FollowUp
<1> HIDE DEF w
<1>3. FollowUp(a, p) = [up |-> a.up, mem |-> w, flight |-> a.flight]
  BY <1>2 DEF AgentRec
<1> QED BY <1>1, <1>3 DEF AgentRec, w

LEMMA FollowUpRunsPlaces == ASSUME NInv, NEW p \in Prompts, FollowUpRuns(p) PROVE LockInv' /\ Places'
<1> DEFINE s == Dest[p]
           y == IF Via[p] = "follow" THEN "done" ELSE "followed"
           r2 == req'
           d2 == disk'
           a2 == agent'
           b == FollowUp(agent[s], p)
<1>0. /\ HInv /\ LockInv /\ Places /\ ReqInv /\ s \in Sessions /\ DiskInv
      /\ agent \in [Sessions -> AgentRec]
  BY HFacts, DestIs DEF NInv
<1>1. /\ req[p] = "submitted" \/ (Via[p] = "follow" /\ req[p] = "new")
      /\ Moves(p, y)
      /\ IF agent[s].up THEN Saves(s, b) ELSE UNCHANGED <<disk, agent>>
      /\ UNCHANGED <<byId, launch, loading, marked, lock, steering>>
  BY Zenon DEF FollowUpRuns, runVars, histVars
<1>2. req'[p] = y /\ \A x \in Prompts \cup Kills : x # p => req'[x] = req[x]
  BY <1>0, <1>1, Moved
<1>3. y \in {"done", "followed"} /\ (Via[p] = "follow" => y = "done")
  OBVIOUS
<1> HIDE DEF y
<1>4. req[p] \in Early /\ Milder(req[p], y) /\ y \notin Steers /\ y \notin Early \cup Steers \cup {"wrote"}
  BY <1>1, <1>3 DEF Milder, Early, Steers
<1>5. LockInv'
  <2>1. HoldsLock(p, y) => HoldsLock(p, req[p])
    BY <1>1, <1>3 DEF HoldsLock, Steers
  <2> QED BY <1>0, <1>1, <1>4, <2>1, LockKept
<1>6. CASE ~agent[s].up
  <2>1. \A x \in Prompts \cup Kills : Milder(req[x], req'[x])
    BY <1>0, <1>1, <1>4, OneRequest
  <2> QED BY <1>0, <1>1, <1>5, <1>6, <2>1, OnlyRequests
<1>7. CASE agent[s].up
  <2>1. /\ b \in AgentRec /\ b.up /\ b.flight = agent[s].flight /\ b.mem = Append(agent[s].mem, p)
    BY <1>0, <1>7, FollowUpFields
  <2> HIDE DEF b
  <2>2. /\ d2[s] \in DiskRec /\ d2[s].queue = Durable(b)
        /\ d2[s].turn = disk[s].turn /\ d2[s].done = disk[s].done /\ a2[s] = b
        /\ \A t \in Sessions \ {s} : d2[t] = disk[t] /\ a2[t] = agent[t]
    BY <1>0, <1>1, <1>7, <2>1, SavesIs DEF s
  <2>3. r2[p] \notin Early \cup Steers \cup {"wrote"} /\ \A x \in Prompts \ {p} : r2[x] = req[x]
    BY <1>2, <1>4
  <2>4. InPlace(s, disk[s], byId[s], launch[s], agent[s], loading[s], marked, req)
    BY <1>0, PlaceOf
  <2> DEFINE f == d2[s]
  <2>5. f \in DiskRec /\ f.queue = Durable(b) /\ f.turn = disk[s].turn /\ f.done = disk[s].done
    BY <2>2
  <2>s. Dest[p] = s
    OBVIOUS
  <2> HIDE DEF r2, f, s, d2, a2
  <2>6. InPlace(s, f, byId[s], launch[s], b, loading[s], marked, r2)
    BY <1>4, <1>7, <2>1, <2>3, <2>4, <2>5, <2>s, FollowUpPut
  <2>7. InPlace(s, d2[s], byId[s], launch[s], a2[s], loading[s], marked, r2)
    BY <2>2, <2>6 DEF f
  <2>8. \A x \in Prompts : Dest[x] # s => Milder(req[x], r2[x])
    BY <2>3, <2>s DEF Milder
  <2>9. AllPlaced(disk, byId, launch, agent, loading, marked, req)
    BY <1>0 DEF Places
  <2>10. AllPlaced(d2, byId, launch, a2, loading, marked, r2)
    BY <1>0, <2>2, <2>7, <2>8, <2>9, OneMoves
  <2> QED BY <1>1, <1>5, <2>10 DEF Places, d2, a2, r2
<1> QED BY <1>6, <1>7

LEMMA SendReturnsPlaces == ASSUME NInv, NEW p \in Prompts, SendReturns(p) PROVE LockInv' /\ Places'
<1> DEFINE s == Dest[p]
           r2 == req'
<1>0. /\ HInv /\ LockInv /\ Places /\ ReqInv /\ s \in Sessions
      /\ Settled(Now, launch) /\ Now.ids = byId /\ launch \in [Sessions -> LaunchRec]
      /\ agent[s] \in AgentRec
  BY HFacts, DestIs DEF NInv
<1>1. /\ req[p] = "followed" /\ Moves(p, "done") /\ lock' = [lock EXCEPT ![s] = None]
      /\ Schedules(Drained(Now, s, stopped, failed, agent[s], Held), launch)
      /\ UNCHANGED <<disk, agent, loading, marked, steering>>
  BY Zenon DEF SendReturns, trackVars, histVars
<1>2. ~HoldsLock(p, "done") /\ Milder(req[p], "done")
  BY DEF HoldsLock, Steers, Milder, Early
<1>3. lock[To(p)] = p /\ To(p) = s
  BY <1>0, <1>1, LockFacts DEF LockInv, HoldsLock
<1>4. LockInv'
  BY <1>0, <1>1, <1>2, <1>3, LockGiven
<1>5. \A x \in Prompts \cup Kills : Milder(req[x], r2[x])
  BY <1>0, <1>1, <1>2, OneRequest
<1>6. AllPlaced(disk, Now.ids, launch, agent, loading, marked, r2)
  BY <1>0, <1>5, PlacesMild
<1>7. \A x \in Prompts : r2[x] \in Steers => Dest[x] \in Held
  BY <1>1, <1>4 DEF LockInv, Held
<1> HIDE DEF r2
<1>8. AllPlaced(disk, byId', launch', agent, loading, marked, r2)
  BY <1>0, <1>1, <1>6, <1>7, DrainPlaces
<1> QED BY <1>1, <1>4, <1>8 DEF Places, r2

\* The entry of a session is dropped while no steer of it is under way.
LEMMA DropPlaces ==
  ASSUME HInv, NEW s \in Sessions, NEW r2, AllPlaced(disk, byId, launch, agent, loading, marked, r2),
         \A x \in Prompts : Dest[x] = s => r2[x] \notin Steers
  PROVE  AllPlaced(disk, Drop(Now, s).ids, launch, agent, loading, marked, r2)
<1> DEFINE ids == Drop(Now, s).ids
<1>1. Settled(Now, launch) /\ Now.ids = byId /\ byId \in [Sessions -> Entry \cup {None}]
  BY HFacts
<1>2. ids = [byId EXCEPT ![s] = None]
  BY <1>1, DroppedIds
<1> HIDE DEF ids
<1>3. ids[s] = None /\ \A t \in Sessions \ {s} : ids[t] = byId[t]
  BY <1>1, <1>2
<1>4. InPlace(s, disk[s], byId[s], launch[s], agent[s], loading[s], marked, r2)
  BY DEF AllPlaced
<1>5. \A x \in Prompts : ~Waits(None, x) /\ Milder(r2[x], r2[x])
  BY DEF Waits, Milder
<1>6. InPlace(s, disk[s], None, launch[s], agent[s], loading[s], marked, r2)
  BY <1>4, <1>5, EntryChanges
<1>7. InPlace(s, disk[s], ids[s], launch[s], agent[s], loading[s], marked, r2)
  BY <1>3, <1>6
<1>8. AllPlaced(disk, ids, launch, agent, loading, marked, r2)
  BY <1>3, <1>5, <1>7, OneMoves
<1> QED BY <1>8 DEF ids

LEMMA SteerPlaces == ASSUME NInv, NEW p \in Prompts, Steer(p) PROVE LockInv' /\ Places'
<1> DEFINE s == Dest[p]
           refused == byId[s] # None /\ byId[s].kind = "turn"
           e == SteerEntry(p)
           dropped == IF byId[s] = None THEN Now ELSE Drop(Now, s)
           h == Enqueue(dropped, e)
           r2 == req'
           ids == byId'
<1>0. /\ HInv /\ LockInv /\ Places /\ ReqInv /\ s \in Sessions
      /\ Settled(Now, launch) /\ Now.ids = byId /\ launch \in [Sessions -> LaunchRec]
      /\ byId \in [Sessions -> Entry \cup {None}]
  BY HFacts, DestIs DEF NInv
<1>1. /\ req[p] = "waiting" /\ lock[s] = None
      /\ IF refused THEN Moves(p, "refused") /\ UNCHANGED <<byId, launch, steering, lock>>
         ELSE /\ lock' = [lock EXCEPT ![s] = p] /\ steering' = steering \cup {s}
              /\ Schedules(h, launch) /\ Moves(p, "steering")
      /\ UNCHANGED <<disk, agent, loading, marked>>
  BY Zenon DEF Steer, Free, runVars
<1>2. CASE refused
  <2>1. ~HoldsLock(p, "refused") /\ Milder(req[p], "refused") /\ "refused" \notin Steers
    BY DEF HoldsLock, Steers, Milder, Early
  <2>2. LockInv'
    BY <1>0, <1>1, <1>2, <2>1, LockKept
  <2>3. \A x \in Prompts \cup Kills : Milder(req[x], req'[x])
    BY <1>0, <1>1, <1>2, <2>1, OneRequest
  <2> QED BY <1>0, <1>1, <1>2, <2>2, <2>3, OnlyRequests
<1>3. CASE ~refused
  <2>1. /\ lock' = [lock EXCEPT ![s] = p] /\ steering' = steering \cup {s}
        /\ Schedules(h, launch) /\ Moves(p, "steering")
    BY <1>1, <1>3
  <2> HIDE DEF refused
  <2>2. To(p) = s
    BY <1>0, LockFacts
  <2>3. LockInv'
    BY <1>0, <1>1, <2>1, <2>2, LockTaken
  <2>4. e \in Entry /\ e.s = s /\ e.p = p /\ e.kind = "steer" /\ e # None
    BY <1>0, NoneApart DEF Entry, SteerEntry
  <2> HIDE DEF e
  <2>5. Settled(dropped, launch) /\ dropped.ids = [byId EXCEPT ![s] = None]
    <3>1. CASE byId[s] = None
      <4>1. [byId EXCEPT ![s] = None] = byId
        BY <1>0, <3>1
      <4> QED BY <1>0, <3>1, <4>1
    <3>2. CASE byId[s] # None
      <4>1. Settled(Drop(Now, s), launch) /\ Drop(Now, s).ids = [Now.ids EXCEPT ![s] = None]
        BY <1>0, SettledDrop, DroppedIds
      <4> QED BY <1>0, <3>2, <4>1
    <3> QED BY <3>1, <3>2
  <2> HIDE DEF dropped
  <2>6. /\ Settled(h, launch)
        /\ h.ids = IF dropped.ids[e.s] # None THEN dropped.ids ELSE [dropped.ids EXCEPT ![e.s] = e]
    BY <2>4, <2>5, SettledEnqueue, EnqueuedIds
  <2> HIDE DEF h
  <2>7. ids = h.ids /\ launch' = launch
    BY <1>0, <2>1, <2>6, SamePlaces
  <2>8. ids[s] = e /\ \A t \in Sessions \ {s} : ids[t] = byId[t]
    BY <1>0, <2>4, <2>5, <2>6, <2>7
  <2>9. r2[p] = "steering" /\ \A x \in Prompts \cup Kills : x # p => r2[x] = req[x]
    BY <1>0, <2>1, Moved
  <2>10. InPlace(s, disk[s], byId[s], launch[s], agent[s], loading[s], marked, req)
    BY <1>0, PlaceOf
  <2>11. p \notin marked /\ ~Runs(launch[s], p) /\ ~Follows(disk[s], agent[s], loading[s], p)
    BY <1>1, <2>10 DEF InPlace, Asks, Early, Placed
  <2>12. \A x \in Prompts : Waits(e, x) <=> x = p
    BY <2>4 DEF Waits
  <2>13. \A x \in Prompts : Dest[x] = s /\ x # p => r2[x] \notin Steers
    BY <1>0, <1>1, <2>9, NoSteer
  <2>14. Dest[p] = s /\ r2[p] \in Steers /\ r2[p] \notin Early \cup {"wrote"}
    BY <2>9 DEF Steers, Early
  <2> HIDE DEF s, r2, ids
  <2>15. \A x \in Prompts : \/ ~Waits(e, x) /\ (Dest[x] = s => r2[x] \notin Steers)
                            \/ /\ Waits(e, x) /\ Dest[x] = s /\ r2[x] \notin Early \cup {"wrote"}
                               /\ x \notin marked /\ ~Runs(launch[s], x) /\ ~Follows(disk[s], agent[s], loading[s], x)
    BY <2>11, <2>12, <2>13, <2>14
  <2>16. \A x \in Prompts : Milder(req[x], r2[x]) \/ (Waits(e, x) /\ r2[x] \in Steers)
    BY <2>9, <2>12, <2>14 DEF Milder
  <2>17. InPlace(s, disk[s], e, launch[s], agent[s], loading[s], marked, r2)
    BY <2>4, <2>10, <2>15, <2>16, EntryChanges
  <2>18. InPlace(s, disk[s], ids[s], launch[s], agent[s], loading[s], marked, r2)
    BY <2>8, <2>17
  <2>19. AllPlaced(disk, byId, launch, agent, loading, marked, req) /\ \A x \in Prompts : Dest[x] # s => Milder(req[x], r2[x])
    BY <1>0, <2>12, <2>14, <2>16 DEF Places
  <2>20. AllPlaced(disk, ids, launch, agent, loading, marked, r2)
    BY <1>0, <2>8, <2>18, <2>19, OneMoves
  <2> QED BY <1>1, <2>3, <2>7, <2>20 DEF Places, ids, r2
<1> QED BY <1>2, <1>3

\* A steer is over: the queue is pumped for its session too.
LEMMA SteerEndsPlaces ==
  ASSUME NInv, NEW p \in Prompts, req[p] \in {"steerwrote", "steerwait", "steerfailed"}, NEW y \in {"done", "refused"},
         Moves(p, y), lock' = [lock EXCEPT ![Dest[p]] = None], steering' = steering \ {Dest[p]},
         NEW h, h = Now \/ (h = Drop(Now, Dest[p])),
         Schedules(Pump(h, Held \ {Dest[p]}), launch), UNCHANGED <<disk, agent, loading, marked>>
  PROVE  LockInv' /\ Places'
<1> DEFINE s == Dest[p]
           r2 == req'
           held == Held \ {s}
<1>0. /\ HInv /\ LockInv /\ Places /\ ReqInv /\ s \in Sessions
      /\ Settled(Now, launch) /\ Now.ids = byId /\ launch \in [Sessions -> LaunchRec]
  BY HFacts, DestIs DEF NInv
<1>1. ~HoldsLock(p, y) /\ Milder(req[p], y) /\ y \notin Steers
  BY DEF HoldsLock, Steers, Milder, Early
<1>2. lock[To(p)] = p /\ To(p) = s
  BY <1>0, LockFacts DEF LockInv, HoldsLock, Steers
<1>3. LockInv'
  BY <1>0, <1>1, <1>2, LockGiven
<1>4. \A x \in Prompts \cup Kills : Milder(req[x], r2[x])
  BY <1>0, <1>1, OneRequest
<1>5. AllPlaced(disk, byId, launch, agent, loading, marked, r2)
  BY <1>0, <1>4, PlacesMild
<1>6. \A x \in Prompts : r2[x] \in Steers => Dest[x] \in held
  BY <1>3 DEF LockInv, Held
<1>7. Schedules(Pump(h, held), launch)
  OBVIOUS
<1>8. \A x \in Prompts : Dest[x] = s => r2[x] \notin Steers
  BY <1>6
<1> HIDE DEF r2, held, s
<1>9. Settled(h, launch) /\ AllPlaced(disk, h.ids, launch, agent, loading, marked, r2)
  <2>1. CASE h = Now
    BY <1>0, <1>5, <2>1
  <2>2. CASE h = Drop(Now, s)
    BY <1>0, <1>5, <1>8, <2>2, SettledDrop, DropPlaces
  <2> QED BY <2>1, <2>2 DEF s
<1>10. AllPlaced(disk, byId', launch', agent, loading, marked, r2)
  BY <1>0, <1>6, <1>7, <1>9, PumpPlaces
<1> QED BY <1>3, <1>10 DEF Places, r2

LEMMA SteerFailsPlaces == ASSUME NInv, NEW p \in Prompts, SteerFails(p) PROVE LockInv' /\ Places'
<1> DEFINE s == Dest[p]
           h == IF byId[s] = SteerEntry(p) THEN Drop(Now, s) ELSE Now
<1>1. /\ req[p] = "steerfailed" /\ Moves(p, "refused") /\ lock' = [lock EXCEPT ![s] = None]
      /\ steering' = steering \ {s} /\ Schedules(Pump(h, Held \ {s}), launch)
      /\ UNCHANGED <<disk, agent, loading, marked>>
  BY Zenon DEF SteerFails, histVars
<1>2. h = Now \/ h = Drop(Now, Dest[p])
  BY Zenon
<1> HIDE DEF h
<1> QED BY <1>1, <1>2, SteerEndsPlaces

LEMMA SteerResumesPlaces == ASSUME NInv, NEW p \in Prompts, SteerResumes(p) PROVE LockInv' /\ Places'
<1> DEFINE s == Dest[p]
<1>0. HInv /\ LockInv /\ Places /\ ReqInv
  BY HFacts DEF NInv
<1>1. /\ req[p] = "steerwrote"
      /\ \/ Moves(p, "steerint") /\ UNCHANGED <<steering, runVars, launch, lock>>
         \/ SteerEnds(p, Now)
      /\ UNCHANGED <<disk, agent, loading, marked>>
  BY Zenon DEF SteerResumes, histVars
<1>2. CASE Moves(p, "steerint") /\ UNCHANGED <<steering, runVars, launch, lock>>
  <2>1. Milder(req[p], "steerint") /\ "steerint" \in Steers /\ req[p] \in Steers
    BY <1>1 DEF Steers, Milder, Early
  <2>2. LockInv'
    BY <1>0, <1>2, <2>1, LockKept DEF HoldsLock
  <2>3. \A x \in Prompts \cup Kills : Milder(req[x], req'[x])
    BY <1>0, <1>2, <2>1, OneRequest
  <2>4. byId' = byId
    BY <1>2 DEF runVars
  <2> QED BY <1>0, <1>1, <1>2, <2>2, <2>3, <2>4, OnlyRequests
<1>3. CASE SteerEnds(p, Now)
  <2>1. /\ steering' = steering \ {s} /\ Schedules(Pump(Now, Held \ {s}), launch)
        /\ lock' = [lock EXCEPT ![s] = None] /\ Moves(p, "done")
    BY <1>3, Zenon DEF SteerEnds, Unlocks
  <2> QED BY <1>1, <2>1, SteerEndsPlaces
<1> QED BY <1>1, <1>2, <1>3

LEMMA SteerDonePlaces == ASSUME NInv, NEW p \in Prompts, SteerDone(p) PROVE LockInv' /\ Places'
<1> DEFINE s == Dest[p]
<1>1. /\ req[p] = "steerwait" /\ UNCHANGED <<disk, agent, loading, marked>>
      /\ steering' = steering \ {s} /\ Schedules(Pump(Now, Held \ {s}), launch)
      /\ lock' = [lock EXCEPT ![s] = None] /\ Moves(p, "done")
  BY Zenon DEF SteerDone, SteerEnds, Unlocks, histVars
<1> QED BY <1>1, SteerEndsPlaces

LEMMA SteerInterruptsPlaces == ASSUME NInv, NEW p \in Prompts, SteerInterrupts(p) PROVE LockInv' /\ Places'
<1>0. HInv /\ LockInv /\ Places /\ ReqInv
  BY HFacts DEF NInv
<1>1. /\ req[p] = "steerint" /\ Moves(p, "steerwait")
      /\ UNCHANGED <<disk, byId, launch, agent, loading, marked, lock, steering>>
  BY DEF SteerInterrupts, runVars, histVars
<1>2. Milder(req[p], "steerwait") /\ "steerwait" \in Steers /\ req[p] \in Steers
  BY <1>1 DEF Steers, Milder, Early
<1>3. LockInv'
  BY <1>0, <1>1, <1>2, LockKept DEF HoldsLock
<1>4. \A x \in Prompts \cup Kills : Milder(req[x], req'[x])
  BY <1>0, <1>1, <1>2, OneRequest
<1> QED BY <1>0, <1>1, <1>3, <1>4, OnlyRequests

-----------------------------------------------------------------------------
(* Kills keep every prompt in its place.                                     *)

LEMMA KillLock ==
  ASSUME ReqInv, LockInv, NEW k \in Kills, NEW s, s = Target[k], NEW y \in {"done", "killint"}, Moves(k, y),
         lock[s] = None \/ req[k] = "killwrote", Unlocks(s), steering' = steering
  PROVE  LockInv'
<1>0. s \in Sessions /\ To(k) = s /\ ~HoldsLock(k, y) /\ y \notin Steers
      /\ lock' = [lock EXCEPT ![s] = None] /\ lock \in [Sessions -> {None, "launch"} \cup Prompts \cup Kills]
  BY LockFacts, DestIs DEF HoldsLock, Steers, Unlocks
<1>1. CASE lock[s] = None
  <2>1. lock' = lock
    BY <1>0, <1>1
  <2> QED BY <1>0, <2>1, LockKept
<1>2. CASE req[k] = "killwrote"
  <2>1. lock[To(k)] = k
    BY <1>2 DEF LockInv, HoldsLock
  <2> QED BY <1>0, <2>1, LockGiven
<1> QED BY <1>1, <1>2

LEMMA PopAllFields ==
  ASSUME NEW a \in AgentRec
  PROVE  /\ PopAll(a) \in AgentRec /\ PopAll(a).up = a.up
         /\ PopAll(a).flight = a.flight /\ PopAll(a).mem = <<>>
<1>1. <<>> \in Seq(Prompts)
  OBVIOUS
<1> QED BY <1>1 DEF PopAll, AgentRec

LEMMA KillEndsPlaces ==
  ASSUME NInv, NEW k \in Kills, NEW c \in BOOLEAN, NEW h, KillEnds(k, h, c),
         \/ h = Now /\ (lock[Target[k]] = None \/ req[k] = "killwrote")
         \/ h = Drop(Now, Target[k]) /\ lock[Target[k]] = None,
         UNCHANGED <<loading, steering, marked>>
  PROVE  LockInv' /\ Places'
<1> DEFINE s == Target[k]
           y == IF Idle(s) THEN "done" ELSE "killint"
           b == PopAll(agent[s])
           d2 == disk'
           a2 == agent'
           r2 == req'
<1>0. /\ HInv /\ LockInv /\ Places /\ ReqInv /\ s \in Sessions /\ DiskInv
      /\ Settled(Now, launch) /\ Now.ids = byId /\ launch \in [Sessions -> LaunchRec]
      /\ agent \in [Sessions -> AgentRec] /\ agent[s] \in AgentRec
  BY HFacts, DestIs DEF NInv
<1>1. /\ Moves(k, y) /\ Schedules(h, launch) /\ Unlocks(s)
      /\ IF agent[s].up THEN Saves(s, b)
         ELSE /\ disk' = IF c THEN disk ELSE [disk EXCEPT ![s].queue = <<>>]
              /\ UNCHANGED agent
  BY Zenon DEF KillEnds
<1>2. y \in {"done", "killint"}
  OBVIOUS
<1> HIDE DEF y
<1>3. LockInv'
  BY <1>0, <1>1, <1>2, KillLock
<1>4. \A x \in Prompts \cup Kills : Milder(req[x], r2[x])
  <2>1. Milder(req[k], y)
    BY <1>2 DEF Milder, Early, Steers
  <2> QED BY <1>0, <1>1, <2>1, OneRequest
<1>5. AllPlaced(disk, byId, launch, agent, loading, marked, r2)
  BY <1>0, <1>4, PlacesMild
<1>6. AllPlaced(disk, h.ids, launch, agent, loading, marked, r2) /\ Settled(h, launch)
  <2>1. CASE h = Now
    BY <1>0, <1>5, <2>1
  <2>2. CASE h = Drop(Now, s) /\ lock[s] = None
    <3>1. \A x \in Prompts : Dest[x] = s => r2[x] \notin Steers
      <4>1. \A x \in Prompts : req[x] \in Steers => Dest[x] # s
        BY <1>0, <2>2, NoSteer
      <4> QED BY <1>4, <4>1 DEF Milder
    <3> HIDE DEF r2, s
    <3>2. AllPlaced(disk, Drop(Now, s).ids, launch, agent, loading, marked, r2)
      BY <1>0, <1>5, <3>1, DropPlaces
    <3>3. Settled(Drop(Now, s), launch)
      BY <1>0, SettledDrop
    <3> QED BY <2>2, <3>2, <3>3
  <2> QED BY <2>1, <2>2
<1>7. byId' = h.ids /\ launch' = launch
  BY <1>0, <1>1, <1>6, SamePlaces
<1> DEFINE ids == h.ids
<1>8. InPlace(s, disk[s], ids[s], launch[s], agent[s], loading[s], marked, r2)
  BY <1>0, <1>6 DEF AllPlaced
<1>9. /\ InPlace(s, d2[s], ids[s], launch[s], a2[s], loading[s], marked, r2)
      /\ \A t \in Sessions \ {s} : d2[t] = disk[t] /\ a2[t] = agent[t]
  <2>1. CASE agent[s].up
    <3>1. b \in AgentRec /\ b.up /\ b.flight = agent[s].flight /\ b.mem = <<>>
      BY <1>0, <2>1, PopAllFields
    <3>2. Saves(s, b)
      BY <1>1, <2>1
    <3> HIDE DEF b
    <3>3. /\ d2[s] \in DiskRec /\ d2[s].queue = Durable(b)
          /\ d2[s].turn = disk[s].turn /\ d2[s].done = disk[s].done /\ a2[s] = b
          /\ \A t \in Sessions \ {s} : d2[t] = disk[t] /\ a2[t] = agent[t]
      BY <1>0, <3>1, <3>2, SavesIs
    <3> DEFINE f == d2[s]
    <3>4. f \in DiskRec /\ f.queue = Durable(b) /\ f.turn = disk[s].turn /\ f.done = disk[s].done
      BY <3>3
    <3> HIDE DEF r2, f, s, d2, a2, ids
    <3>5. InPlace(s, f, ids[s], launch[s], b, loading[s], marked, r2)
      BY <1>8, <2>1, <3>1, <3>4, QueuePopped
    <3> QED BY <3>3, <3>5 DEF f
  <2>2. CASE ~agent[s].up /\ c
    BY <1>1, <1>8, <2>2
  <2>3. CASE ~agent[s].up /\ ~c
    <3>1. disk' = [disk EXCEPT ![s].queue = <<>>] /\ agent' = agent
      BY <1>1, <2>3
    <3>2. /\ d2[s].turn = disk[s].turn /\ d2[s].queue = <<>> /\ d2[s].done = disk[s].done
          /\ \A t \in Sessions \ {s} : d2[t] = disk[t] /\ a2[t] = agent[t]
          /\ a2[s] = agent[s]
      BY <1>0, <3>1, DiskIs
    <3>3. d2[s] \in DiskRec
      <4>1. <<>> \in Seq(Prompts)
        OBVIOUS
      <4>2. DiskInv'
        BY <1>0, <3>1, <4>1, DiskQueue
      <4> QED BY <1>0, <4>2 DEF DiskInv
    <3> DEFINE f == d2[s]
    <3>4. f \in DiskRec /\ f.queue = <<>> /\ f.turn = disk[s].turn /\ f.done = disk[s].done
      BY <3>2, <3>3
    <3> HIDE DEF r2, f, s, d2, a2, ids
    <3>5. InPlace(s, f, ids[s], launch[s], agent[s], loading[s], marked, r2)
      <4>1. Kills # {}
        OBVIOUS
      <4> QED BY <1>8, <2>3, <3>4, <4>1, DiskCleared
    <3> QED BY <3>2, <3>5 DEF f
  <2> QED BY <2>1, <2>2, <2>3
<1>10. \A x \in Prompts : Milder(r2[x], r2[x])
  BY DEF Milder
<1> HIDE DEF r2, s, d2, a2, ids
<1>11. AllPlaced(disk, ids, launch, agent, loading, marked, r2)
  BY <1>6 DEF ids
<1>12. AllPlaced(d2, ids, launch, a2, loading, marked, r2)
  BY <1>0, <1>9, <1>10, <1>11, OneMoves
<1> QED BY <1>3, <1>7, <1>12 DEF Places, r2, d2, a2, ids

LEMMA KillPlaces == ASSUME NInv, NEW k \in Kills, Kill(k) PROVE LockInv' /\ Places'
<1> DEFINE s == Target[k]
           h == Drop(Now, s)
           r2 == req'
<1>0. /\ HInv /\ LockInv /\ Places /\ ReqInv /\ s \in Sessions
      /\ Settled(Now, launch) /\ Now.ids = byId /\ launch \in [Sessions -> LaunchRec]
  BY HFacts, DestIs DEF NInv
<1>1. req[k] = "waiting" /\ lock[s] = None /\ UNCHANGED <<loading, steering, marked>>
  BY DEF Kill, Free
<1>2. CASE byId[s] = None
  <2>1. KillEnds(k, Now, FALSE)
    BY <1>2, Zenon DEF Kill
  <2> QED BY <1>1, <2>1, KillEndsPlaces
<1>3. CASE byId[s] # None /\ byId[s].kind = "follow_up"
  <2>1. PICK c \in BOOLEAN : KillEnds(k, Drop(Now, s), c)
    BY <1>3, Zenon DEF Kill
  <2>2. h = Drop(Now, Target[k]) /\ KillEnds(k, h, c)
    BY <2>1
  <2> HIDE DEF h
  <2> QED BY <1>1, <2>2, KillEndsPlaces
<1>4. CASE byId[s] # None /\ byId[s].kind # "follow_up"
  <2>1. /\ lock' = [lock EXCEPT ![s] = k] /\ Schedules(h, launch) /\ Moves(k, "killwrite")
        /\ UNCHANGED <<disk, agent>>
    BY <1>4, Zenon DEF Kill
  <2>2. To(k) = s /\ "killwrite" \notin Steers /\ Milder(req[k], "killwrite")
    BY LockFacts, <1>0 DEF Steers, Milder, Early
  <2>3. LockInv'
    BY <1>0, <1>1, <2>1, <2>2, LockTaken
  <2>4. \A x \in Prompts \cup Kills : Milder(req[x], r2[x])
    BY <1>0, <2>1, <2>2, OneRequest
  <2>5. AllPlaced(disk, byId, launch, agent, loading, marked, r2)
    BY <1>0, <2>4, PlacesMild
  <2>6. \A x \in Prompts : Dest[x] = s => r2[x] \notin Steers
    <3>1. \A x \in Prompts : req[x] \in Steers => Dest[x] # s
      BY <1>0, <1>1, NoSteer
    <3> QED BY <2>4, <3>1 DEF Milder
  <2> HIDE DEF r2, s
  <2>7. AllPlaced(disk, Drop(Now, s).ids, launch, agent, loading, marked, r2)
    BY <1>0, <2>5, <2>6, DropPlaces
  <2>8. Settled(h, launch)
    BY <1>0, SettledDrop
  <2> HIDE DEF h
  <2>9. byId' = h.ids /\ launch' = launch
    BY <1>0, <2>1, <2>8, SamePlaces
  <2> QED BY <1>1, <2>1, <2>3, <2>7, <2>9 DEF Places, r2, h
<1> QED BY <1>2, <1>3, <1>4

LEMMA KillWritesPlaces == ASSUME NInv, NEW k \in Kills, KillWrites(k) PROVE LockInv' /\ Places'
<1> DEFINE s == Target[k]
           d2 == disk'
           r2 == req'
<1>0. /\ HInv /\ LockInv /\ Places /\ ReqInv /\ s \in Sessions /\ DiskInv
  BY HFacts, DestIs DEF NInv
<1>1. /\ req[k] = "killwrite" /\ Moves(k, "killwrote")
      /\ disk' = IF disk[s].turn = victim[k] THEN [disk EXCEPT ![s].turn = None] ELSE disk
      /\ UNCHANGED <<byId, launch, agent, loading, marked, lock, steering>>
  BY Zenon DEF KillWrites, runVars
<1>2. DiskInv'
  BY <1>0, KillWritesKeeps DEF HInv
<1>3. HoldsLock(k, req[k]) /\ "killwrote" \notin Steers /\ Milder(req[k], "killwrote")
  BY <1>1 DEF HoldsLock, Steers, Milder, Early
<1>4. LockInv'
  BY <1>0, <1>1, <1>3, LockKept
<1>5. \A x \in Prompts \cup Kills : Milder(req[x], r2[x])
  BY <1>0, <1>1, <1>3, OneRequest
<1>6. CASE disk[s].turn # victim[k]
  BY <1>0, <1>1, <1>4, <1>5, <1>6, OnlyRequests
<1>7. CASE disk[s].turn = victim[k]
  <2>1. /\ d2[s].turn = None /\ d2[s].queue = disk[s].queue /\ d2[s].done = disk[s].done
        /\ \A t \in Sessions \ {s} : d2[t] = disk[t]
    BY <1>0, <1>1, <1>7, DiskIs
  <2>2. d2[s] \in DiskRec
    BY <1>0, <1>2 DEF DiskInv
  <2>3. InPlace(s, disk[s], byId[s], launch[s], agent[s], loading[s], marked, req)
    BY <1>0, PlaceOf
  <2> DEFINE f == d2[s]
  <2>4. f \in DiskRec /\ f.queue = disk[s].queue /\ f.done = disk[s].done /\ \A x \in Prompts : f.turn # x
    BY <2>1, <2>2, NoneApart
  <2>5. \A x \in Prompts : Milder(req[x], r2[x])
    BY <1>5
  <2> HIDE DEF f, r2, d2, s
  <2>6. InPlace(s, f, byId[s], launch[s], agent[s], loading[s], marked, r2)
    BY <2>3, <2>4, <2>5, TurnWritten
  <2>7. InPlace(s, d2[s], byId[s], launch[s], agent[s], loading[s], marked, r2)
    BY <2>6 DEF f
  <2>8. AllPlaced(disk, byId, launch, agent, loading, marked, req)
    BY <1>0 DEF Places
  <2>9. AllPlaced(d2, byId, launch, agent, loading, marked, r2)
    BY <1>0, <2>1, <2>5, <2>7, <2>8, OneMoves
  <2> QED BY <1>1, <1>4, <2>9 DEF Places, d2, r2
<1> QED BY <1>6, <1>7

LEMMA KillResumesPlaces == ASSUME NInv, NEW k \in Kills, KillResumes(k) PROVE LockInv' /\ Places'
<1>1. req[k] = "killwrote" /\ KillEnds(k, Now, TRUE) /\ UNCHANGED <<loading, steering, marked>>
  BY DEF KillResumes
<1> QED BY <1>1, KillEndsPlaces

LEMMA KillInterruptsPlaces == ASSUME NInv, NEW k \in Kills, KillInterrupts(k) PROVE LockInv' /\ Places'
<1>0. HInv /\ LockInv /\ Places /\ ReqInv
  BY HFacts DEF NInv
<1>1. /\ req[k] = "killint" /\ Moves(k, "done")
      /\ UNCHANGED <<disk, byId, launch, agent, loading, marked, lock, steering>>
  BY DEF KillInterrupts, runVars, histVars
<1>2. Milder(req[k], "done") /\ "done" \notin Steers /\ ~HoldsLock(k, "done")
  BY <1>1 DEF Steers, Milder, Early, HoldsLock
<1>3. LockInv'
  BY <1>0, <1>1, <1>2, LockKept
<1>4. \A x \in Prompts \cup Kills : Milder(req[x], req'[x])
  BY <1>0, <1>1, <1>2, OneRequest
<1> QED BY <1>0, <1>1, <1>3, <1>4, OnlyRequests

-----------------------------------------------------------------------------
(* A launch keeps every prompt in its place.                                 *)

LEMMA GoesPlaces ==
  ASSUME launch \in [Sessions -> LaunchRec], NEW s \in Sessions, launch[s].pc # "none",
         NEW pc \in Pcs \ {"none"}, Goes(s, pc),
         NEW d, NEW e, NEW a, NEW q, NEW m, NEW r, AllPlaced(d, e, launch, a, q, m, r),
         launch[s].pc \in {"marked", "clear"} => pc = "clear" /\ a[s].flight = None,
         launch[s].kind = "follow_up" /\ pc \in Begun => launch[s].pc \in Begun
  PROVE  /\ AllPlaced(d, e, launch', a, q, m, r)
         /\ launch'[s] \in LaunchRec /\ launch'[s].pc = pc /\ launch'[s].p = launch[s].p
         /\ launch'[s].kind = launch[s].kind /\ \A t \in Sessions \ {s} : launch'[t] = launch[t]
<1> DEFINE l2 == launch'
           x == l2[s]
<1>1. /\ x \in LaunchRec /\ x.pc = pc /\ x.p = launch[s].p /\ x.kind = launch[s].kind
      /\ \A t \in Sessions \ {s} : l2[t] = launch[t]
  BY DEF Goes, LaunchRec
<1>2. InPlace(s, d[s], e[s], launch[s], a[s], q[s], m, r)
  BY DEF AllPlaced
<1>3. pc # "none"
  OBVIOUS
<1> HIDE DEF x, l2
<1>4. InPlace(s, d[s], e[s], x, a[s], q[s], m, r)
  BY <1>1, <1>2, <1>3, LaunchGoes
<1>5. InPlace(s, d[s], e[s], l2[s], a[s], q[s], m, r)
  BY <1>4 DEF x
<1>6. \A p \in Prompts : Milder(r[p], r[p])
  BY DEF Milder
<1>7. AllPlaced(d, e, l2, a, q, m, r)
  BY <1>1, <1>5, <1>6, OneMoves
<1> QED BY <1>1, <1>7 DEF l2, x

\* A launch that has not completed its turn, or has cleared it, is over.
LEMMA OverPlaces ==
  ASSUME launch \in [Sessions -> LaunchRec], NEW s \in Sessions,
         NEW d, NEW e, NEW a, NEW q, NEW m, NEW r, AllPlaced(d, e, launch, a, q, m, r), a[s].flight = None,
         launch[s].kind # "follow_up" => launch[s].pc \notin {"marked", "clear"}
  PROVE  AllPlaced(d, e, [launch EXCEPT ![s] = NoLaunch], a, q, m, r)
<1> DEFINE l2 == [launch EXCEPT ![s] = NoLaunch]
           f == d[s]
<1>1. l2[s] = NoLaunch /\ \A t \in Sessions \ {s} : l2[t] = launch[t]
  OBVIOUS
<1>2. InPlace(s, f, e[s], launch[s], a[s], q[s], m, r)
  BY DEF AllPlaced
<1>3. f \in DiskRec /\ f.turn \in {f.turn, None}
  BY <1>2 DEF InPlace, Typed
<1> HIDE DEF f, NoLaunch, l2
<1>4. InPlace(s, f, e[s], NoLaunch, a[s], q[s], m, r)
  BY <1>2, <1>3, LaunchEnds
<1>5. InPlace(s, d[s], e[s], l2[s], a[s], q[s], m, r)
  BY <1>1, <1>4 DEF f
<1>6. \A p \in Prompts : Milder(r[p], r[p])
  BY DEF Milder
<1>7. AllPlaced(d, e, l2, a, q, m, r)
  BY <1>1, <1>5, <1>6, OneMoves
<1> QED BY <1>7 DEF l2

\* The finally block, once the launch is taken away.
LEMMA FinallyPlaces ==
  ASSUME NInv, NEW s \in Sessions, NEW b \in AgentRec, Ends(s, b), steering' = steering,
         NEW d, NEW a, NEW q, NEW m, AllPlaced(d, byId, [launch EXCEPT ![s] = NoLaunch], a, q, m, req)
  PROVE  LockInv' /\ AllPlaced(d, byId', launch', a, q, m, req')
<1> DEFINE r2 == req'
           l == [launch EXCEPT ![s] = NoLaunch]
<1>0. /\ ReqInv /\ LockInv /\ SlotInv /\ launch \in [Sessions -> LaunchRec]
  BY HFacts DEF NInv
<1>1. /\ LockInv' /\ \A x \in Prompts \cup Kills : Milder(req[x], r2[x])
      /\ \A p \in Prompts : r2[p] \in Steers => Dest[p] \in steering
  BY <1>0, EndsMild
<1> HIDE DEF r2, l
<1>2. AllPlaced(d, byId, l, a, q, m, r2)
  <2>1. ASSUME NEW t \in Sessions PROVE InPlace(t, d[t], byId[t], l[t], a[t], q[t], m, r2)
    <3>1. InPlace(t, d[t], byId[t], l[t], a[t], q[t], m, req)
      BY DEF AllPlaced, l
    <3> QED BY <1>1, <3>1, RequestMilder
  <2> QED BY <2>1 DEF AllPlaced
<1>3. AllPlaced(d, byId, [launch EXCEPT ![s] = NoLaunch], a, q, m, r2)
  BY <1>2 DEF l
<1>4. AllPlaced(d, byId', launch', a, q, m, r2)
  BY <1>0, <1>1, <1>3, EndsPlaces
<1> QED BY <1>1, <1>4 DEF r2

LEMMA ProceedsPlaces ==
  ASSUME NInv, NEW s \in Sessions, NEW b \in AgentRec, launch[s].pc \in {"init", "loading"}, Proceeds(s, b),
         steering' = steering, NEW a, NEW q, AllPlaced(disk, byId, launch, a, q, marked, req), a[s].flight = None
  PROVE  LockInv' /\ AllPlaced(disk, byId', launch', a, q, marked, req')
<1>0. /\ ReqInv /\ LockInv /\ launch \in [Sessions -> LaunchRec]
  BY HFacts DEF NInv
<1>1. CASE Ends(s, b)
  <2>1. AllPlaced(disk, byId, [launch EXCEPT ![s] = NoLaunch], a, q, marked, req)
    BY <1>0, OverPlaces
  <2> QED BY <1>1, <2>1, FinallyPlaces
<1>2. CASE /\ UNCHANGED <<runVars, req, lock>>
           /\ \/ Goes(s, "unfail") /\ launch[s].kind # "follow_up"
              \/ Goes(s, "begin") \/ Goes(s, "compact")
  <2>1. PICK pc \in {"unfail", "begin", "compact"} : Goes(s, pc) /\ (pc = "unfail" => launch[s].kind # "follow_up")
    BY <1>2
  <2>2. AllPlaced(disk, byId, launch', a, q, marked, req)
    BY <1>0, <2>1, GoesPlaces DEF Pcs, Begun
  <2>3. LockInv'
    BY <1>0, <1>2, LockIdle
  <2> QED BY <1>2, <2>2, <2>3 DEF runVars
<1> QED BY <1>1, <1>2, Zenon DEF Proceeds

LEMMA LaunchesPlaces == ASSUME NInv, NEW s \in Sessions, Launches(s) PROVE LockInv' /\ Places'
<1>0. /\ HInv /\ LockInv /\ Places /\ ReqInv /\ launch \in [Sessions -> LaunchRec] /\ agent \in [Sessions -> AgentRec]
      /\ Fits(launch[s], agent[s], loading[s]) /\ loading \in [Sessions -> Seq(Prompts) \cup {None}]
  BY HFacts DEF NInv, LaunchesFit
<1>1. launch[s].pc = "init" /\ agent[s] \in AgentRec /\ agent[s].flight = None
  BY <1>0 DEF Fits, Launches, At
<1>2. UNCHANGED <<disk, agent, steering, marked>>
  BY DEF Launches, histVars
<1>3. CASE agent[s].up
  <2>1. Proceeds(s, agent[s]) /\ loading' = loading
    BY <1>3, Zenon DEF Launches
  <2>2. AllPlaced(disk, byId, launch, agent, loading, marked, req)
    BY <1>0 DEF Places
  <2> DEFINE b == agent[s]
  <2>3. b \in AgentRec /\ Proceeds(s, b)
    BY <1>1, <2>1
  <2> HIDE DEF b
  <2> QED BY <1>1, <1>2, <2>1, <2>2, <2>3, ProceedsPlaces DEF Places
<1>4. CASE ~agent[s].up
  <2>1. /\ loading[s] = None /\ loading' = [loading EXCEPT ![s] = disk[s].queue]
        /\ Goes(s, "loading") /\ UNCHANGED <<runVars, req, lock>>
    BY <1>4, Zenon DEF Launches
  <2>2. LockInv'
    BY <1>0, <1>2, <2>1, LockIdle
  <2> DEFINE l2 == launch'
             q2 == loading'
             x == l2[s]
  <2>3. /\ x \in LaunchRec /\ x.pc = "loading" /\ x.p = launch[s].p /\ x.kind = launch[s].kind
        /\ \A t \in Sessions \ {s} : l2[t] = launch[t]
    BY <1>0, <2>1 DEF Goes, LaunchRec, Pcs
  <2>4. q2[s] = disk[s].queue /\ \A t \in Sessions \ {s} : q2[t] = loading[t]
    BY <1>0, <2>1
  <2>5. InPlace(s, disk[s], byId[s], launch[s], agent[s], None, marked, req)
    BY <1>0, <2>1, PlaceOf
  <2> HIDE DEF x, l2, q2
  <2>6. InPlace(s, disk[s], byId[s], x, agent[s], disk[s].queue, marked, req)
    BY <1>1, <1>4, <2>3, <2>5, QueueRead
  <2>7. InPlace(s, disk[s], byId[s], l2[s], agent[s], q2[s], marked, req)
    BY <2>4, <2>6 DEF x
  <2>8. AllPlaced(disk, byId, launch, agent, loading, marked, req) /\ \A p \in Prompts : Milder(req[p], req[p])
    BY <1>0 DEF Places, Milder
  <2>9. AllPlaced(disk, byId, l2, agent, q2, marked, req)
    BY <2>3, <2>4, <2>7, <2>8, OneMoves
  <2>10. Places'
    BY <1>2, <2>1, <2>9 DEF Places, l2, q2, runVars
  <2> QED BY <2>2, <2>10
<1> QED BY <1>3, <1>4

LEMMA InitializedPlaces == ASSUME NInv, NEW s \in Sessions, Initialized(s) PROVE LockInv' /\ Places'
<1> DEFINE b == Loaded(loading[s])
           a2 == agent'
           q2 == loading'
<1>0. /\ HInv /\ LockInv /\ Places /\ agent \in [Sessions -> AgentRec]
      /\ Fits(launch[s], agent[s], loading[s]) /\ loading \in [Sessions -> Seq(Prompts) \cup {None}]
  BY HFacts DEF NInv, LaunchesFit
<1>1. launch[s].pc = "loading" /\ loading[s] \in Seq(Prompts) /\ loading[s] # None
  BY <1>0, HeadlessAssumption DEF Fits, Initialized, At
<1>2. /\ agent' = [agent EXCEPT ![s] = b] /\ loading' = [loading EXCEPT ![s] = None] /\ Proceeds(s, agent'[s])
      /\ UNCHANGED <<disk, steering, marked>>
  BY Zenon DEF Initialized, histVars
<1>3. b \in AgentRec /\ b.up /\ b.mem = loading[s] /\ b.flight = None
  BY <1>1 DEF Loaded, AgentRec, PromptOrNone
<1> HIDE DEF b
<1>4. a2[s] = b /\ q2[s] = None /\ \A t \in Sessions \ {s} : a2[t] = agent[t] /\ q2[t] = loading[t]
  BY <1>0, <1>2
<1>5. Proceeds(s, b)
  BY <1>2, <1>4, Zenon
<1>6. InPlace(s, disk[s], byId[s], launch[s], agent[s], loading[s], marked, req)
  BY <1>0, PlaceOf
<1> DEFINE q == loading[s]
<1>7. q \in Seq(Prompts) /\ q # None /\ b.mem = q /\ InPlace(s, disk[s], byId[s], launch[s], agent[s], q, marked, req)
  BY <1>1, <1>3, <1>6
<1> HIDE DEF a2, q2, q
<1>8. InPlace(s, disk[s], byId[s], launch[s], b, None, marked, req)
  BY <1>1, <1>3, <1>7, QueueInstalled
<1>9. InPlace(s, disk[s], byId[s], launch[s], a2[s], q2[s], marked, req)
  BY <1>4, <1>8
<1>10. AllPlaced(disk, byId, launch, agent, loading, marked, req) /\ \A p \in Prompts : Milder(req[p], req[p])
  BY <1>0 DEF Places, Milder
<1>11. AllPlaced(disk, byId, launch, a2, q2, marked, req)
  BY <1>4, <1>9, <1>10, OneMoves
<1>12. LockInv' /\ AllPlaced(disk, byId', launch', a2, q2, marked, req')
  <2>1. a2[s].flight = None
    BY <1>3, <1>4
  <2> QED BY <1>1, <1>2, <1>3, <1>5, <1>11, <2>1, ProceedsPlaces
<1> QED BY <1>2, <1>12 DEF Places, a2, q2

LEMMA InitFailsPlaces == ASSUME NInv, NEW s \in Sessions, InitFails(s) PROVE LockInv' /\ Places'
<1> DEFINE b == agent[s]
           q2 == loading'
<1>0. /\ HInv /\ LockInv /\ Places /\ agent \in [Sessions -> AgentRec] /\ launch \in [Sessions -> LaunchRec]
      /\ Fits(launch[s], agent[s], loading[s]) /\ loading \in [Sessions -> Seq(Prompts) \cup {None}]
  BY HFacts DEF NInv, LaunchesFit
<1>1. launch[s].pc = "loading" /\ agent[s].flight = None /\ b \in AgentRec
  BY <1>0 DEF Fits, InitFails, At
<1>2. /\ loading' = [loading EXCEPT ![s] = None] /\ Ends(s, b)
      /\ UNCHANGED <<disk, agent, steering, marked>>
  BY Zenon DEF InitFails
<1>3. q2[s] = None /\ \A t \in Sessions \ {s} : q2[t] = loading[t]
  BY <1>0, <1>2
<1>4. InPlace(s, disk[s], byId[s], launch[s], agent[s], loading[s], marked, req)
  BY <1>0, PlaceOf
<1>5. InPlace(s, disk[s], byId[s], launch[s], agent[s], None, marked, req)
  BY <1>4, QueueDropped
<1> HIDE DEF q2, b
<1>6. InPlace(s, disk[s], byId[s], launch[s], agent[s], q2[s], marked, req)
  BY <1>3, <1>5
<1>7. AllPlaced(disk, byId, launch, agent, loading, marked, req) /\ \A p \in Prompts : Milder(req[p], req[p])
  BY <1>0 DEF Places, Milder
<1>8. AllPlaced(disk, byId, launch, agent, q2, marked, req)
  BY <1>3, <1>6, <1>7, OneMoves
<1>9. AllPlaced(disk, byId, [launch EXCEPT ![s] = NoLaunch], agent, q2, marked, req)
  BY <1>0, <1>1, <1>8, OverPlaces
<1>10. LockInv' /\ AllPlaced(disk, byId', launch', agent, q2, marked, req')
  BY <1>1, <1>2, <1>9, FinallyPlaces
<1> QED BY <1>2, <1>10 DEF Places, q2

LEMMA CompactsPlaces == ASSUME NInv, NEW s \in Sessions, Compacts(s) PROVE LockInv' /\ Places'
<1>0. /\ HInv /\ LockInv /\ Places /\ ReqInv /\ launch \in [Sessions -> LaunchRec]
  BY HFacts DEF NInv
<1>1. launch[s].pc = "compact" /\ UNCHANGED <<disk, agent, loading, byId, steering, marked, req, lock>>
  BY DEF Compacts, At, runVars, reqVars, histVars
<1>2. PICK pc \in {"recheck", "compacting"} : Goes(s, pc)
  BY DEF Compacts
<1>3. LockInv'
  BY <1>0, <1>1, LockIdle
<1>4. AllPlaced(disk, byId, launch', agent, loading, marked, req)
  BY <1>0, <1>1, <1>2, GoesPlaces DEF Pcs, Begun, Places
<1> QED BY <1>1, <1>3, <1>4 DEF Places

LEMMA RechecksPlaces == ASSUME NInv, NEW s \in Sessions, Rechecks(s) PROVE LockInv' /\ Places'
<1> DEFINE b == agent[s]
<1>0. /\ HInv /\ LockInv /\ Places /\ ReqInv /\ launch \in [Sessions -> LaunchRec]
      /\ Fits(launch[s], agent[s], loading[s])
  BY HFacts DEF NInv, LaunchesFit
<1>1. /\ launch[s].pc \in {"recheck", "compacting"} /\ agent[s].flight = None /\ b \in AgentRec
      /\ UNCHANGED <<disk, agent, loading, steering, marked>>
  BY <1>0 DEF Fits, Rechecks, At, histVars
<1>2. Ends(s, b) \/ (Goes(s, "begin") /\ UNCHANGED <<runVars, req, lock>>)
  BY Zenon DEF Rechecks
<1>3. CASE Ends(s, b)
  <2>1. AllPlaced(disk, byId, [launch EXCEPT ![s] = NoLaunch], agent, loading, marked, req)
    BY <1>0, <1>1, OverPlaces DEF Places
  <2> HIDE DEF b
  <2>2. LockInv' /\ AllPlaced(disk, byId', launch', agent, loading, marked, req')
    BY <1>1, <1>3, <2>1, FinallyPlaces
  <2> QED BY <1>1, <2>2 DEF Places
<1>4. CASE Goes(s, "begin") /\ UNCHANGED <<runVars, req, lock>>
  <2>1. LockInv'
    BY <1>0, <1>1, <1>4, LockIdle
  <2>2. AllPlaced(disk, byId, launch', agent, loading, marked, req)
    BY <1>0, <1>1, <1>4, GoesPlaces DEF Pcs, Begun, Places
  <2> QED BY <1>1, <1>4, <2>1, <2>2 DEF Places, runVars
<1> QED BY <1>2, <1>3, <1>4

LEMMA BeginFields ==
  ASSUME NEW a \in AgentRec, Peek(a) # None
  PROVE  /\ Begin(a) \in AgentRec /\ Begin(a).up = a.up
         /\ Begin(a).flight = Peek(a) /\ Begin(a).mem = Tail(a.mem)
<1>1. Peek(a) = Head(a.mem) /\ Peek(a) \in Prompts /\ Tail(a.mem) \in Seq(Prompts)
  BY PeekIs
<1> QED BY <1>1 DEF Begin, AgentRec, PromptOrNone

LEMMA BeginsPlaces == ASSUME NInv, NEW s \in Sessions, Begins(s) PROVE LockInv' /\ Places'
<1> DEFINE b == agent[s]
           id == Peek(agent[s])
           c == Begin(agent[s])
<1>0. /\ HInv /\ LockInv /\ Places /\ ReqInv /\ launch \in [Sessions -> LaunchRec]
      /\ Fits(launch[s], agent[s], loading[s]) /\ agent \in [Sessions -> AgentRec]
  BY HFacts DEF NInv, LaunchesFit
<1>1. /\ launch[s].pc = "begin" /\ launch[s].kind = "follow_up" /\ agent[s].flight = None /\ b \in AgentRec
      /\ UNCHANGED <<disk, loading, steering, marked>>
  BY <1>0 DEF Fits, Begins, At, histVars
<1>2. \/ /\ id # None /\ agent' = [agent EXCEPT ![s] = c]
         /\ launch' = [launch EXCEPT ![s].pc = "unfail", ![s].p = id] /\ UNCHANGED <<runVars, req, lock>>
      \/ Ends(s, b) /\ agent' = agent
  BY Zenon DEF Begins
<1>3. CASE Ends(s, b) /\ agent' = agent
  <2>1. AllPlaced(disk, byId, [launch EXCEPT ![s] = NoLaunch], agent, loading, marked, req)
    BY <1>0, <1>1, OverPlaces DEF Places
  <2> HIDE DEF b
  <2>2. LockInv' /\ AllPlaced(disk, byId', launch', agent, loading, marked, req')
    BY <1>1, <1>3, <2>1, FinallyPlaces
  <2> QED BY <1>1, <1>3, <2>2 DEF Places
<1>4. CASE /\ id # None /\ agent' = [agent EXCEPT ![s] = c]
           /\ launch' = [launch EXCEPT ![s].pc = "unfail", ![s].p = id] /\ UNCHANGED <<runVars, req, lock>>
  <2> DEFINE l2 == launch'
             a2 == agent'
             x == l2[s]
  <2>1. LockInv'
    BY <1>0, <1>1, <1>4, LockIdle
  <2>2. id \in Prompts
    BY <1>1, <1>4, PeekIs
  <2>3. /\ c \in AgentRec /\ c.up = agent[s].up /\ c.flight = id /\ c.mem = Tail(agent[s].mem)
    BY <1>1, <1>4, BeginFields
  <2> HIDE DEF c
  <2>4. a2[s] = c /\ \A t \in Sessions \ {s} : a2[t] = agent[t]
    BY <1>0, <1>4
  <2>5. /\ x \in LaunchRec /\ x.pc = "unfail" /\ x.kind = "follow_up" /\ x.p = id
        /\ \A t \in Sessions \ {s} : l2[t] = launch[t]
    <3> HIDE DEF id
    <3> DEFINE y == [launch[s] EXCEPT !.pc = "unfail", !.p = id]
    <3>1. launch[s] \in LaunchRec /\ id \in PromptOrNone
      BY <1>0, <2>2 DEF PromptOrNone
    <3>2. y \in LaunchRec /\ y.pc = "unfail" /\ y.p = id /\ y.kind = "follow_up"
      BY <1>1, <3>1 DEF LaunchRec, Pcs
    <3>3. l2 = [launch EXCEPT ![s] = y]
      BY <1>0, <1>4
    <3> HIDE DEF y
    <3> QED BY <1>0, <3>2, <3>3
  <2>6. InPlace(s, disk[s], byId[s], launch[s], agent[s], loading[s], marked, req)
    BY <1>0, PlaceOf
  <2>7. Peek(agent[s]) # None /\ x.p = Peek(agent[s]) /\ c.flight = Peek(agent[s])
    BY <1>4, <2>3, <2>5
  <2> HIDE DEF x, l2, a2, id
  <2>8. InPlace(s, disk[s], byId[s], x, c, loading[s], marked, req)
    BY <1>1, <2>3, <2>5, <2>6, <2>7, HeadBegun
  <2>9. InPlace(s, disk[s], byId[s], l2[s], a2[s], loading[s], marked, req)
    BY <2>4, <2>8 DEF x
  <2>10. AllPlaced(disk, byId, launch, agent, loading, marked, req) /\ \A p \in Prompts : Milder(req[p], req[p])
    BY <1>0 DEF Places, Milder
  <2>11. AllPlaced(disk, byId, l2, a2, loading, marked, req)
    BY <2>4, <2>5, <2>9, <2>10, OneMoves
  <2>12. Places'
    BY <1>1, <1>4, <2>11 DEF Places, l2, a2, runVars
  <2> QED BY <2>1, <2>12
<1> QED BY <1>2, <1>3, <1>4

\* What is not of the prompts' places on disk changes, for one session.
LEMMA DiskSame ==
  ASSUME NEW d, NEW e, NEW l, NEW a, NEW q, NEW m, NEW r, AllPlaced(d, e, l, a, q, m, r), NEW s \in Sessions,
         NEW d2, d2[s] \in DiskRec, d2[s].turn = d[s].turn, d2[s].queue = d[s].queue, d2[s].done = d[s].done,
         \A t \in Sessions \ {s} : d2[t] = d[t]
  PROVE  AllPlaced(d2, e, l, a, q, m, r)
<1> DEFINE f == d2[s]
<1>1. f \in DiskRec /\ f.turn = d[s].turn /\ f.queue = d[s].queue /\ f.done = d[s].done
  OBVIOUS
<1>2. InPlace(s, d[s], e[s], l[s], a[s], q[s], m, r) /\ \A p \in Prompts : Milder(r[p], r[p])
  BY DEF AllPlaced, Milder
<1> HIDE DEF f
<1>3. InPlace(s, f, e[s], l[s], a[s], q[s], m, r)
  BY <1>1, <1>2, TurnWritten
<1>4. InPlace(s, d2[s], e[s], l[s], a[s], q[s], m, r)
  BY <1>3 DEF f
<1> QED BY <1>2, <1>4, OneMoves

LEMMA FailedSame ==
  ASSUME DiskInv, NEW s \in Sessions, NEW x \in BOOLEAN, disk' = [disk EXCEPT ![s].failed = x],
         NEW e, NEW l, NEW a, NEW q, NEW m, NEW r, AllPlaced(disk, e, l, a, q, m, r)
  PROVE  AllPlaced(disk', e, l, a, q, m, r)
<1> DEFINE d2 == disk'
<1>1. /\ d2[s].turn = disk[s].turn /\ d2[s].queue = disk[s].queue /\ d2[s].done = disk[s].done
      /\ \A t \in Sessions \ {s} : d2[t] = disk[t]
  BY DiskIs
<1>2. DiskInv'
  BY DiskFailed
<1>3. d2[s] \in DiskRec
  BY <1>2 DEF DiskInv
<1> HIDE DEF d2
<1>4. AllPlaced(d2, e, l, a, q, m, r)
  BY <1>1, <1>3, DiskSame
<1> QED BY <1>4 DEF d2

LEMMA SubmitsPlaces == ASSUME NInv, NEW s \in Sessions, Submits(s) PROVE LockInv' /\ Places'
<1> DEFINE r2 == req'
<1>0. /\ HInv /\ LockInv /\ Places /\ ReqInv /\ DiskInv /\ launch \in [Sessions -> LaunchRec]
  BY HFacts DEF NInv
<1>1. /\ launch[s].pc = "unfail" /\ Goes(s, "wait") /\ disk' = [disk EXCEPT ![s].failed = FALSE] /\ HandsOver(s)
      /\ UNCHANGED <<agent, loading, byId, steering, marked, lock>>
  BY DEF Submits, At, runVars, histVars
<1>2. LockInv'
  BY <1>0, <1>1, LockHanded
<1>3. \A x \in Prompts \cup Kills : Milder(req[x], r2[x])
  <2>1. \A x \in Prompts \cup Kills : req'[x] = req[x] \/ (req[x] = "handoff" /\ req'[x] = "handed")
    BY <1>0, <1>1 DEF ReqInv, HandsOver
  <2> QED BY <2>1 DEF Milder, Early, Steers
<1>4. AllPlaced(disk, byId, launch, agent, loading, marked, r2)
  BY <1>0, <1>3, PlacesMild
<1> HIDE DEF r2
<1>5. AllPlaced(disk, byId, launch', agent, loading, marked, r2)
  BY <1>0, <1>1, <1>4, GoesPlaces DEF Pcs, Begun
<1>6. AllPlaced(disk', byId, launch', agent, loading, marked, r2)
  <2> DEFINE l2 == launch'
  <2>1. AllPlaced(disk, byId, l2, agent, loading, marked, r2)
    BY <1>5
  <2> HIDE DEF l2
  <2>2. AllPlaced(disk', byId, l2, agent, loading, marked, r2)
    BY <1>0, <1>1, <2>1, FailedSame
  <2> QED BY <2>2 DEF l2
<1> QED BY <1>1, <1>2, <1>6 DEF Places, r2

LEMMA AbortFields ==
  ASSUME NEW a \in AgentRec, a.flight \in Prompts
  PROVE  /\ Abort(a) \in AgentRec /\ Abort(a).up = a.up
         /\ Abort(a).flight = None /\ Abort(a).mem = <<a.flight>> \o a.mem
<1> DEFINE r == <<a.flight>> \o a.mem
<1>1. r \in Seq(Prompts)
  BY AgentFields, HeadPut
<1>2. Abort(a) = [a EXCEPT !.mem = r, !.flight = None]
  BY Zenon DEF Abort
<1> HIDE DEF r
<1>3. Abort(a).mem = r /\ Abort(a) \in AgentRec /\ Abort(a).up = a.up /\ Abort(a).flight = None
  BY <1>1, <1>2 DEF AgentRec, PromptOrNone
<1> QED BY <1>3 DEF r

LEMMA RaisesPlaces ==
  ASSUME NInv, NEW s \in Sessions, launch[s].pc \in {"wait", "flush"}, Goes(s, "failing"), Raises(s)
  PROVE  AllPlaced(disk', byId, launch', agent', loading, marked, req)
<1> DEFINE c == Abort(agent[s])
<1>0. /\ HInv /\ Places /\ launch \in [Sessions -> LaunchRec] /\ DiskInv
      /\ Fits(launch[s], agent[s], loading[s]) /\ agent \in [Sessions -> AgentRec] /\ agent[s] \in AgentRec
  BY HFacts DEF NInv, LaunchesFit
<1>1. /\ AllPlaced(disk, byId, launch', agent, loading, marked, req)
      /\ launch'[s] \in LaunchRec /\ launch'[s].pc = "failing" /\ launch'[s].p = launch[s].p
      /\ launch'[s].kind = launch[s].kind /\ \A t \in Sessions \ {s} : launch'[t] = launch[t]
  BY <1>0, GoesPlaces DEF Pcs, Begun, Places
<1>2. \/ launch[s].kind = "follow_up" /\ CanAbort(agent[s], launch[s].p) /\ Saves(s, c)
      \/ UNCHANGED <<agent, disk>>
  BY Zenon DEF Raises
<1>3. CASE UNCHANGED <<agent, disk>>
  BY <1>1, <1>3
<1>4. CASE launch[s].kind = "follow_up" /\ CanAbort(agent[s], launch[s].p) /\ Saves(s, c)
  <2> DEFINE l2 == launch'
             a2 == agent'
             d2 == disk'
             x == l2[s]
             f == d2[s]
  <2>1. agent[s].flight \in Prompts /\ agent[s].flight # None
    BY <1>0, <1>4, NoneApart DEF CanAbort, Fits
  <2>2. c \in AgentRec /\ c.up = agent[s].up /\ c.flight = None /\ c.mem = <<agent[s].flight>> \o agent[s].mem
    BY <1>0, <2>1, AbortFields
  <2> HIDE DEF c
  <2>3. /\ d2[s] \in DiskRec /\ d2[s].queue = Durable(c)
        /\ d2[s].turn = disk[s].turn /\ d2[s].done = disk[s].done /\ a2[s] = c
        /\ \A t \in Sessions \ {s} : d2[t] = disk[t] /\ a2[t] = agent[t]
    BY <1>0, <1>4, <2>2, SavesIs
  <2>4. f \in DiskRec /\ f.queue = Durable(c) /\ f.turn = disk[s].turn /\ f.done = disk[s].done
    BY <2>3
  <2>5. /\ x \in LaunchRec /\ x.pc = "failing" /\ x.p = launch[s].p /\ x.kind = launch[s].kind
        /\ \A t \in Sessions \ {s} : l2[t] = launch[t]
    BY <1>1
  <2>6. InPlace(s, disk[s], byId[s], launch[s], agent[s], loading[s], marked, req)
    BY <1>0, PlaceOf
  <2> HIDE DEF x, f, l2, a2, d2
  <2>7. InPlace(s, f, byId[s], x, c, loading[s], marked, req)
    BY <2>1, <2>2, <2>4, <2>5, <2>6, HeadGivenBack
  <2>8. InPlace(s, d2[s], byId[s], l2[s], a2[s], loading[s], marked, req)
    BY <2>3, <2>7 DEF x, f
  <2>9. AllPlaced(disk, byId, launch, agent, loading, marked, req) /\ \A p \in Prompts : Milder(req[p], req[p])
    BY <1>0 DEF Places, Milder
  <2>10. AllPlaced(d2, byId, l2, a2, loading, marked, req)
    BY <2>3, <2>5, <2>8, <2>9, OneMoves
  <2> QED BY <2>10 DEF l2, a2, d2
<1> QED BY <1>2, <1>3, <1>4

LEMMA AwaitsPlaces == ASSUME NInv, NEW s \in Sessions, Awaits(s) PROVE LockInv' /\ Places'
<1>0. /\ HInv /\ LockInv /\ Places /\ ReqInv /\ launch \in [Sessions -> LaunchRec]
  BY HFacts DEF NInv
<1>1. /\ launch[s].pc = "wait" /\ UNCHANGED <<loading, byId, steering, marked, req, lock>>
      /\ (Goes(s, "flush") /\ UNCHANGED <<agent, disk>>) \/ (Goes(s, "failing") /\ Raises(s))
  BY Zenon DEF Awaits, At, runVars, reqVars
<1>2. LockInv'
  BY <1>0, <1>1, LockIdle
<1>3. CASE Goes(s, "flush") /\ UNCHANGED <<agent, disk>>
  <2>1. AllPlaced(disk, byId, launch', agent, loading, marked, req)
    BY <1>0, <1>1, <1>3, GoesPlaces DEF Pcs, Begun, Places
  <2> QED BY <1>1, <1>2, <1>3, <2>1 DEF Places
<1>4. CASE Goes(s, "failing") /\ Raises(s)
  <2>1. AllPlaced(disk', byId, launch', agent', loading, marked, req)
    BY <1>1, <1>4, RaisesPlaces
  <2> QED BY <1>1, <1>2, <2>1 DEF Places
<1> QED BY <1>1, <1>3, <1>4

LEMMA FlushesPlaces == ASSUME NInv, NEW s \in Sessions, Flushes(s) PROVE LockInv' /\ Places'
<1>0. /\ HInv /\ LockInv /\ Places /\ ReqInv /\ launch \in [Sessions -> LaunchRec]
  BY HFacts DEF NInv
<1>1. /\ launch[s].pc = "flush" /\ UNCHANGED <<loading, byId, steering, marked, req, lock>>
      /\ (Goes(s, "mark") /\ UNCHANGED <<agent, disk>>) \/ (Goes(s, "failing") /\ Raises(s))
  BY Zenon DEF Flushes, At, runVars, reqVars
<1>2. LockInv'
  BY <1>0, <1>1, LockIdle
<1>3. CASE Goes(s, "mark") /\ UNCHANGED <<agent, disk>>
  <2>1. AllPlaced(disk, byId, launch', agent, loading, marked, req)
    BY <1>0, <1>1, <1>3, GoesPlaces DEF Pcs, Begun, Places
  <2> QED BY <1>1, <1>2, <1>3, <2>1 DEF Places
<1>4. CASE Goes(s, "failing") /\ Raises(s)
  <2>1. AllPlaced(disk', byId, launch', agent', loading, marked, req)
    BY <1>1, <1>4, RaisesPlaces
  <2> QED BY <1>1, <1>2, <2>1 DEF Places
<1> QED BY <1>1, <1>3, <1>4

LEMMA MarksPlaces == ASSUME NInv, NEW s \in Sessions, Marks(s) PROVE LockInv' /\ Places'
<1> DEFINE p == launch[s].p
           m == marked \cup {p}
           l2 == launch'
           d2 == disk'
           x == l2[s]
           f == d2[s]
<1>0. /\ HInv /\ LockInv /\ Places /\ ReqInv /\ DiskInv /\ launch \in [Sessions -> LaunchRec]
      /\ Fits(launch[s], agent[s], loading[s])
  BY HFacts DEF NInv, LaunchesFit
<1>1. /\ launch[s].pc = "mark" /\ Goes(s, "marked") /\ disk' = [disk EXCEPT ![s].done = p] /\ marked' = m
      /\ UNCHANGED <<agent, loading, byId, steering, req, lock>>
  BY DEF Marks, At, runVars, reqVars
<1>2. p \in Prompts
  BY <1>0, <1>1 DEF Fits
<1>3. LockInv'
  BY <1>0, <1>1, LockIdle
<1>4. /\ x \in LaunchRec /\ x.pc = "marked" /\ x.p = launch[s].p /\ x.kind = launch[s].kind
      /\ \A t \in Sessions \ {s} : l2[t] = launch[t]
  BY <1>0, <1>1 DEF Goes, LaunchRec, Pcs
<1>5. /\ f.turn = disk[s].turn /\ f.queue = disk[s].queue /\ f.done = launch[s].p
      /\ \A t \in Sessions \ {s} : d2[t] = disk[t]
  BY <1>0, <1>1, DiskIs
<1>6. f \in DiskRec
  <2>1. DiskInv'
    BY <1>0, <1>1, <1>2, DiskDone DEF PromptOrNone
  <2> QED BY <2>1 DEF DiskInv
<1>7. InPlace(s, disk[s], byId[s], launch[s], agent[s], loading[s], marked, req)
  BY <1>0, PlaceOf
<1> HIDE DEF x, f, l2, d2
<1>8. Dest[launch[s].p] = s /\ InPlace(s, f, byId[s], x, agent[s], loading[s], marked \cup {launch[s].p}, req)
  BY <1>0, <1>1, <1>4, <1>5, <1>6, <1>7, TurnMarked
<1>9. Dest[p] = s /\ InPlace(s, d2[s], byId[s], l2[s], agent[s], loading[s], m, req)
  BY <1>8 DEF x, f
<1> HIDE DEF p
<1>10. ASSUME NEW t \in Sessions \ {s} PROVE InPlace(t, d2[t], byId[t], l2[t], agent[t], loading[t], m, req)
  <2>1. InPlace(t, disk[t], byId[t], launch[t], agent[t], loading[t], marked, req)
    BY <1>0, PlaceOf
  <2>2. Dest[p] # t
    BY <1>9
  <2>3. InPlace(t, disk[t], byId[t], launch[t], agent[t], loading[t], marked \cup {p}, req)
    BY <1>2, <2>1, <2>2, OtherMarked
  <2> QED BY <1>4, <1>5, <2>3
<1>11. AllPlaced(d2, byId, l2, agent, loading, m, req)
  BY <1>9, <1>10 DEF AllPlaced
<1> QED BY <1>1, <1>3, <1>11 DEF Places, l2, d2

LEMMA AcknowledgesPlaces == ASSUME NInv, NEW s \in Sessions, Acknowledges(s) PROVE LockInv' /\ Places'
<1> DEFINE c == Acknowledge(agent[s], launch[s].p)
           b == agent'[s]
           d2 == disk'
           a2 == agent'
           f == d2[s]
           l == [launch EXCEPT ![s] = NoLaunch]
<1>0. /\ HInv /\ LockInv /\ Places /\ ReqInv /\ DiskInv /\ launch \in [Sessions -> LaunchRec]
      /\ Fits(launch[s], agent[s], loading[s]) /\ agent \in [Sessions -> AgentRec] /\ agent[s] \in AgentRec
  BY HFacts DEF NInv, LaunchesFit
<1>1. /\ launch[s].pc = "marked" /\ launch[s].kind = "follow_up" /\ Ends(s, b)
      /\ UNCHANGED <<loading, steering, marked>>
  BY Zenon DEF Acknowledges, At, histVars
<1>2. InPlace(s, disk[s], byId[s], launch[s], agent[s], loading[s], marked, req)
  BY <1>0, PlaceOf
<1>3. agent[s].flight = launch[s].p /\ agent[s].flight # None
  BY <1>0, <1>1, <1>2, NoneApart DEF InPlace, Stored, Begun, Fits
<1>4. Saves(s, c)
  <2>1. CanAcknowledge(agent[s], launch[s].p)
    BY <1>3 DEF CanAcknowledge
  <2> QED BY <2>1, Zenon DEF Acknowledges
<1>5. c \in AgentRec /\ c.up = agent[s].up /\ c.flight = None /\ c.mem = agent[s].mem
  <2>1. c = [agent[s] EXCEPT !.flight = None]
    BY <1>3 DEF Acknowledge
  <2> HIDE DEF c
  <2> QED BY <1>0, <2>1 DEF AgentRec, PromptOrNone
<1> HIDE DEF c
<1>6. /\ d2[s] \in DiskRec /\ d2[s].queue = Durable(c)
      /\ d2[s].turn = disk[s].turn /\ d2[s].done = disk[s].done /\ a2[s] = c
      /\ \A t \in Sessions \ {s} : d2[t] = disk[t] /\ a2[t] = agent[t]
  BY <1>0, <1>4, <1>5, SavesIs
<1>7. f \in DiskRec /\ f.queue = Durable(c) /\ f.turn = disk[s].turn /\ f.done = disk[s].done
  BY <1>6
<1>8. l[s] = NoLaunch /\ \A t \in Sessions \ {s} : l[t] = launch[t]
  BY <1>0
<1>9. b = c
  BY <1>6
<1> HIDE DEF f, d2, a2, l, b, NoLaunch
<1>10. InPlace(s, f, byId[s], NoLaunch, c, loading[s], marked, req)
  BY <1>1, <1>2, <1>3, <1>5, <1>7, HeadAcknowledged
<1>11. InPlace(s, d2[s], byId[s], l[s], a2[s], loading[s], marked, req)
  BY <1>6, <1>8, <1>10 DEF f
<1>12. AllPlaced(disk, byId, launch, agent, loading, marked, req) /\ \A p \in Prompts : Milder(req[p], req[p])
  BY <1>0 DEF Places, Milder
<1>13. AllPlaced(d2, byId, l, a2, loading, marked, req)
  BY <1>6, <1>8, <1>11, <1>12, OneMoves
<1>14. LockInv' /\ AllPlaced(d2, byId', launch', a2, loading, marked, req')
  BY <1>1, <1>5, <1>9, <1>13, FinallyPlaces DEF l
<1> QED BY <1>1, <1>14 DEF Places, d2, a2

LEMMA LocksToClearPlaces == ASSUME NInv, NEW s \in Sessions, LocksToClear(s) PROVE LockInv' /\ Places'
<1>0. /\ HInv /\ LockInv /\ Places /\ ReqInv /\ launch \in [Sessions -> LaunchRec]
      /\ Fits(launch[s], agent[s], loading[s])
  BY HFacts DEF NInv, LaunchesFit
<1>1. /\ launch[s].pc = "marked" /\ launch[s].kind # "follow_up" /\ lock[s] = None
      /\ lock' = [lock EXCEPT ![s] = "launch"] /\ Goes(s, "clear")
      /\ UNCHANGED <<disk, agent, loading, byId, steering, marked, req>>
  BY DEF LocksToClear, At, Free, runVars, histVars
<1>2. LockInv'
  <2>1. lock[s] \notin Prompts \cup Kills
    BY <1>1, HeadlessAssumption
  <2> QED BY <1>0, <1>1, <2>1, LockIdle
<1>3. agent[s].flight = None
  BY <1>0, <1>1 DEF Fits
<1>4. AllPlaced(disk, byId, launch', agent, loading, marked, req)
  BY <1>0, <1>1, <1>3, GoesPlaces DEF Pcs, Places
<1> QED BY <1>1, <1>2, <1>4 DEF Places

LEMMA ClearsPlaces == ASSUME NInv, NEW s \in Sessions, Clears(s) PROVE LockInv' /\ Places'
<1> DEFINE b == agent[s]
           d2 == disk'
           f == d2[s]
           l == [launch EXCEPT ![s] = NoLaunch]
<1>0. /\ HInv /\ LockInv /\ Places /\ ReqInv /\ DiskInv /\ launch \in [Sessions -> LaunchRec]
      /\ Fits(launch[s], agent[s], loading[s])
  BY HFacts DEF NInv, LaunchesFit
<1>1. /\ launch[s].pc = "clear" /\ Ends(s, b) /\ disk' = Cleared(s)
      /\ UNCHANGED <<agent, loading, steering, marked>>
  BY DEF Clears, At, histVars
<1>2. DiskInv'
  BY <1>0, ClearsKeeps DEF HInv
<1>3. launch[s].p \in Prompts /\ launch[s].p # None /\ agent[s].flight = None /\ b \in AgentRec
  BY <1>0, <1>1, NoneApart DEF Fits
<1>4. /\ f \in DiskRec /\ f.queue = disk[s].queue /\ f.done = disk[s].done
      /\ f.turn \in {disk[s].turn, None} /\ f.turn # launch[s].p
      /\ \A t \in Sessions \ {s} : d2[t] = disk[t]
  <2>1. f \in DiskRec
    BY <1>2 DEF DiskInv
  <2>2. CASE disk[s].turn = launch[s].p
    <3>1. disk' = [disk EXCEPT ![s].turn = None]
      BY <1>1, <2>2 DEF Cleared
    <3>2. /\ f.turn = None /\ f.queue = disk[s].queue /\ f.done = disk[s].done
          /\ \A t \in Sessions \ {s} : d2[t] = disk[t]
      BY <1>0, <3>1, DiskIs
    <3> QED BY <1>3, <2>1, <3>2
  <2>3. CASE disk[s].turn # launch[s].p
    <3>1. disk' = disk
      BY <1>1, <2>3 DEF Cleared
    <3> QED BY <2>1, <2>3, <3>1
  <2> QED BY <2>2, <2>3
<1>5. InPlace(s, disk[s], byId[s], launch[s], agent[s], loading[s], marked, req)
  BY <1>0, PlaceOf
<1>6. l[s] = NoLaunch /\ \A t \in Sessions \ {s} : l[t] = launch[t]
  BY <1>0
<1> HIDE DEF f, d2, b, l, NoLaunch
<1>7. InPlace(s, f, byId[s], NoLaunch, agent[s], loading[s], marked, req)
  BY <1>3, <1>4, <1>5, LaunchEnds
<1>8. InPlace(s, d2[s], byId[s], l[s], agent[s], loading[s], marked, req)
  BY <1>6, <1>7 DEF f
<1>9. AllPlaced(disk, byId, launch, agent, loading, marked, req) /\ \A p \in Prompts : Milder(req[p], req[p])
  BY <1>0 DEF Places, Milder
<1>10. AllPlaced(d2, byId, l, agent, loading, marked, req)
  BY <1>4, <1>6, <1>8, <1>9, OneMoves
<1>11. LockInv' /\ AllPlaced(d2, byId', launch', agent, loading, marked, req')
  BY <1>1, <1>3, <1>10, FinallyPlaces DEF l
<1> QED BY <1>1, <1>11 DEF Places, d2

LEMMA FailsPlaces == ASSUME NInv, NEW s \in Sessions, Fails(s) PROVE LockInv' /\ Places'
<1> DEFINE b == agent[s]
           l == [launch EXCEPT ![s] = NoLaunch]
           d2 == disk'
<1>0. /\ HInv /\ LockInv /\ Places /\ ReqInv /\ DiskInv /\ launch \in [Sessions -> LaunchRec]
      /\ Fits(launch[s], agent[s], loading[s])
  BY HFacts DEF NInv, LaunchesFit
<1>1. /\ launch[s].pc = "failing" /\ Ends(s, b) /\ disk' = [disk EXCEPT ![s].failed = TRUE]
      /\ UNCHANGED <<agent, loading, steering, marked>>
  BY DEF Fails, At, histVars
<1>2. agent[s].flight = None /\ b \in AgentRec
  BY <1>0, <1>1 DEF Fits
<1> HIDE DEF b
<1>3. AllPlaced(disk, byId, l, agent, loading, marked, req)
  BY <1>0, <1>1, <1>2, OverPlaces DEF Places
<1> HIDE DEF l
<1>4. AllPlaced(d2, byId, l, agent, loading, marked, req)
  BY <1>0, <1>1, <1>3, FailedSame
<1> HIDE DEF d2
<1>5. LockInv' /\ AllPlaced(d2, byId', launch', agent, loading, marked, req')
  BY <1>1, <1>2, <1>4, FinallyPlaces DEF l
<1> QED BY <1>1, <1>5 DEF Places, d2

-----------------------------------------------------------------------------
(* The other steps.                                                          *)

LEMMA NothingMoves ==
  ASSUME NInv, UNCHANGED <<disk, byId, launch, agent, loading, marked, req, lock, steering>>
  PROVE  LockInv' /\ Places'
<1>1. LockInv'
  BY DEF NInv, LockInv
<1>2. \A x \in Prompts \cup Kills : Milder(req[x], req'[x])
  BY DEF Milder
<1> QED BY <1>1, <1>2, OnlyRequests DEF NInv

LEMMA TurnStepPlaces ==
  ASSUME NInv, NEW s \in Sessions, OpStarts(s) \/ OpEnds(s) \/ ForeignStarts(s) \/ ForeignEnds(s)
  PROVE  LockInv' /\ Places'
<1>1. UNCHANGED <<disk, byId, launch, agent, loading, marked, req, lock, steering>>
  BY Zenon DEF OpStarts, OpEnds, ForeignStarts, ForeignEnds, runVars, reqVars, histVars
<1> QED BY <1>1, NothingMoves

LEMMA ConsumerPersistsPlaces == ASSUME NInv, ConsumerPersists PROVE LockInv' /\ Places'
<1> DEFINE d2 == disk'
<1>0. /\ HInv /\ LockInv /\ Places /\ ReqInv /\ DiskInv /\ consumer \in Sessions
  BY HFacts DEF NInv, HInv, TurnInv, ConsumerPersists
<1>1. /\ disk' = [disk EXCEPT ![consumer].failed = TRUE]
      /\ UNCHANGED <<byId, launch, agent, loading, marked, req, lock, steering>>
  BY DEF ConsumerPersists, runVars, reqVars, histVars
<1>2. LockInv'
  BY <1>0, <1>1, LockIdle
<1>3. AllPlaced(d2, byId, launch, agent, loading, marked, req)
  BY <1>0, <1>1, FailedSame DEF Places
<1> QED BY <1>1, <1>2, <1>3 DEF Places

LEMMA ConsumesPlaces == ASSUME NInv, Consumes PROVE LockInv' /\ Places'
<1> DEFINE e == Head(events)
           b == agent[e.s]
<1>0. /\ HInv /\ LockInv /\ Places /\ ReqInv /\ Settled(Now, launch) /\ Now.ids = byId
      /\ launch \in [Sessions -> LaunchRec] /\ agent \in [Sessions -> AgentRec] /\ events \in Seq(EvRec)
  BY HFacts DEF NInv, HInv, TurnInv
<1>1. /\ events # <<>> /\ UNCHANGED <<disk, agent, loading, steering, req, lock, marked>>
      /\ Schedules(IF Triggers(e) THEN Drained(Now, e.s, stopped, failed', b, Held) ELSE Now, launch)
  BY Zenon DEF Consumes, reqVars, histVars
<1>2. e \in EvRec /\ e.s \in Sessions /\ b \in AgentRec
  <2>1. e \in EvRec
    BY <1>0, <1>1
  <2> HIDE DEF e
  <2> QED BY <1>0, <2>1 DEF EvRec
<1>3. LockInv'
  BY <1>0, <1>1, <1>2, LockIdle
<1>4. \A x \in Prompts : req[x] \in Steers => Dest[x] \in Held
  BY <1>0 DEF LockInv, Held
<1>5. AllPlaced(disk, Now.ids, launch, agent, loading, marked, req)
  BY <1>0 DEF Places
<1> HIDE DEF b
<1>6. AllPlaced(disk, byId', launch', agent, loading, marked, req)
  <2>1. CASE Triggers(e)
    <3> DEFINE fail == failed'
               s == e.s
    <3>1. Schedules(Drained(Now, s, stopped, fail, b, Held), launch) /\ s \in Sessions
      BY <1>1, <1>2, <2>1
    <3> HIDE DEF fail, s
    <3> QED BY <1>0, <1>2, <1>4, <1>5, <3>1, DrainPlaces
  <2>2. CASE ~Triggers(e)
    <3>1. Schedules(Now, launch)
      BY <1>1, <2>2
    <3> QED BY <1>0, <1>5, <3>1, SamePlaces
  <2> QED BY <2>1, <2>2
<1> QED BY <1>1, <1>3, <1>6 DEF Places

\* What the queue of a new server holds of a session is its turn on disk, or a follow-up.
LEMMA RestoredWaits ==
  ASSUME NEW d, NEW order \in SetToSeqs(RestoredEntries(d)), NEW l, Settled(Queued(order), l), NEW t \in Sessions,
         NEW p \in Prompts, Waits(Queued(order).ids[t], p)
  PROVE  d[t].turn = p
<1> DEFINE h == Queued(order)
           S == RestoredEntries(d)
           e == h.ids[t]
<1>1. Indexed(h) /\ h.q = order
  BY DEF Settled, Queued
<1>2. e # None /\ e.kind # "follow_up" /\ e.p = p
  BY DEF Waits
<1>3. e.s = t /\ e \in ToSet(order)
  <2> HIDE DEF h
  <2> QED BY <1>1, <1>2 DEF Indexed
<1>4. ToSet(order) \subseteq S
  <2> HIDE DEF S
  <2>1. order \in [1 .. Cardinality(S) -> S]
    BY DEF SetToSeqs, S
  <2> QED BY <2>1 DEF ToSet
<1>5. e \in RestoredEntries(d)
  BY <1>3, <1>4
<1> HIDE DEF e
<1> QED BY <1>2, <1>3, <1>5 DEF RestoredEntries

LEMMA CrashPlaces == ASSUME NInv, Crash PROVE LockInv' /\ Places'
<1> DEFINE l == [s \in Sessions |-> NoLaunch]
           d2 == disk'
           a2 == agent'
           q2 == loading'
           r2 == req'
<1>0. HInv /\ Places /\ ReqInv /\ DiskInv
  BY HFacts DEF NInv
<1>1. /\ d2 = [s \in Sessions |-> Restored(disk[s])]
      /\ a2 = [s \in Sessions |-> Absent] /\ q2 = [s \in Sessions |-> None]
      /\ r2 = [r \in DOMAIN req |-> IF req[r] \in {"new", "done", "refused"} THEN req[r] ELSE "cut"]
      /\ marked' = marked
  BY DEF Crash
<1>2. d2 \in [Sessions -> DiskRec]
  <2>1. DiskInv'
    BY <1>0, CrashKeeps DEF HInv
  <2> QED BY <2>1 DEF DiskInv
<1>3. PICK order \in SetToSeqs(RestoredEntries(disk')) : Schedules(Pump(Queued(order), {}), l)
  BY Zenon DEF Crash
<1> DEFINE h == Queued(order)
           S == RestoredEntries(d2)
<1>4. Settled(h, l)
  <2>1. S \subseteq Entry /\ IsFiniteSet(S) /\ \A x, y \in S : x.s = y.s => x = y
    BY <1>2, RestoredIs
  <2>2. order \in SetToSeqs(S)
    OBVIOUS
  <2> HIDE DEF S
  <2> QED BY <2>1, <2>2, QueuedSettled
<1>5. \A x \in Prompts \cup Kills : r2[x] \in {"new", "done", "refused", "cut"} /\ (r2[x] = "new" => req[x] = "new")
  BY <1>0, <1>1 DEF ReqInv
<1>6. LockInv'
  <2>1. \A x \in Prompts \cup Kills : ~HoldsLock(x, r2[x])
    BY <1>5 DEF HoldsLock, Steers
  <2>2. \A x \in Prompts : r2[x] \notin Steers
    BY <1>5 DEF Steers
  <2> QED BY <2>1, <2>2 DEF LockInv
<1>7. \A p \in Prompts : /\ r2[p] \notin Early \ {"new"} /\ r2[p] \notin Steers /\ r2[p] # "wrote"
                         /\ r2[p] = "new" => req[p] = "new"
  BY <1>5 DEF Early, Steers
<1>8. h.ids \in [Sessions -> Entry \cup {None}]
  BY <1>4, QueueFields DEF Settled, Indexed
<1>9. \A t \in Sessions, p \in Prompts : Waits(h.ids[t], p) => d2[t].turn = p
  BY <1>3, <1>4, RestoredWaits
<1>10. \A t \in Sessions : a2[t] = Absent /\ q2[t] = None /\ l[t] = NoLaunch /\ d2[t] = Restored(disk[t])
  BY <1>1
<1>11. l \in [Sessions -> LaunchRec]
  BY NoLaunchTyped
<1>12. Schedules(Pump(h, {}), l)
  BY <1>3
<1> HIDE DEF h, l, d2, a2, q2, r2, NoLaunch
<1>13. ASSUME NEW t \in Sessions PROVE InPlace(t, d2[t], h.ids[t], l[t], a2[t], q2[t], marked, r2)
  <2> DEFINE d == disk[t]
             f == d2[t]
             e2 == h.ids[t]
  <2>1. InPlace(t, d, byId[t], launch[t], agent[t], loading[t], marked, req)
    BY <1>0, PlaceOf
  <2>2. f \in DiskRec /\ e2 \in Entry \cup {None} /\ d \in DiskRec
    BY <1>0, <1>2, <1>8 DEF DiskInv
  <2>3. /\ f.turn = IF d.turn = d.done THEN None ELSE d.turn
        /\ f.queue = Unfinished(d.queue, d.done) /\ f.done = d.done
    <3>1. f = Restored(d)
      BY <1>10
    <3> HIDE DEF f, d
    <3>2. f = [d EXCEPT !.turn = IF @ = d.done THEN None ELSE @, !.queue = Unfinished(@, d.done)]
      BY <3>1, Zenon DEF Restored
    <3> DEFINE u == Unfinished(d.queue, d.done)
    <3>3. f = [d EXCEPT !.turn = IF @ = d.done THEN None ELSE @, !.queue = u]
      BY <3>2
    <3> HIDE DEF u
    <3>4. f.turn = (IF d.turn = d.done THEN None ELSE d.turn) /\ f.queue = u /\ f.done = d.done
      BY <2>2, <3>3 DEF DiskRec
    <3> QED BY <3>4 DEF u
  <2>4. \A p \in Prompts : Waits(e2, p) => f.turn = p
    BY <1>9
  <2> HIDE DEF d, f, e2
  <2>5. InPlace(t, f, e2, NoLaunch, Absent, None, marked, r2)
    BY <1>7, <2>1, <2>2, <2>3, <2>4, Restarted
  <2> QED BY <1>10, <2>5 DEF f, e2
<1>14. AllPlaced(d2, h.ids, l, a2, q2, marked, r2)
  BY <1>13 DEF AllPlaced
<1>15. \A p \in Prompts : r2[p] \in Steers => Dest[p] \in {}
  BY <1>7
<1>16. AllPlaced(d2, byId', launch', a2, q2, marked, r2)
  <2> DEFINE held == {}
  <2>1. \A p \in Prompts : r2[p] \in Steers => Dest[p] \in held
    BY <1>15
  <2>2. Schedules(Pump(h, held), l)
    BY <1>12
  <2> HIDE DEF held
  <2> QED BY <1>4, <1>11, <1>14, <2>1, <2>2, PumpPlaces DEF l
<1> QED BY <1>1, <1>6, <1>16 DEF Places, d2, a2, q2, r2

-----------------------------------------------------------------------------
(* The invariant is inductive.                                               *)

LEMMA OnceInit == ASSUME Init PROVE NInv
<1>0. /\ \A s \in Sessions : /\ disk[s] = [turn |-> None, queue |-> <<>>, done |-> None, failed |-> FALSE]
                             /\ agent[s] = Absent /\ loading[s] = None /\ byId[s] = None /\ launch[s] = NoLaunch
      /\ \A r \in Prompts \cup Kills : req[r] = "new"
      /\ marked = {}
  BY DEF Init
<1>1. HInv
  BY InvInit
<1>2. LockInv
  BY <1>0 DEF LockInv, HoldsLock, Steers
<1>3. ASSUME NEW s \in Sessions
      PROVE  InPlace(s, disk[s], byId[s], launch[s], agent[s], loading[s], marked, req)
  <2> DEFINE d == disk[s]
             a == agent[s]
             l == launch[s]
  <2>1. /\ d.turn = None /\ d.queue = <<>> /\ d.done = None /\ ~a.up /\ a.mem = <<>> /\ a.flight = None
        /\ l.pc = "none" /\ byId[s] = None /\ loading[s] = None
    BY <1>0, NoLaunchTyped DEF Absent
  <2>2. d \in DiskRec /\ a \in AgentRec /\ l \in LaunchRec
    BY <1>1 DEF HInv, DiskInv, LaunchesFit
  <2>3. d.queue \in Seq(Prompts) /\ a.mem \in Seq(Prompts)
    BY <2>2 DEF DiskRec, AgentRec
  <2> HIDE DEF d, a, l
  <2>4. ToSet(d.queue) = {} /\ IsInjective(d.queue) /\ ToSet(a.mem) = {} /\ IsInjective(a.mem)
    BY <2>1, <2>3, EmptyIs
  <2>5. Typed(d, byId[s], l, a, loading[s]) /\ Stored(d, l, a, loading[s])
    BY <2>1, <2>2, <2>4 DEF Typed, Stored, Begun
  <2>6. ASSUME NEW p \in Prompts
        PROVE  /\ Once(d, byId[s], l, a, loading[s], marked, p) /\ ~Placed(d, byId[s], l, a, loading[s], p)
               /\ Asks(d, byId[s], l, a, loading[s], marked, p, req[p])
    <3>1. p # None /\ p \notin marked /\ req[p] = "new"
      BY <1>0, NoneApart
    <3>2. ~Waits(byId[s], p) /\ ~Runs(l, p) /\ ~Follows(d, a, loading[s], p) /\ d.turn # p
      BY <2>1, <2>4, <3>1 DEF Waits, Runs, Follows
    <3> QED BY <3>1, <3>2 DEF Once, Placed, Asks, Early, Steers
  <2>7. InPlace(s, d, byId[s], l, a, loading[s], marked, req)
    BY <2>5, <2>6 DEF InPlace
  <2> QED BY <2>7 DEF d, a, l
<1>4. Places
  BY <1>3 DEF Places, AllPlaced
<1> QED BY <1>1, <1>2, <1>4 DEF NInv

LEMMA RequestPlaces == ASSUME NInv, NEW r \in Prompts \cup Kills, Request(r) PROVE LockInv' /\ Places'
<1>1. CASE RequestArrives(r)
  BY <1>1, RequestArrivesPlaces
<1>2. CASE r \in Kills /\ (Kill(r) \/ KillWrites(r) \/ KillResumes(r) \/ KillInterrupts(r))
  BY <1>2, KillPlaces, KillWritesPlaces, KillResumesPlaces, KillInterruptsPlaces
<1>3. CASE r \in Prompts /\ (SpawnWrites(r) \/ Enqueues(r) \/ Send(r) \/ SendResumes(r) \/ SendWrites(r))
  BY <1>3, SpawnWritesPlaces, EnqueuesPlaces, SendPlaces, SendResumesPlaces, SendWritesPlaces
<1>4. CASE r \in Prompts /\ (FollowUpRuns(r) \/ SendReturns(r) \/ Steer(r) \/ SteerWrites(r))
  BY <1>4, FollowUpRunsPlaces, SendReturnsPlaces, SteerPlaces, SteerWritesPlaces
<1>5. CASE r \in Prompts /\ (SteerFails(r) \/ SteerResumes(r) \/ SteerInterrupts(r) \/ SteerDone(r))
  BY <1>5, SteerFailsPlaces, SteerResumesPlaces, SteerInterruptsPlaces, SteerDonePlaces
<1> QED BY <1>1, <1>2, <1>3, <1>4, <1>5 DEF Request

LEMMA LaunchStepPlaces == ASSUME NInv, NEW s \in Sessions, LaunchStep(s) PROVE LockInv' /\ Places'
<1>1. CASE Launches(s) \/ Initialized(s) \/ InitFails(s) \/ Compacts(s) \/ Rechecks(s)
  BY <1>1, LaunchesPlaces, InitializedPlaces, InitFailsPlaces, CompactsPlaces, RechecksPlaces
<1>2. CASE Begins(s) \/ Submits(s) \/ Awaits(s) \/ Flushes(s) \/ Marks(s)
  BY <1>2, BeginsPlaces, SubmitsPlaces, AwaitsPlaces, FlushesPlaces, MarksPlaces
<1>3. CASE Acknowledges(s) \/ LocksToClear(s) \/ Clears(s) \/ Fails(s)
  BY <1>3, AcknowledgesPlaces, LocksToClearPlaces, ClearsPlaces, FailsPlaces
<1> QED BY <1>1, <1>2, <1>3 DEF LaunchStep

LEMMA OnceStep == ASSUME NInv, [Next]_vars PROVE NInv'
<1>0. HInv'
  BY InvStep DEF NInv
<1>1. CASE \E r \in Prompts \cup Kills : Request(r)
  BY <1>0, <1>1, RequestPlaces DEF NInv
<1>2. CASE \E s \in Sessions : LaunchStep(s) \/ OpStarts(s) \/ OpEnds(s) \/ ForeignStarts(s) \/ ForeignEnds(s)
  BY <1>0, <1>2, LaunchStepPlaces, TurnStepPlaces DEF NInv
<1>3. CASE Consumes \/ ConsumerPersists \/ Crash
  BY <1>0, <1>3, ConsumesPlaces, ConsumerPersistsPlaces, CrashPlaces DEF NInv
<1>4. ASSUME UNCHANGED vars PROVE NInv'
  <2>1. UNCHANGED <<disk, byId, launch, agent, loading, marked, req, lock, steering>>
    BY <1>4 DEF vars, runVars, reqVars
  <2> QED BY <1>0, <2>1, NothingMoves DEF NInv
<1> QED BY <1>1, <1>2, <1>3, <1>4 DEF Next, ActorStep, Done

LEMMA OnceHolds == Spec => []NInv
<1>1. Init => NInv
  BY OnceInit
<1>2. NInv /\ [Next]_vars => NInv'
  BY OnceStep
<1> QED BY <1>1, <1>2, PTL DEF Spec

-----------------------------------------------------------------------------
(* Only a launch that has not completed its turn submits one.                *)

\* A step that submits nothing: the prompt of a turn is the one it was, or none.
SubmitsNothing == \A s \in Sessions : op'[s].p \in {op[s].p, None}

LEMMA InterruptsNothing ==
  ASSUME op \in [Sessions -> OpRec], NEW s \in Sessions, Interrupts(s)
  PROVE  SubmitsNothing
<1>1. op' = op \/ op' = [op EXCEPT ![s].st = "cancelling"]
  BY Zenon DEF Interrupts
<1> QED BY <1>1 DEF SubmitsNothing, OpRec

LEMMA RequestsSubmitNothing ==
  ASSUME NInv, NEW r \in Prompts \cup Kills, Request(r) PROVE SubmitsNothing
<1>0. op \in [Sessions -> OpRec] /\ To(r) \in Sessions
  BY LockFacts, HFacts DEF NInv, HInv, TurnInv
<1>1. ASSUME op' = op PROVE SubmitsNothing
  BY <1>1 DEF SubmitsNothing
<1>2. CASE RequestArrives(r)
  BY <1>1, <1>2 DEF RequestArrives, turnVars
<1>3. CASE r \in Kills /\ (Kill(r) \/ KillWrites(r) \/ KillResumes(r))
  BY <1>1, <1>3, Zenon DEF Kill, KillWrites, KillResumes, turnVars
<1>4. CASE r \in Prompts /\ (SpawnWrites(r) \/ Enqueues(r) \/ Send(r) \/ SendResumes(r) \/ SendWrites(r))
  BY <1>1, <1>4, Zenon DEF SpawnWrites, Enqueues, Send, SendResumes, SendWrites, turnVars
<1>5. CASE r \in Prompts /\ (FollowUpRuns(r) \/ SendReturns(r) \/ Steer(r) \/ SteerWrites(r))
  BY <1>1, <1>5, Zenon DEF FollowUpRuns, SendReturns, Steer, SteerWrites, turnVars
<1>6. CASE r \in Prompts /\ (SteerFails(r) \/ SteerResumes(r) \/ SteerDone(r))
  BY <1>1, <1>6, Zenon DEF SteerFails, SteerResumes, SteerDone, turnVars
<1>7. CASE (r \in Prompts /\ SteerInterrupts(r)) \/ (r \in Kills /\ KillInterrupts(r))
  BY <1>0, <1>7, DestIs, InterruptsNothing DEF SteerInterrupts, KillInterrupts
<1> QED BY <1>2, <1>3, <1>4, <1>5, <1>6, <1>7 DEF Request

LEMMA OtherStepsSubmitNothing ==
  ASSUME NInv, NEW s \in Sessions, LaunchStep(s) \/ OpStarts(s) \/ OpEnds(s) \/ ForeignStarts(s) \/ ForeignEnds(s),
         ~Submits(s)
  PROVE  SubmitsNothing
<1>0. op \in [Sessions -> OpRec]
  BY DEF NInv, HInv, TurnInv
<1>1. ASSUME op' = op PROVE SubmitsNothing
  BY <1>1 DEF SubmitsNothing
<1>2. ASSUME op' = [op EXCEPT ![s] = NoOp] PROVE SubmitsNothing
  BY <1>0, <1>2 DEF SubmitsNothing, NoOp
<1>3. ASSUME NEW st, op' = [op EXCEPT ![s].st = st] PROVE SubmitsNothing
  BY <1>0, <1>3 DEF SubmitsNothing, OpRec
<1>4. CASE Launches(s) \/ Initialized(s) \/ InitFails(s)
  BY <1>1, <1>4, Zenon DEF Launches, Initialized, InitFails, turnVars
<1>5. CASE Compacts(s)
  <2>1. op' = op \/ op' = [op EXCEPT ![s] = [st |-> "active", p |-> None]]
    BY <1>5 DEF Compacts
  <2> QED BY <1>0, <2>1 DEF SubmitsNothing
<1>6. CASE Rechecks(s) \/ Awaits(s)
  BY <1>2, <1>6, Zenon DEF Rechecks, Awaits
<1>7. CASE Begins(s) \/ Flushes(s) \/ Marks(s) \/ Acknowledges(s) \/ LocksToClear(s) \/ Clears(s) \/ Fails(s)
  BY <1>1, <1>7, Zenon DEF Begins, Flushes, Marks, Acknowledges, LocksToClear, Clears, Fails, turnVars
<1>8. CASE OpStarts(s) \/ OpEnds(s)
  BY <1>3, <1>8, Zenon DEF OpStarts, OpEnds
<1>9. CASE ForeignStarts(s) \/ ForeignEnds(s)
  BY <1>1, <1>9, Zenon DEF ForeignStarts, ForeignEnds
<1> QED BY <1>4, <1>5, <1>6, <1>7, <1>8, <1>9 DEF LaunchStep

LEMMA ServerSubmitsNothing ==
  ASSUME NInv, Consumes \/ ConsumerPersists \/ Crash \/ UNCHANGED vars PROVE SubmitsNothing
<1>1. CASE Consumes \/ ConsumerPersists \/ UNCHANGED vars
  <2>1. op' = op
    BY <1>1, Zenon DEF Consumes, ConsumerPersists, vars, turnVars
  <2> QED BY <2>1 DEF SubmitsNothing
<1>2. CASE Crash
  <2>1. op' = [s \in Sessions |-> NoOp]
    BY <1>2 DEF Crash
  <2> QED BY <2>1 DEF SubmitsNothing, NoOp
<1> QED BY <1>1, <1>2

\* The prompt of a launch about to submit is not completed.
LEMMA SubmitsFresh ==
  ASSUME NInv, NEW s \in Sessions, Submits(s)
  PROVE  /\ launch[s].p \notin marked
         /\ op'[s].p = launch[s].p /\ \A t \in Sessions \ {s} : op'[t] = op[t]
<1>0. op \in [Sessions -> OpRec] /\ Places /\ Fits(launch[s], agent[s], loading[s])
  BY DEF NInv, HInv, TurnInv, LaunchesFit
<1>1. launch[s].pc = "unfail" /\ op' = [op EXCEPT ![s] = [st |-> "accepted", p |-> launch[s].p]]
  BY DEF Submits, At
<1>2. launch[s].p \in Prompts
  BY <1>0, <1>1 DEF Fits
<1> DEFINE l == launch[s]
           p == launch[s].p
<1>3. InPlace(s, disk[s], byId[s], l, agent[s], loading[s], marked, req)
  BY <1>0, PlaceOf
<1>4. Once(disk[s], byId[s], l, agent[s], loading[s], marked, p) /\ Stored(disk[s], l, agent[s], loading[s])
  BY <1>2, <1>3 DEF InPlace
<1>5. CASE l.kind = "follow_up"
  <2>1. agent[s].flight = p
    BY <1>1, <1>4, <1>5 DEF Stored, Begun
  <2> QED BY <1>0, <1>1, <1>4, <2>1 DEF Once
<1>6. CASE l.kind # "follow_up"
  <2>1. Runs(l, p)
    BY <1>1, <1>6 DEF Runs
  <2> QED BY <1>0, <1>1, <1>4, <2>1 DEF Once
<1> QED BY <1>5, <1>6

LEMMA SubmitsNew ==
  ASSUME NInv, [Next]_vars
  PROVE  \A p \in marked, s \in Sessions : op'[s].p = p => op[s].p = p
<1>0. marked \subseteq Prompts /\ None \notin marked
  BY NoneApart DEF NInv, HInv, SetInv
<1>1. CASE SubmitsNothing
  BY <1>0, <1>1 DEF SubmitsNothing
<1>2. CASE \E s \in Sessions : Submits(s)
  BY <1>0, <1>2, SubmitsFresh
<1>3. SubmitsNothing \/ \E s \in Sessions : Submits(s)
  <2>1. CASE \E r \in Prompts \cup Kills : Request(r)
    BY <2>1, RequestsSubmitNothing
  <2>2. CASE \E s \in Sessions : LaunchStep(s) \/ OpStarts(s) \/ OpEnds(s) \/ ForeignStarts(s) \/ ForeignEnds(s)
    BY <2>2, OtherStepsSubmitNothing
  <2>3. CASE Consumes \/ ConsumerPersists \/ Crash \/ UNCHANGED vars
    BY <2>3, ServerSubmitsNothing
  <2> QED BY <2>1, <2>2, <2>3 DEF Next, ActorStep, Done
<1> QED BY <1>1, <1>2, <1>3

-----------------------------------------------------------------------------
\* A prompt is in one place: a turn that waits, a turn that runs, or a follow-up;
\* so a turn whose completion is on disk is submitted by no launch, whatever
\* requests, kills and crashes come between.
THEOREM HeadlessOnce == Spec => NeverAgain
<1>1. NInv /\ [Next]_vars => [\A p \in marked, s \in Sessions : op'[s].p = p => op[s].p = p]_vars
  BY SubmitsNew
<1> QED BY <1>1, OnceHolds, PTL DEF Spec, NeverAgain

\* The queue on disk is what the agent has in memory behind the head in flight;
\* only a kill that comes while the agent is being loaded leaves it empty instead.
QueueKept ==
  \A s \in Sessions : agent[s].up => \/ disk[s].queue = InMemory(agent[s])
                                     \/ disk[s].queue = <<>> /\ Kills # {}

\* What append, begin, abort, acknowledge and clear of the follow-up queue leave on
\* disk is what a restart needs: the two copies differ only after a kill.
THEOREM HeadlessQueue == Spec => []QueueKept
<1>1. ASSUME NInv PROVE QueueKept
  <2>1. SUFFICES ASSUME NEW s \in Sessions, agent[s].up
                 PROVE  disk[s].queue = InMemory(agent[s]) \/ (disk[s].queue = <<>> /\ Kills # {})
    BY DEF QueueKept
  <2>2. agent[s] \in AgentRec /\ agent[s].mem \in Seq(Prompts)
    BY <1>1, HFacts, AgentFields DEF NInv
  <2>3. disk[s].queue = Durable(agent[s]) \/ (disk[s].queue = <<>> /\ Kills # {})
    <3>1. InPlace(s, disk[s], byId[s], launch[s], agent[s], loading[s], marked, req)
      BY <1>1, <2>1, PlaceOf DEF NInv
    <3> QED BY <2>1, <3>1 DEF InPlace, Stored
  <2>4. Durable(agent[s]) = InMemory(agent[s])
    <3> DEFINE m == agent[s].mem
               w == <<>> \o m
    <3>1. w = m
      <4>1. w \in Seq(Prompts) /\ Len(w) = Len(m) /\ \A i \in 1 .. Len(m) : w[i] = m[i]
        BY <2>2
      <4> QED BY <2>2, <4>1
    <3> HIDE DEF m, w
    <3>2. InMemory(agent[s]) = IF agent[s].flight = None THEN w ELSE <<agent[s].flight>> \o m
      BY DEF InMemory, m, w
    <3>3. Durable(agent[s]) = IF agent[s].flight = None THEN m ELSE <<agent[s].flight>> \o m
      BY DEF Durable, m
    <3> QED BY <3>1, <3>2, <3>3
  <2> QED BY <2>3, <2>4
<1> QED BY <1>1, OnceHolds, PTL

\* Where no kill is asked for, the two copies of the queue are the same.
COROLLARY HeadlessQueueWhole == ASSUME Kills = {} PROVE Spec => []QueueIsDurable
<1>1. QueueKept => QueueIsDurable
  BY DEF QueueKept, QueueIsDurable
<1> QED BY <1>1, HeadlessQueue, PTL
==============================================================================
