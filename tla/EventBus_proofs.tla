--------------------------- MODULE EventBus_proofs ---------------------------
(***************************************************************************)
(* The event bus implements EventLog, for any number of subscribers and    *)
(* sessions, any queue size and any log; the place it reserves for the     *)
(* sentinel always suffices; and the awaiter of runtime_facade.py answers  *)
(* every wait with the end of its own operation.                           *)
(*                                                                         *)
(* The invariant of the bus: what a subscriber has read followed by what   *)
(* its queue holds is a gapless run of the positions of its scope, ended   *)
(* at most by a sentinel, and a subscriber the map still holds has nothing *)
(* of its scope left behind the run.                                       *)
(***************************************************************************)
EXTENDS OperationAwaiter, SequenceTheorems, TLAPS

USE DEF busVars

(* Position j of the log lg is in the scope k. *)
In(k, lg, j) == k \in {AnyScope, lg[j].session}

(* No position of the scope lies strictly between a and b. *)
NoneBetween(k, lg, a, b) == \A j \in Nat : a < j /\ j < b => ~In(k, lg, j)

(* The position before the n-th entry of a queue read on from position a. *)
Before(q, a, n) == IF n = 1 THEN a ELSE q[n - 1]

(* The events of q are the positions of the scope k next after a, in order
   and without a gap, and only the last entry may be the sentinel. *)
GaplessRun(k, lg, a, q) ==
  \A n \in 1 .. Len(q) :
    \/ q[n] = Sentinel /\ n = Len(q)
    \/ /\ q[n] \in 1 .. Len(lg) /\ Before(q, a, n) < q[n] /\ In(k, lg, q[n])
       /\ NoneBetween(k, lg, Before(q, a, n), q[n])

(* The last entry of q read on from a. *)
LastOf(q, a) == IF Len(q) = 0 THEN a ELSE q[Len(q)]

(* Nothing of the scope is left behind q. *)
CaughtUp(k, lg, a, q) == NoneBetween(k, lg, LastOf(q, a), Len(lg) + 1)

(* The last position a subscriber has read: EventLog's At. *)
LastRead(s) == IF read[s] = <<>> THEN start[s] ELSE read[s][Len(read[s])]

(* What the queue of one subscriber holds. *)
QueueOK(s) ==
  /\ opened[s] = "no" => s \notin members /\ queue[s] = <<>> /\ read[s] = <<>> /\ ~over[s]
  /\ s \in members =>
       /\ opened[s] # "no" /\ ~over[s]
       /\ Len(queue[s]) <= MaxSize
       /\ \A n \in 1 .. Len(queue[s]) : queue[s][n] # Sentinel
       /\ CaughtUp(opened[s], log, LastRead(s), queue[s])
  /\ opened[s] # "no" /\ ~over[s] /\ s \notin members =>
       queue[s] # <<>> /\ queue[s][Len(queue[s])] = Sentinel
  /\ Len(queue[s]) <= MaxSize + 1
  /\ LastRead(s) \in 0 .. Len(log)
  /\ GaplessRun(opened[s], log, LastRead(s), queue[s])

(* Numbering is per session: no session has more numbers than the log has
   entries. *)
Numbered == Len(log) <= MaxLog /\ \A x \in Sessions : next[x] <= Len(log)

BusInv == TypeOK /\ Numbered /\ ~refused /\ \A s \in Subscribers : QueueOK(s)

-----------------------------------------------------------------------------
(* Lemmas about runs of positions.                                         *)

Positions == Nat \cup {Sentinel}

\* A longer log changes nothing for the positions a queue holds already.
LEMMA RunGrows ==
  ASSUME NEW k, NEW T, NEW lg \in Seq(T), NEW e \in T, NEW a \in 0 .. Len(lg),
         NEW q \in Seq(Positions), GaplessRun(k, lg, a, q)
  PROVE  GaplessRun(k, Append(lg, e), a, q)
<1> DEFINE lh == Append(lg, e)
<1>1. /\ Len(lh) = Len(lg) + 1 /\ \A j \in 1 .. Len(lg) : lh[j] = lg[j]
  OBVIOUS
<1>2. SUFFICES ASSUME NEW n \in 1 .. Len(q), ~(q[n] = Sentinel /\ n = Len(q))
               PROVE  /\ q[n] \in 1 .. Len(lh) /\ Before(q, a, n) < q[n] /\ In(k, lh, q[n])
                      /\ NoneBetween(k, lh, Before(q, a, n), q[n])
  BY DEF GaplessRun
<1>3. /\ q[n] \in 1 .. Len(lg) /\ Before(q, a, n) < q[n] /\ In(k, lg, q[n])
      /\ NoneBetween(k, lg, Before(q, a, n), q[n])
  BY <1>2 DEF GaplessRun
<1>4. Before(q, a, n) \in Nat
  <2>1. CASE n = 1
    BY <2>1 DEF Before
  <2>2. CASE n # 1
    <3>1. n - 1 \in 1 .. Len(q) /\ n - 1 # Len(q)
      BY <2>2
    <3> QED BY <3>1, <2>2 DEF GaplessRun, Before
  <2> QED BY <2>1, <2>2
<1>5. \A j \in Nat : Before(q, a, n) < j /\ j < q[n] => lh[j] = lg[j]
  BY <1>1, <1>3, <1>4
<1> HIDE DEF lh
<1>6. In(k, lh, q[n])
  BY <1>1, <1>3 DEF In
<1>7. NoneBetween(k, lh, Before(q, a, n), q[n])
  BY <1>3, <1>5 DEF In, NoneBetween
<1> QED BY <1>1, <1>3, <1>6, <1>7

\* A run that has caught up takes the next publication, when it is in scope.
LEMMA RunTakes ==
  ASSUME NEW k, NEW T, NEW lg \in Seq(T), NEW e \in T, NEW a \in 0 .. Len(lg),
         NEW q \in Seq(Positions), GaplessRun(k, lg, a, q), CaughtUp(k, lg, a, q),
         \A n \in 1 .. Len(q) : q[n] # Sentinel, BusAssumption,
         k \in {AnyScope, e.session}
  PROVE  LET p == Append(q, Len(lg) + 1) IN
         /\ GaplessRun(k, Append(lg, e), a, p)
         /\ CaughtUp(k, Append(lg, e), a, p)
<1> DEFINE lh == Append(lg, e)
           p == Append(q, Len(lg) + 1)
<1>1. /\ Len(lh) = Len(lg) + 1 /\ \A j \in 1 .. Len(lg) : lh[j] = lg[j]
      /\ lh[Len(lg) + 1] = e
  OBVIOUS
<1>2. /\ p \in Seq(Positions) /\ p # <<>> /\ Len(p) = Len(q) + 1 /\ p[Len(p)] = Len(lg) + 1
      /\ \A n \in 1 .. Len(q) : p[n] = q[n]
  BY DEF Positions
<1>3. GaplessRun(k, lh, a, q)
  BY RunGrows
<1>4. LastOf(q, a) \in 0 .. Len(lg)
  BY DEF GaplessRun, LastOf
<1>5. \A j \in Nat : LastOf(q, a) < j /\ j < Len(lg) + 1 => lh[j] = lg[j]
  BY <1>1, <1>4
<1>6. NoneBetween(k, lh, LastOf(q, a), Len(lg) + 1)
  BY <1>5 DEF CaughtUp, NoneBetween, In
<1>7. Before(p, a, Len(p)) = LastOf(q, a)
  <2>1. CASE q = <<>>
    BY <2>1, <1>2 DEF Before, LastOf
  <2>2. CASE q # <<>>
    <3>1. Len(p) # 1 /\ Len(p) - 1 = Len(q) /\ Len(q) \in 1 .. Len(q)
      BY <1>2, <2>2
    <3> QED BY <3>1, <2>2, <1>2 DEF Before, LastOf
  <2> QED BY <2>1, <2>2
<1>8. ASSUME NEW n \in 1 .. Len(p)
      PROVE  /\ p[n] \in 1 .. Len(lh) /\ Before(p, a, n) < p[n] /\ In(k, lh, p[n])
             /\ NoneBetween(k, lh, Before(p, a, n), p[n])
  <2>1. CASE n = Len(p)
    BY <2>1, <1>1, <1>2, <1>4, <1>6, <1>7 DEF In
  <2>2. CASE n # Len(p)
    <3>1. n \in 1 .. Len(q)
      BY <2>2, <1>2
    <3>2. p[n] = q[n] /\ Before(p, a, n) = Before(q, a, n)
      BY <3>1, <1>2 DEF Before
    <3> QED BY <3>1, <3>2, <1>3 DEF GaplessRun
  <2> QED BY <2>1, <2>2
<1>9. CaughtUp(k, lh, a, p)
  BY <1>1, <1>2 DEF CaughtUp, LastOf, NoneBetween
<1> QED BY <1>8, <1>9 DEF GaplessRun

\* A publication outside the scope leaves a run caught up.
LEMMA RunIgnores ==
  ASSUME NEW k, NEW T, NEW lg \in Seq(T), NEW e \in T, NEW a \in 0 .. Len(lg),
         NEW q \in Seq(Positions), GaplessRun(k, lg, a, q), CaughtUp(k, lg, a, q),
         \A n \in 1 .. Len(q) : q[n] # Sentinel,
         k \notin {AnyScope, e.session}
  PROVE  CaughtUp(k, Append(lg, e), a, q)
<1> DEFINE lh == Append(lg, e)
<1>1. /\ Len(lh) = Len(lg) + 1 /\ \A j \in 1 .. Len(lg) : lh[j] = lg[j]
      /\ lh[Len(lg) + 1] = e
  OBVIOUS
<1>2. LastOf(q, a) \in 0 .. Len(lg)
  BY DEF GaplessRun, LastOf
<1>3. ASSUME NEW j \in Nat, LastOf(q, a) < j, j < Len(lh) + 1
      PROVE  ~In(k, lh, j)
  <2>1. CASE j = Len(lg) + 1
    BY <2>1, <1>1 DEF In
  <2>2. CASE j # Len(lg) + 1
    BY <2>2, <1>1, <1>2, <1>3 DEF CaughtUp, NoneBetween, In
  <2> QED BY <2>1, <2>2
<1> QED BY <1>3 DEF CaughtUp, NoneBetween

\* The sentinel ends a run without disturbing it.
LEMMA RunEnds ==
  ASSUME NEW k, NEW T, NEW lg \in Seq(T), NEW a \in 0 .. Len(lg),
         NEW q \in Seq(Positions), GaplessRun(k, lg, a, q),
         \A n \in 1 .. Len(q) : q[n] # Sentinel
  PROVE  /\ GaplessRun(k, lg, a, Ended(q)) /\ Len(Ended(q)) = Len(q) + 1
         /\ Ended(q) # <<>> /\ Ended(q)[Len(Ended(q))] = Sentinel
<1>1. /\ Len(Ended(q)) = Len(q) + 1 /\ Ended(q)[Len(q) + 1] = Sentinel
      /\ \A n \in 1 .. Len(q) : Ended(q)[n] = q[n]
      /\ Ended(q) # <<>>
  <2>1. Ended(q) = Append(q, Sentinel) /\ Sentinel \in Positions
    BY DEF Ended, Positions
  <2> QED BY <2>1, AppendProperties
<1>2. ASSUME NEW n \in 1 .. Len(q)
      PROVE  Before(Ended(q), a, n) = Before(q, a, n)
  BY <1>1, <1>2 DEF Before
<1>3. ASSUME NEW n \in 1 .. Len(q)
      PROVE  /\ Ended(q)[n] \in 1 .. Len(lg) /\ Before(Ended(q), a, n) < Ended(q)[n]
             /\ In(k, lg, Ended(q)[n])
             /\ NoneBetween(k, lg, Before(Ended(q), a, n), Ended(q)[n])
  BY <1>1, <1>2, <1>3 DEF GaplessRun
<1>4. \A n \in 1 .. Len(Ended(q)) : n \in 1 .. Len(q) \/ n = Len(Ended(q))
  BY <1>1
<1>5. GaplessRun(k, lg, a, Ended(q))
  BY <1>1, <1>3, <1>4 DEF GaplessRun
<1> QED BY <1>1, <1>5

\* The head of a run is the next position of the scope, and the rest of the
\* queue is a run from there.
LEMMA RunReads ==
  ASSUME NEW k, NEW T, NEW lg \in Seq(T), NEW a \in 0 .. Len(lg),
         NEW q \in Seq(Positions), GaplessRun(k, lg, a, q),
         q # <<>>, Head(q) # Sentinel
  PROVE  /\ Head(q) \in 1 .. Len(lg) /\ a < Head(q) /\ In(k, lg, Head(q))
         /\ NoneBetween(k, lg, a, Head(q))
         /\ GaplessRun(k, lg, Head(q), Tail(q))
         /\ LastOf(Tail(q), Head(q)) = LastOf(q, a)
<1> DEFINE h == Head(q)
           t == Tail(q)
<1>1. Len(q) \in Nat /\ 1 \in 1 .. Len(q) /\ q[1] = h
  OBVIOUS
<1>2. Len(t) = Len(q) - 1 /\ \A n \in 1 .. Len(q) - 1 : t[n] = q[n + 1]
  OBVIOUS
<1> HIDE DEF h, t
<1>3. h # Sentinel
  BY DEF h
<1>4. /\ h \in 1 .. Len(lg) /\ a < h /\ In(k, lg, h) /\ NoneBetween(k, lg, a, h)
  BY <1>1, <1>3 DEF GaplessRun, Before
<1>5. ASSUME NEW n \in 1 .. Len(t)
      PROVE  Before(t, h, n) = Before(q, a, n + 1)
  BY <1>1, <1>2 DEF Before
<1>6. GaplessRun(k, lg, h, t)
  <2> SUFFICES ASSUME NEW n \in 1 .. Len(t), ~(t[n] = Sentinel /\ n = Len(t))
               PROVE  /\ t[n] \in 1 .. Len(lg) /\ Before(t, h, n) < t[n] /\ In(k, lg, t[n])
                      /\ NoneBetween(k, lg, Before(t, h, n), t[n])
    BY DEF GaplessRun
  <2>1. n + 1 \in 1 .. Len(q) /\ t[n] = q[n + 1] /\ (n + 1 = Len(q) <=> n = Len(t))
    BY <1>1, <1>2
  <2> QED BY <2>1, <1>5 DEF GaplessRun
<1>7. LastOf(t, h) = LastOf(q, a)
  <2>1. CASE Len(q) = 1
    BY <2>1, <1>1, <1>2 DEF LastOf
  <2>2. CASE Len(q) # 1
    <3>1. PICK m \in Nat : Len(q) = m + 1
      BY <1>1
    <3>2. m \in 1 .. Len(q) - 1 /\ Len(t) = m
      BY <3>1, <1>2, <2>2
    <3>3. t[Len(t)] = q[Len(q)] /\ Len(t) # 0 /\ Len(q) # 0
      BY <3>1, <3>2, <1>2
    <3> QED BY <3>3 DEF LastOf
  <2> QED BY <2>1, <2>2
<1> QED BY <1>4, <1>6, <1>7 DEF h, t

-----------------------------------------------------------------------------
(* Steps of the bus.                                                       *)

Entry == [session : Sessions, seq : 1 .. MaxLog]

(* Every step of the bus, by its action. *)
BusCases ==
  \/ UNCHANGED busVars
  \/ \E x \in Sessions : Publish(x)
  \/ \E s \in Subscribers : \E k \in Sessions \cup {AnyScope} : Subscribe(s, k)
  \/ \E s \in Subscribers : Unsubscribe(s) \/ Consume(s) \/ Abandon(s)

LEMMA BusByCase ==
  ASSUME [BusNext]_busVars
  PROVE  BusCases
BY DEF BusNext, BusCases

LEMMA TypeStep ==
  ASSUME TypeOK, Numbered, BusCases
  PROVE  TypeOK' /\ Numbered'
<1> USE BusAssumption DEF TypeOK, Numbered
<1>1. CASE UNCHANGED busVars
  BY <1>1
<1>2. ASSUME NEW x \in Sessions, Publish(x)
      PROVE  TypeOK' /\ Numbered'
  <2>1. Len(log) < MaxLog /\ Len(log) \in Nat
    BY <1>2 DEF Publish
  <2>2. next' \in [Sessions -> 0 .. MaxLog] /\ next[x] + 1 \in 1 .. MaxLog
    BY <1>2, <2>1 DEF Publish
  <2>3. log' \in Seq(Entry) /\ Len(log') = Len(log) + 1
    BY <1>2, <2>2 DEF Publish, Number, Entry
  <2>4. ASSUME NEW s \in Subscribers
        PROVE  /\ Append(queue[s], Sentinel) \in Seq(1 .. MaxLog \cup {Sentinel})
               /\ Append(queue[s], Len(log) + 1) \in Seq(1 .. MaxLog \cup {Sentinel})
    BY <2>1
  <2>5. queue' \in [Subscribers -> Seq(1 .. MaxLog \cup {Sentinel})]
    BY <1>2, <2>4, SMTT(30) DEF Publish, Ended
  <2>6. members' \subseteq Subscribers /\ refused' \in BOOLEAN
    BY <1>2 DEF Publish
  <2>7. \A y \in Sessions : next'[y] <= Len(log')
    BY <1>2, <2>1, <2>3 DEF Publish
  <2>8. UNCHANGED <<opened, start, read, over>>
    BY <1>2 DEF Publish
  <2>9. TypeOK'
    BY <2>1, <2>2, <2>3, <2>5, <2>6, <2>8 DEF Entry
  <2>10. Numbered'
    BY <2>1, <2>3, <2>7
  <2> HIDE DEF TypeOK, Numbered
  <2> QED BY <2>9, <2>10
<1>3. ASSUME NEW s \in Subscribers, NEW k \in Sessions \cup {AnyScope}, Subscribe(s, k)
      PROVE  TypeOK' /\ Numbered'
  BY <1>3 DEF Subscribe
<1>4. ASSUME NEW s \in Subscribers, Unsubscribe(s)
      PROVE  TypeOK' /\ Numbered'
  <2>1. Append(queue[s], Sentinel) \in Seq(1 .. MaxLog \cup {Sentinel})
    OBVIOUS
  <2> QED BY <1>4, <2>1 DEF Unsubscribe, Ended
<1>5. ASSUME NEW s \in Subscribers, Consume(s)
      PROVE  TypeOK' /\ Numbered'
  <2>1. /\ Tail(queue[s]) \in Seq(1 .. MaxLog \cup {Sentinel})
        /\ Head(queue[s]) \in 1 .. MaxLog \cup {Sentinel}
    BY <1>5 DEF Consume
  <2>2. Head(queue[s]) # Sentinel =>
          Append(read[s], Head(queue[s])) \in Seq(1 .. MaxLog)
    BY <2>1
  <2>3. over' \in [Subscribers -> BOOLEAN] /\ members' \subseteq Subscribers
    BY <1>5 DEF Consume
  <2>4. queue' \in [Subscribers -> Seq(1 .. MaxLog \cup {Sentinel})]
    BY <1>5, <2>1 DEF Consume
  <2>5. read' \in [Subscribers -> Seq(1 .. MaxLog)]
    BY <1>5, <2>2 DEF Consume
  <2> QED BY <1>5, <2>3, <2>4, <2>5 DEF Consume
<1>6. ASSUME NEW s \in Subscribers, Abandon(s)
      PROVE  TypeOK' /\ Numbered'
  BY <1>6 DEF Abandon
<1> QED BY <1>1, <1>2, <1>3, <1>4, <1>5, <1>6 DEF BusCases

(* The queue of a subscriber is a sequence of positions and at most a sentinel. *)
LEMMA QueueTyped ==
  ASSUME TypeOK, NEW s \in Subscribers
  PROVE  /\ queue[s] \in Seq(Positions) /\ log \in Seq(Entry)
         /\ read[s] \in Seq(1 .. MaxLog)
<1>1. queue[s] \in Seq(1 .. MaxLog \cup {Sentinel})
  BY DEF TypeOK
<1>2. 1 .. MaxLog \cup {Sentinel} \subseteq Positions
  BY BusAssumption DEF Positions
<1> QED BY <1>1, <1>2, SeqMonotonic DEF TypeOK, Entry

LEMMA PublishStep ==
  ASSUME BusInv, NEW x \in Sessions, Publish(x), NEW s \in Subscribers
  PROVE  QueueOK(s)'
<1> DEFINE e == [session |-> x, seq |-> Number(x)]
           q == queue[s]
           k == opened[s]
           a == LastRead(s)
<1>1. /\ QueueOK(s) /\ TypeOK /\ q \in Seq(Positions) /\ log \in Seq(Entry)
  BY QueueTyped DEF BusInv
<1>2. e \in Entry
  <2>1. Number(x) \in 1 .. MaxLog
    BY BusAssumption DEF BusInv, TypeOK, Numbered, Publish, Number
  <2> QED BY <2>1 DEF Entry
<1>3. log' = Append(log, e) /\ Len(log') = Len(log) + 1 /\ Len(log) \in Nat
  BY <1>1, <1>2 DEF Publish
<1>4. UNCHANGED <<opened, over, read>> /\ LastRead(s)' = a
  BY DEF Publish, LastRead
<1>5. a \in 0 .. Len(log) /\ a \in 0 .. Len(log') /\ GaplessRun(k, log, a, q)
  BY <1>1, <1>3 DEF QueueOK
<1>6. GaplessRun(k, log', a, q)
  BY <1>1, <1>2, <1>3, <1>5, RunGrows
<1>7. InScope(s, x) <=> k \in {AnyScope, e.session}
  BY DEF InScope
<1>8. CASE s \notin members
  <2>1. queue'[s] = q /\ s \notin members'
    BY <1>8 DEF Publish, Overflowed
  <2> QED BY <1>1, <1>4, <1>5, <1>6, <1>8, <2>1 DEF QueueOK
<1>9. CASE s \in members
  <2>1. /\ k # "no" /\ ~over[s] /\ Len(q) <= MaxSize
        /\ \A n \in 1 .. Len(q) : q[n] # Sentinel
        /\ CaughtUp(k, log, a, q)
    BY <1>1, <1>9 DEF QueueOK
  <2>2. CASE s \in Overflowed(x)
    <3>1. queue'[s] = Ended(q) /\ s \notin members'
      BY <2>2 DEF Publish
    <3>2. /\ GaplessRun(k, log', a, Ended(q)) /\ Len(Ended(q)) = Len(q) + 1
          /\ Ended(q) # <<>> /\ Ended(q)[Len(Ended(q))] = Sentinel
      <4>1. log' \in Seq(Entry)
        BY <1>1, <1>2, <1>3
      <4> HIDE DEF q, k, a, e
      <4> QED BY <1>1, <1>5, <1>6, <2>1, <4>1, RunEnds
    <3>3. Len(Ended(q)) <= MaxSize + 1
      BY <1>1, <2>1, <3>2, BusAssumption
    <3> QED BY <1>4, <1>5, <2>1, <3>1, <3>2, <3>3 DEF QueueOK
  <2>3. CASE s \notin Overflowed(x) /\ InScope(s, x)
    <3> DEFINE p == Append(q, Len(log) + 1)
    <3>1. queue'[s] = p /\ s \in members' /\ Len(q) < MaxSize
      <4>1. ~(Len(q) >= MaxSize)
        BY <1>9, <2>3 DEF Overflowed
      <4> QED BY <1>1, <1>9, <2>3, <4>1, BusAssumption DEF Publish
    <3>2. GaplessRun(k, log', a, p) /\ CaughtUp(k, log', a, p)
      BY <1>1, <1>2, <1>3, <1>5, <1>7, <2>1, <2>3, RunTakes, BusAssumption
    <3>3. Len(p) = Len(q) + 1 /\ \A n \in 1 .. Len(p) : p[n] # Sentinel
      BY <1>1, <1>3, <2>1, BusAssumption DEF Positions
    <3>4. Len(p) <= MaxSize
      BY <1>1, <3>1, <3>3, BusAssumption
    <3> HIDE DEF p
    <3> QED BY <1>4, <1>5, <2>1, <3>1, <3>2, <3>3, <3>4, BusAssumption DEF QueueOK
  <2>4. CASE s \notin Overflowed(x) /\ ~InScope(s, x)
    <3>1. queue'[s] = q /\ s \in members'
      BY <1>9, <2>4 DEF Publish
    <3>2. CaughtUp(k, log', a, q)
      BY <1>1, <1>2, <1>3, <1>5, <1>7, <2>1, <2>4, RunIgnores
    <3> QED BY <1>1, <1>4, <1>5, <1>6, <1>9, <2>1, <3>1, <3>2 DEF QueueOK
  <2> QED BY <2>2, <2>3, <2>4
<1> QED BY <1>8, <1>9

LEMMA SubscribeStep ==
  ASSUME BusInv, NEW r \in Subscribers, NEW k \in Sessions \cup {AnyScope},
         Subscribe(r, k), NEW s \in Subscribers
  PROVE  QueueOK(s)'
<1>1. QueueOK(s) /\ Len(log) \in Nat
  BY DEF BusInv, TypeOK
<1>2. CASE s = r
  <2>1. queue[s] = <<>> /\ ~over[s] /\ read[s] = <<>>
    BY <1>1, <1>2 DEF QueueOK, Subscribe
  <2>2. LastRead(s)' = Len(log)
    BY <1>2, <2>1 DEF Subscribe, LastRead, BusInv, TypeOK
  <2>3. /\ queue'[s] = <<>> /\ ~over'[s] /\ s \in members' /\ log' = log
        /\ opened'[s] = k /\ k # "no"
    BY <1>2, <2>1, BusAssumption DEF Subscribe, BusInv, TypeOK
  <2>4. CaughtUp(k, log, Len(log), <<>>) /\ GaplessRun(k, log, Len(log), <<>>)
    BY <1>1 DEF CaughtUp, LastOf, NoneBetween, GaplessRun
  <2> QED BY <1>1, <2>2, <2>3, <2>4, BusAssumption DEF QueueOK
<1>3. CASE s # r
  BY <1>1, <1>3 DEF Subscribe, BusInv, TypeOK, QueueOK, LastRead
<1> QED BY <1>2, <1>3

LEMMA UnsubscribeStep ==
  ASSUME BusInv, NEW r \in Subscribers, Unsubscribe(r), NEW s \in Subscribers
  PROVE  QueueOK(s)'
<1> DEFINE q == queue[s]
           k == opened[s]
           a == LastRead(s)
<1>1. QueueOK(s) /\ TypeOK /\ q \in Seq(Positions) /\ log \in Seq(Entry)
  BY QueueTyped DEF BusInv
<1>2. UNCHANGED <<opened, over, log, read>> /\ LastRead(s)' = a
  BY DEF Unsubscribe, LastRead
<1>3. CASE s = r
  <2>1. /\ k # "no" /\ ~over[s] /\ Len(q) <= MaxSize
        /\ \A n \in 1 .. Len(q) : q[n] # Sentinel
        /\ a \in 0 .. Len(log) /\ GaplessRun(k, log, a, q)
    BY <1>1, <1>3 DEF QueueOK, Unsubscribe
  <2>2. queue'[s] = Ended(q) /\ s \notin members'
    BY <1>1, <1>3 DEF Unsubscribe, TypeOK
  <2>3. /\ GaplessRun(k, log, a, Ended(q)) /\ Len(Ended(q)) = Len(q) + 1
        /\ Ended(q) # <<>> /\ Ended(q)[Len(Ended(q))] = Sentinel
    <3> HIDE DEF q, k, a
    <3> QED BY <1>1, <2>1, RunEnds
  <2>4. Len(Ended(q)) <= MaxSize + 1
    BY <1>1, <2>1, <2>3, BusAssumption
  <2> QED BY <1>2, <2>1, <2>2, <2>3, <2>4 DEF QueueOK
<1>4. CASE s # r
  BY <1>1, <1>2, <1>4 DEF Unsubscribe, QueueOK, TypeOK
<1> QED BY <1>3, <1>4

LEMMA ConsumeStep ==
  ASSUME BusInv, NEW r \in Subscribers, Consume(r), NEW s \in Subscribers
  PROVE  QueueOK(s)'
<1> DEFINE q == queue[s]
           k == opened[s]
           a == LastRead(s)
<1>1. /\ QueueOK(s) /\ TypeOK /\ q \in Seq(Positions) /\ log \in Seq(Entry)
      /\ read[s] \in Seq(1 .. MaxLog)
  BY QueueTyped DEF BusInv
<1>2. UNCHANGED <<opened, start, log>>
  BY DEF Consume
<1>3. a \in 0 .. Len(log) /\ GaplessRun(k, log, a, q) /\ Len(q) <= MaxSize + 1
  BY <1>1 DEF QueueOK
<1>4. CASE s = r /\ Head(q) = Sentinel
  <2>1. q # <<>> /\ k # "no"
    BY <1>4 DEF Consume
  <2>2. /\ queue'[s] = Tail(q) /\ s \notin members' /\ over'[s] /\ LastRead(s)' = a
    BY <1>1, <1>4 DEF Consume, TypeOK, LastRead
  <2>3. Len(q) = 1
    <3>1. 1 \in 1 .. Len(q) /\ q[1] = Sentinel
      BY <1>1, <1>4, <2>1
    <3>2. q[1] \notin 1 .. Len(log)
      BY <3>1, <1>1, BusAssumption
    <3> QED BY <3>1, <3>2, <1>3 DEF GaplessRun
  <2>4. Len(Tail(q)) = 0
    BY <1>1, <2>1, <2>3
  <2>5. GaplessRun(k, log, a, Tail(q))
    BY <2>4 DEF GaplessRun
  <2> QED BY <1>2, <1>3, <2>1, <2>2, <2>4, <2>5, BusAssumption DEF QueueOK
<1>5. CASE s = r /\ Head(q) # Sentinel
  <2> DEFINE h == Head(q)
             t == Tail(q)
  <2>1. q # <<>> /\ k # "no" /\ ~over[s]
    BY <1>5 DEF Consume
  <2>2. /\ queue'[s] = t /\ read'[s] = Append(read[s], h)
        /\ UNCHANGED <<over, members>>
    BY <1>1, <1>5 DEF Consume, TypeOK
  <2>3. /\ h \in 1 .. Len(log) /\ GaplessRun(k, log, h, t) /\ LastOf(t, h) = LastOf(q, a)
    <3> HIDE DEF k, a
    <3> QED BY <1>1, <1>3, <1>5, <2>1, RunReads
  <2>4. LastRead(s)' = h
    <3>1. h \in 1 .. MaxLog
      BY <1>1, <2>3, BusAssumption DEF BusInv, Numbered
    <3>2. /\ Append(read[s], h) # <<>> /\ Len(Append(read[s], h)) = Len(read[s]) + 1
          /\ Append(read[s], h)[Len(read[s]) + 1] = h
      BY <1>1, <3>1, AppendProperties
    <3> QED BY <2>2, <3>2 DEF LastRead
  <2>5. Len(t) = Len(q) - 1 /\ \A n \in 1 .. Len(t) : t[n] = q[n + 1]
    BY <1>1, <2>1
  <2>6. s \in members => /\ Len(t) <= MaxSize
                         /\ \A n \in 1 .. Len(t) : t[n] # Sentinel
                         /\ CaughtUp(k, log, h, t)
    <3> SUFFICES ASSUME s \in members
                 PROVE  /\ Len(t) <= MaxSize
                        /\ \A n \in 1 .. Len(t) : t[n] # Sentinel
                        /\ CaughtUp(k, log, h, t)
      OBVIOUS
    <3>1. /\ Len(q) <= MaxSize /\ CaughtUp(k, log, a, q)
          /\ \A n \in 1 .. Len(q) : q[n] # Sentinel
      BY <1>1 DEF QueueOK
    <3>2. Len(q) \in Nat /\ \A n \in 1 .. Len(t) : n + 1 \in 1 .. Len(q)
      BY <1>1, <2>5
    <3> HIDE DEF t, h, k, a, q
    <3> QED BY <2>3, <2>5, <3>1, <3>2, BusAssumption DEF CaughtUp
  <2>7. s \notin members => t # <<>> /\ t[Len(t)] = Sentinel
    <3> SUFFICES ASSUME s \notin members
                 PROVE  t # <<>> /\ t[Len(t)] = Sentinel
      OBVIOUS
    <3>1. q[Len(q)] = Sentinel /\ q[1] = h /\ h # Sentinel
      BY <1>1, <1>5, <2>1 DEF QueueOK
    <3>2. Len(q) \in Nat /\ Len(q) # 0
      BY <1>1, <2>1
    <3> HIDE DEF q, t, h
    <3>3. PICK m \in Nat : Len(q) = m + 1 /\ m # 0
      BY <3>1, <3>2
    <3>4. Len(t) = m /\ t[m] = q[m + 1] /\ m \in 1 .. Len(t)
      BY <2>5, <3>3
    <3> QED BY <3>1, <3>3, <3>4
  <2>8. Len(t) <= MaxSize + 1 /\ h \in 0 .. Len(log)
    BY <1>1, <1>3, <2>3, <2>5, BusAssumption
  <2> HIDE DEF t, h
  <2> QED BY <1>2, <2>1, <2>2, <2>3, <2>4, <2>6, <2>7, <2>8 DEF QueueOK
<1>6. CASE s # r
  <2>1. /\ queue'[s] = q /\ read'[s] = read[s] /\ over'[s] = over[s]
        /\ (s \in members' <=> s \in members)
    BY <1>1, <1>6 DEF Consume, TypeOK
  <2> QED BY <1>1, <1>2, <2>1 DEF QueueOK, LastRead
<1> QED BY <1>4, <1>5, <1>6

LEMMA AbandonStep ==
  ASSUME BusInv, NEW r \in Subscribers, Abandon(r), NEW s \in Subscribers
  PROVE  QueueOK(s)'
<1>1. QueueOK(s) /\ TypeOK
  BY DEF BusInv
<1>2. UNCHANGED <<opened, start, log, queue, read>> /\ LastRead(s)' = LastRead(s)
  BY DEF Abandon, LastRead
<1>3. CASE s = r
  BY <1>1, <1>2, <1>3 DEF Abandon, QueueOK, TypeOK
<1>4. CASE s # r
  BY <1>1, <1>2, <1>4 DEF Abandon, QueueOK, TypeOK
<1> QED BY <1>3, <1>4

LEMMA BusStep ==
  ASSUME BusInv, [BusNext]_busVars
  PROVE  BusInv'
<1>1. BusCases
  BY BusByCase
<1>2. TypeOK' /\ Numbered'
  BY <1>1, TypeStep DEF BusInv
<1>3. \A s \in Subscribers : Len(queue[s]) \in Nat /\ (s \in members => Len(queue[s]) <= MaxSize)
  BY QueueTyped DEF BusInv, QueueOK
<1>4. ~refused'
  <2>1. \A s \in members : ~Full(queue[s])
    BY <1>3, BusAssumption DEF Full, BusInv, TypeOK
  <2>2. ~refused
    BY DEF BusInv
  <2> QED BY <1>1, <2>1, <2>2 DEF BusCases, Publish, Subscribe, Unsubscribe, Consume, Abandon
<1>5. ASSUME NEW s \in Subscribers
      PROVE  QueueOK(s)'
  <2>1. CASE UNCHANGED busVars
    <3>1. QueueOK(s)
      BY DEF BusInv
    <3> QED BY <3>1, <2>1 DEF QueueOK, LastRead
  <2> QED BY <1>1, <2>1, PublishStep, SubscribeStep, UnsubscribeStep, ConsumeStep,
             AbandonStep DEF BusCases
<1> QED BY <1>2, <1>4, <1>5 DEF BusInv

LEMMA BusInit == Init => BusInv
<1> SUFFICES ASSUME Init PROVE BusInv
  OBVIOUS
<1>1. TypeOK /\ Numbered
  <2>1. log \in Seq([session : Sessions, seq : 1 .. MaxLog]) /\ Len(log) = 0
    BY DEF Init
  <2>2. /\ queue \in [Subscribers -> Seq(1 .. MaxLog \cup {Sentinel})]
        /\ read \in [Subscribers -> Seq(1 .. MaxLog)]
    BY DEF Init
  <2>3. 0 \in 0 .. MaxLog /\ 0 <= MaxLog
    BY BusAssumption
  <2>4. next \in [Sessions -> 0 .. MaxLog] /\ start \in [Subscribers -> 0 .. MaxLog]
    BY <2>3 DEF Init
  <2>5. \A x \in Sessions : next[x] <= Len(log)
    BY <2>1, <2>3 DEF Init
  <2> QED BY <2>1, <2>2, <2>3, <2>4, <2>5 DEF Init, TypeOK, Numbered
<1>2. ASSUME NEW s \in Subscribers
      PROVE  QueueOK(s)
  <2>1. /\ opened[s] = "no" /\ s \notin members /\ queue[s] = <<>> /\ read[s] = <<>>
        /\ ~over[s] /\ LastRead(s) = 0 /\ log = <<>>
    BY DEF Init, LastRead
  <2>2. GaplessRun(opened[s], log, LastRead(s), queue[s])
    BY <2>1 DEF GaplessRun
  <2> QED BY <2>1, <2>2, BusAssumption DEF QueueOK
<1> QED BY <1>1, <1>2 DEF BusInv, Init

\* Every variable of the bus keeps its type.
THEOREM BusTypes == Spec => []TypeOK
<1>1. BusInv => TypeOK
  BY DEF BusInv
<1> QED BY <1>1, BusInit, BusStep, PTL DEF Spec

LEMMA SentinelFrom == BusInv => SentinelAlwaysFits
<1> SUFFICES ASSUME BusInv, NEW s \in Subscribers
             PROVE  /\ ~refused /\ Len(queue[s]) <= MaxSize + 1
                    /\ ~over[s] /\ opened[s] # "no" =>
                         (s \notin members <=> queue[s] # <<>> /\ queue[s][Len(queue[s])] = Sentinel)
  BY DEF SentinelAlwaysFits, BusInv
<1>1. QueueOK(s) /\ queue[s] \in Seq(Positions) /\ ~refused
  BY QueueTyped DEF BusInv
<1>2. queue[s] # <<>> => Len(queue[s]) \in 1 .. Len(queue[s])
  BY <1>1
<1> QED BY <1>1, <1>2 DEF QueueOK

\* The sentinel's reserved place always suffices: no put of the bus ever finds
\* a queue full, and a subscriber out of the map has the sentinel behind what
\* it still has to read, whatever the queue size and however slow it is.
THEOREM SentinelFits == Spec => []SentinelAlwaysFits
BY SentinelFrom, BusInit, BusStep, PTL DEF Spec

-----------------------------------------------------------------------------
(* The bus implements EventLog.                                            *)

LEMMA LogInit == Init => Promise!Init
BY DEF Init, Promise!Init

LEMMA LogStep ==
  ASSUME BusInv, [BusNext]_busVars
  PROVE  [Promise!Next]_<<log, opened, start, read, over>>
<1>1. BusCases
  BY BusByCase
<1>2. ASSUME NEW x \in Sessions, Publish(x)
      PROVE  Promise!Append1
  <2> DEFINE e == [session |-> x, seq |-> Number(x)]
  <2>1. e \in Entry
    <3>1. Number(x) \in 1 .. MaxLog
      BY <1>2, BusAssumption DEF BusInv, TypeOK, Numbered, Publish, Number
    <3> QED BY <3>1 DEF Entry
  <2>2. log \in Seq(Entry) /\ log' = Append(log, e)
    BY <1>2 DEF Publish, BusInv, TypeOK, Entry
  <2>3. log' # <<>> /\ log'[Len(log')] = e /\ e.session = x
    BY <2>1, <2>2
  <2> QED BY <1>2, <2>2, <2>3 DEF Promise!Append1, Publish
<1>3. ASSUME NEW s \in Subscribers, NEW k \in Sessions \cup {AnyScope}, Subscribe(s, k)
      PROVE  Promise!Open(s)
  BY <1>3 DEF Subscribe, Promise!Open
<1>4. ASSUME NEW s \in Subscribers, Consume(s)
      PROVE  Promise!End(s) \/ Promise!ReadNext(s)
  <2> DEFINE q == queue[s]
             h == Head(q)
             k == opened[s]
             a == LastRead(s)
  <2>1. CASE Head(queue[s]) = Sentinel
    BY <1>4, <2>1 DEF Consume, Promise!End
  <2>2. CASE Head(queue[s]) # Sentinel
    <3>1. /\ QueueOK(s) /\ q \in Seq(Positions) /\ log \in Seq(Entry) /\ q # <<>>
      BY <1>4, QueueTyped DEF BusInv, Consume
    <3>2. a \in 0 .. Len(log) /\ GaplessRun(k, log, a, q)
      BY <3>1 DEF QueueOK
    <3>3. h \in 1 .. Len(log) /\ a < h /\ In(k, log, h) /\ NoneBetween(k, log, a, h)
      <4> HIDE DEF k, a
      <4> QED BY <2>2, <3>1, <3>2, RunReads
    <3>4. Promise!At(s) = a
      BY DEF Promise!At, LastRead
    <3>5. \A j \in Nat : Promise!Within(s, j) <=> In(k, log, j)
      BY DEF Promise!Within, In
    <3>6. /\ h \in a + 1 .. Len(log) /\ Promise!Within(s, h)
          /\ \A j \in a + 1 .. h - 1 : ~Promise!Within(s, j)
      <4> HIDE DEF h, a, k
      <4> QED BY <3>1, <3>2, <3>3, <3>5 DEF NoneBetween
    <3>7. /\ opened[s] # "no" /\ ~over[s] /\ read' = [read EXCEPT ![s] = Append(@, h)]
          /\ UNCHANGED <<log, opened, start, over>>
      BY <1>4, <2>2 DEF Consume
    <3> QED BY <3>4, <3>6, <3>7 DEF Promise!ReadNext
  <2> QED BY <2>1, <2>2
<1>5. ASSUME NEW s \in Subscribers, Unsubscribe(s)
      PROVE  UNCHANGED <<log, opened, start, read, over>>
  BY <1>5 DEF Unsubscribe
<1>6. ASSUME NEW s \in Subscribers, Abandon(s)
      PROVE  Promise!End(s)
  BY <1>6 DEF Abandon, Promise!End
<1>7. UNCHANGED busVars => UNCHANGED <<log, opened, start, read, over>>
  OBVIOUS
<1> QED BY <1>1, <1>2, <1>3, <1>4, <1>5, <1>6, <1>7 DEF BusCases, Promise!Next

\* The event bus is an EventLog: a subscriber reads the publications of its
\* scope made since it subscribed, in order and without a gap, until its
\* stream ends, whatever overflows and whoever detaches.
THEOREM BusIsEventLog == Spec => ImplementsEventLog
<1>1. BusInv /\ [BusNext]_busVars => [Promise!Next]_Promise!logVars
  BY LogStep DEF Promise!logVars
<1> QED BY <1>1, LogInit, BusInit, BusStep, PTL DEF Spec, ImplementsEventLog, Promise!Spec

-----------------------------------------------------------------------------
(* The awaiter.                                                            *)

(* The n-th entry of the awaiter's queue is an end of operation i. *)
QueuedEnd(i, n) ==
  LET e == queue[Awaiter][n] IN
    e # Sentinel /\ body[e] # OtherBody /\ body[e].id = i

Places == 1 .. Len(queue[Awaiter])

(* Where the end of operation i is: not published yet, once in the awaiter's
   queue, kept as a status, handed to the waiter, or lost with the
   subscription. *)
IdOK(i) ==
  /\ stopped => future[i] = "absent" /\ completed[i] = "absent" /\ waiter[i] # "waiting"
  /\ op[i] = "new" => waiter[i] = "idle" /\ ~Registered(i)
  /\ op[i] = "running" /\ ~stopped =>
       completed[i] = "absent" /\ (waiter[i] = "cancelled" \/ future[i] = "pending")
  /\ ~stopped /\ waiter[i] = "idle" /\ op[i] # "new" => Registered(i)
  /\ completed[i] # "absent" =>
       /\ op[i] = "over" /\ completed[i] = ending[i] /\ future[i] = "absent"
       /\ waiter[i] \in {"idle", "woken", "cancelled"}
  /\ future[i] = "pending" =>
       /\ waiter[i] \in {"idle", "waiting"}
       /\ op[i] = "over" => (\E n \in Places : QueuedEnd(i, n)) \/ Awaiter \notin members
  /\ waiter[i] = "waiting" => future[i] = "pending"
  /\ waiter[i] \in {"woken", "got"} =>
       \/ op[i] = "over" /\ result[i] = ending[i]
       \/ result[i] = "None" /\ stopped
  /\ ~stopped =>
       \A n \in Places : QueuedEnd(i, n) =>
         /\ op[i] = "over" /\ body[queue[Awaiter][n]].status = ending[i]
         /\ completed[i] = "absent"
         /\ waiter[i] = "cancelled" \/ future[i] = "pending"
         /\ \A m \in Places : QueuedEnd(i, m) => m = n

AwInv ==
  /\ BusInv /\ AwTypeOK
  /\ opened[Awaiter] \in {"no", AnyScope}
  /\ Started \/ \A i \in Ids : op[i] = "new"
  /\ \A i \in Ids : IdOK(i)

awBusVars == <<busVars, awVars>>

LEMMA AwaiterBus ==
  ASSUME [AwNext]_awBusVars
  PROVE  [BusNext]_busVars
<1> USE AwaiterAssumption DEF BusNext
<1>1. CASE UNCHANGED awBusVars
  BY <1>1 DEF awBusVars
<1>2. CASE \E i \in Ids : \/ Submit(i) \/ WaitFor(i) \/ Wake(i) \/ CancelWait(i)
                          \/ \E status \in Statuses : Finish(i, status)
  BY <1>2 DEF Submit, WaitFor, Wake, CancelWait, Finish
<1>3. CASE Construct \/ ConsumeEnd \/ Stop \/ \E x \in Sessions : OtherEvent(x)
  BY <1>3 DEF Construct, ConsumeEnd, Stop, OtherEvent
<1>4. CASE \E s \in Subscribers \ {Awaiter} : OtherSubscriber(s)
  BY <1>4 DEF OtherSubscriber
<1> QED BY <1>1, <1>2, <1>3, <1>4 DEF AwNext

Bodies == [id : Ids, status : Statuses] \cup {OtherBody}

(* A publication adds its body behind what the awaiter's queue holds, and
   nothing else about operations. *)
LEMMA AwaiterHears ==
  ASSUME AwInv, NEW x \in Sessions, Publish(x), NEW b \in Bodies,
         body' = Append(body, b), NEW i \in Ids
  PROVE  /\ Places \subseteq Places'
         /\ \A n \in Places : /\ QueuedEnd(i, n)' <=> QueuedEnd(i, n)
                              /\ QueuedEnd(i, n) =>
                                   body'[queue'[Awaiter][n]] = body[queue[Awaiter][n]]
         /\ \A n \in Places' \ Places :
              /\ n = Len(queue[Awaiter]) + 1
              /\ QueuedEnd(i, n)' =>
                   b # OtherBody /\ b.id = i /\ body'[queue'[Awaiter][n]] = b
         /\ Awaiter \in members' /\ b # OtherBody /\ b.id = i =>
              \E n \in Places' : QueuedEnd(i, n)'
         /\ Awaiter \notin members => Awaiter \notin members'
<1> DEFINE q == queue[Awaiter]
           p == queue'[Awaiter]
<1>1. /\ q \in Seq(Positions) /\ log \in Seq(Entry) /\ QueueOK(Awaiter)
      /\ body \in Seq(Bodies) /\ Len(body) = Len(log) /\ Sentinel \notin Nat
  BY AwaiterAssumption, BusAssumption, QueueTyped DEF AwInv, BusInv, AwTypeOK, Bodies
<1>2. /\ Len(body') = Len(body) + 1 /\ body'[Len(body) + 1] = b
      /\ \A e \in 1 .. Len(body) : body'[e] = body[e]
  BY <1>1
<1>3. \A n \in 1 .. Len(q) : q[n] # Sentinel => q[n] \in 1 .. Len(body)
  BY <1>1 DEF QueueOK, GaplessRun
<1>4. Awaiter \notin members => Awaiter \notin members'
  BY DEF Publish
<1>5. \/ p = q /\ Awaiter \notin members'
      \/ p = Append(q, Sentinel) /\ Awaiter \notin members'
      \/ p = Append(q, Len(body) + 1)
  <2>1. CASE Awaiter \notin members
    BY <2>1, AwaiterAssumption DEF Publish, Overflowed
  <2>2. CASE Awaiter \in members
    <3>1. InScope(Awaiter, x)
      BY <1>1, <2>2 DEF AwInv, InScope, QueueOK
    <3> QED BY <1>1, <2>2, <3>1, AwaiterAssumption DEF Publish, Overflowed, Ended
  <2> QED BY <2>1, <2>2
<1>6. \A n \in 1 .. Len(q) : p[n] = q[n]
  BY <1>1, <1>5, AppendProperties DEF Positions
<1>7. Len(p) \in {Len(q), Len(q) + 1} /\ Len(q) \in Nat
  BY <1>1, <1>5, AppendProperties DEF Positions
<1>8. Len(p) = Len(q) + 1 =>
        \/ p[Len(q) + 1] = Sentinel
        \/ p[Len(q) + 1] = Len(body) + 1 /\ Len(body) + 1 # Sentinel
  BY <1>1, <1>5, <1>7, AppendProperties DEF Positions
<1>9. Awaiter \in members' =>
        Len(p) = Len(q) + 1 /\ p[Len(q) + 1] = Len(body) + 1 /\ Len(body) + 1 # Sentinel
  <2>1. Len(body) + 1 \in Nat
    BY <1>1
  <2> QED BY <1>1, <1>5, <2>1, AppendProperties DEF Positions
<1> HIDE DEF q, p
<1>10. Places = 1 .. Len(q) /\ Places' = 1 .. Len(p)
  BY DEF Places, q, p
<1>11. ASSUME NEW n
       PROVE  /\ QueuedEnd(i, n) <=> q[n] # Sentinel /\ body[q[n]] # OtherBody /\ body[q[n]].id = i
              /\ QueuedEnd(i, n)' <=> p[n] # Sentinel /\ body'[p[n]] # OtherBody /\ body'[p[n]].id = i
  BY DEF QueuedEnd, q, p, OtherBody
<1>12. \A n \in Places : /\ QueuedEnd(i, n)' <=> QueuedEnd(i, n)
                         /\ QueuedEnd(i, n) => body'[p[n]] = body[q[n]]
  BY <1>2, <1>3, <1>6, <1>10, <1>11
<1>13. \A n \in Places' \ Places :
         /\ n = Len(q) + 1
         /\ QueuedEnd(i, n)' => b # OtherBody /\ b.id = i /\ body'[p[n]] = b
  <2> SUFFICES ASSUME NEW n \in Places' \ Places
               PROVE  /\ n = Len(q) + 1
                      /\ QueuedEnd(i, n)' => b # OtherBody /\ b.id = i /\ body'[p[n]] = b
    OBVIOUS
  <2>1. n = Len(q) + 1 /\ Len(p) = Len(q) + 1
    BY <1>7, <1>10
  <2> QED BY <1>2, <1>8, <1>11, <2>1
<1>14. Awaiter \in members' /\ b # OtherBody /\ b.id = i => \E n \in Places' : QueuedEnd(i, n)'
  <2>1. Awaiter \in members' => Len(q) + 1 \in Places'
    BY <1>7, <1>9, <1>10
  <2> QED BY <1>2, <1>9, <1>11, <2>1
<1>15. Places \subseteq Places'
  BY <1>7, <1>10
<1> QED BY <1>4, <1>12, <1>13, <1>14, <1>15, Zenon DEF q, p

LEMMA AwTypeStep ==
  ASSUME BusInv, AwTypeOK, [AwNext]_awBusVars
  PROVE  AwTypeOK'
<1> USE DEF AwTypeOK, Statuses
<1>1. TypeOK' /\ Numbered'
  BY AwaiterBus, BusStep DEF BusInv
<1>2. log \in Seq(Entry) /\ body \in Seq(Bodies)
  BY DEF BusInv, TypeOK, Entry, Bodies
<1>3. ASSUME NEW x \in Sessions, Publish(x), NEW b \in Bodies, body' = Append(body, b)
      PROVE  body' \in Seq(Bodies) /\ Len(body') = Len(log')
  <2>1. Len(log') = Len(log) + 1
    BY <1>2, <1>3 DEF Publish
  <2> QED BY <1>2, <1>3, <2>1
<1>4. UNCHANGED <<log, body>> => body' \in Seq(Bodies) /\ Len(body') = Len(log')
  BY <1>2
<1>5. CASE UNCHANGED awBusVars
  BY <1>1, <1>4, <1>5 DEF awBusVars, awVars, Bodies
<1>6. ASSUME NEW i \in Ids, Submit(i) \/ WaitFor(i) \/ Wake(i) \/ CancelWait(i)
      PROVE  AwTypeOK'
  <2>1. body' \in Seq(Bodies) /\ Len(body') = Len(log')
    BY <1>4, <1>6 DEF Submit, WaitFor, Wake, CancelWait
  <2>2. CASE Submit(i)
    BY <1>1, <2>1, <2>2 DEF Submit, Bodies
  <2>3. CASE WaitFor(i)
    <3>0. /\ completed \in [Ids -> Statuses \cup {"absent"}]
          /\ waiter \in [Ids -> {"idle", "waiting", "woken", "got", "cancelled"}]
          /\ result \in [Ids -> Statuses \cup {"None", "none"}]
      BY DEF AwTypeOK
    <3>a. completed' \in [Ids -> Statuses \cup {"absent"}]
      BY <2>3, <3>0 DEF WaitFor
    <3>b. waiter' \in [Ids -> {"idle", "waiting", "woken", "got", "cancelled"}]
      <4>1. \/ waiter' = [waiter EXCEPT ![i] = "got"]
            \/ waiter' = [waiter EXCEPT ![i] = "waiting"]
        BY <2>3 DEF WaitFor
      <4> QED BY <3>0, <4>1
    <3>c. result' \in [Ids -> Statuses \cup {"None", "none"}]
      BY <2>3, <3>0 DEF WaitFor
    <3>1. /\ completed' \in [Ids -> Statuses \cup {"absent"}]
          /\ waiter' \in [Ids -> {"idle", "waiting", "woken", "got", "cancelled"}]
          /\ result' \in [Ids -> Statuses \cup {"None", "none"}]
      BY <3>a, <3>b, <3>c
    <3> QED BY <1>1, <2>1, <2>3, <3>1 DEF WaitFor, Bodies
  <2>4. CASE Wake(i) \/ CancelWait(i)
    <3>1. /\ waiter \in [Ids -> {"idle", "waiting", "woken", "got", "cancelled"}]
          /\ future \in [Ids -> {"absent", "pending"}]
          /\ completed \in [Ids -> Statuses \cup {"absent"}]
          /\ result \in [Ids -> Statuses \cup {"None", "none"}]
      BY DEF AwTypeOK
    <3>2. waiter' \in [Ids -> {"idle", "waiting", "woken", "got", "cancelled"}]
      BY <2>4, <3>1 DEF Wake, CancelWait
    <3>3. /\ future' \in [Ids -> {"absent", "pending"}]
          /\ completed' \in [Ids -> Statuses \cup {"absent"}]
      BY <2>4, <3>1 DEF Wake, CancelWait, Forgets
    <3>4. result' \in [Ids -> Statuses \cup {"None", "none"}]
      BY <2>4, <3>1 DEF Wake, CancelWait
    <3>5. UNCHANGED <<busVars, body, op, ending, stopped>>
      BY <2>4 DEF Wake, CancelWait
    <3> QED BY <1>1, <2>1, <3>2, <3>3, <3>4, <3>5 DEF Bodies
  <2> QED BY <1>6, <2>2, <2>3, <2>4
<1>7. ASSUME NEW i \in Ids, NEW status \in Statuses, Finish(i, status)
      PROVE  AwTypeOK'
  <2>1. body' \in Seq(Bodies) /\ Len(body') = Len(log')
    <3>1. [id |-> i, status |-> status] \in Bodies
      BY DEF Bodies
    <3> QED BY <1>3, <1>7, <3>1, AwaiterAssumption DEF Finish
  <2> QED BY <1>1, <1>7, <2>1 DEF Finish, Bodies
<1>8. ASSUME NEW x \in Sessions, OtherEvent(x)
      PROVE  AwTypeOK'
  <2>1. body' \in Seq(Bodies) /\ Len(body') = Len(log')
    BY <1>3, <1>8 DEF OtherEvent, Bodies
  <2> QED BY <1>1, <1>8, <2>1 DEF OtherEvent, Bodies
<1>9. CASE ConsumeEnd
  <2>1. body' \in Seq(Bodies) /\ Len(body') = Len(log')
    BY <1>4, <1>9 DEF ConsumeEnd, Consume
  <2>2. ASSUME Head(queue[Awaiter]) # Sentinel, body[Head(queue[Awaiter])] # OtherBody
        PROVE  body[Head(queue[Awaiter])] \in [id : Ids, status : Statuses]
    <3> DEFINE q == queue[Awaiter]
    <3>1. q \in Seq(Positions) /\ q # <<>> /\ QueueOK(Awaiter)
      BY <1>9, AwaiterAssumption, QueueTyped DEF ConsumeEnd, Consume, BusInv
    <3>2. Head(q) \in 1 .. Len(log)
      BY <1>2, <2>2, <3>1, RunReads DEF QueueOK
    <3> QED BY <1>2, <2>2, <3>2 DEF Bodies
  <2>3. /\ future' \in [Ids -> {"absent", "pending"}]
        /\ completed' \in [Ids -> Statuses \cup {"absent"}]
        /\ waiter' \in [Ids -> {"idle", "waiting", "woken", "got", "cancelled"}]
        /\ result' \in [Ids -> Statuses \cup {"None", "none"}]
    <3> DEFINE e == body[Head(queue[Awaiter])]
    <3>1. \/ UNCHANGED <<future, completed, waiter, result>>
          \/ Settles(e) /\ e.status \in Statuses
      BY <1>9, <2>2 DEF ConsumeEnd
    <3> HIDE DEF e
    <3>2. /\ future' \in [Ids -> {"absent", "pending"}]
          /\ completed' \in [Ids -> Statuses \cup {"absent"}]
      BY <3>1 DEF Settles
    <3>3. waiter' = waiter \/ waiter' = [waiter EXCEPT ![e.id] = "woken"]
      BY <3>1 DEF Settles
    <3>4. Settles(e) => result' = result \/ result' = [result EXCEPT ![e.id] = e.status]
      BY DEF Settles
    <3>5. result' \in [Ids -> Statuses \cup {"None", "none"}]
      BY <3>1, <3>4
    <3>6. waiter' \in [Ids -> {"idle", "waiting", "woken", "got", "cancelled"}]
      BY <3>3
    <3> QED BY <3>2, <3>5, <3>6
  <2> QED BY <1>1, <1>9, <2>1, <2>3 DEF ConsumeEnd, Bodies
<1>10. CASE Stop
  <2>1. body' \in Seq(Bodies) /\ Len(body') = Len(log')
    BY <1>4, <1>10 DEF Stop, Abandon
  <2> QED BY <1>1, <1>10, <2>1 DEF Stop, Swept, Bodies
<1>11. ASSUME NEW s \in Subscribers, OtherSubscriber(s) \/ Construct
       PROVE  AwTypeOK'
  <2>1. body' \in Seq(Bodies) /\ Len(body') = Len(log')
    BY <1>4, <1>11 DEF OtherSubscriber, Construct, awVars, Subscribe, Unsubscribe, Consume, Abandon
  <2> QED BY <1>1, <1>11, <2>1 DEF OtherSubscriber, Construct, awVars, Bodies
<1> QED BY <1>5, <1>6, <1>7, <1>8, <1>9, <1>10, <1>11, AwaiterAssumption DEF AwNext

(* What a step leaves of the awaiter's queue. *)
QueueKept ==
  /\ queue'[Awaiter] = queue[Awaiter] /\ body' = body
  /\ Awaiter \notin members => Awaiter \notin members'

LEMMA KeptEnds ==
  ASSUME QueueKept
  PROVE  Places' = Places /\ \A i, n : QueuedEnd(i, n)' <=> QueuedEnd(i, n)
BY DEF QueueKept, Places, QueuedEnd, OtherBody

(* An operation a step says nothing of. *)
Same(i) ==
  /\ op'[i] = op[i] /\ ending'[i] = ending[i] /\ future'[i] = future[i]
  /\ completed'[i] = completed[i] /\ waiter'[i] = waiter[i] /\ result'[i] = result[i]
  /\ stopped' = stopped

LEMMA SameKept ==
  ASSUME QueueKept, NEW i \in Ids, Same(i), IdOK(i)
  PROVE  IdOK(i)'
BY KeptEnds DEF QueueKept, Same, IdOK, Registered

LEMMA CallerStep ==
  ASSUME AwInv, NEW j \in Ids, Submit(j) \/ WaitFor(j) \/ Wake(j) \/ CancelWait(j),
         NEW i \in Ids
  PROVE  IdOK(i)'
<1>1. QueueKept /\ IdOK(i) /\ AwTypeOK
  BY DEF QueueKept, Submit, WaitFor, Wake, CancelWait, AwInv
<1>2. CASE i # j
  <2>1. Same(i)
    BY <1>1, <1>2 DEF Same, Submit, WaitFor, Wake, CancelWait, Forgets, AwTypeOK
  <2> QED BY <1>1, <2>1, SameKept
<1>3. CASE i = j
  <2> USE KeptEnds, <1>1, <1>3
  <2>1. CASE Submit(i)
    BY <2>1 DEF Submit, AwTypeOK, IdOK, Registered, QueueKept
  <2>2. CASE WaitFor(i)
    BY <2>2 DEF WaitFor, AwTypeOK, IdOK, Registered, QueueKept
  <2>3. CASE Wake(i)
    BY <2>3 DEF Wake, Forgets, AwTypeOK, IdOK, Registered, QueueKept
  <2>4. CASE CancelWait(i)
    BY <2>4 DEF CancelWait, Forgets, AwTypeOK, IdOK, Registered, QueueKept
  <2> QED BY <2>1, <2>2, <2>3, <2>4
<1> QED BY <1>2, <1>3

LEMMA FinishStep ==
  ASSUME AwInv, NEW j \in Ids, NEW status \in Statuses, Finish(j, status), NEW i \in Ids
  PROVE  IdOK(i)'
<1> DEFINE b == [id |-> j, status |-> status]
<1>1. /\ b \in Bodies /\ b # OtherBody /\ b.id = j /\ b.status = status
      /\ body' = Append(body, b) /\ Publish(Home) /\ Home \in Sessions
  BY AwaiterAssumption DEF Bodies, OtherBody, Finish, Statuses
<1>2. IdOK(i) /\ AwTypeOK /\ stopped' = stopped
  BY DEF AwInv, Finish
<1>3. /\ future' = future /\ completed' = completed /\ waiter' = waiter /\ result' = result
      /\ op[j] = "running" /\ op'[j] = "over" /\ ending'[j] = status
      /\ i # j => op'[i] = op[i] /\ ending'[i] = ending[i]
  BY <1>2 DEF Finish, AwTypeOK
<1> HIDE DEF b
<1>4. CASE i # j
  <2>1. /\ \A n \in Places : n \in Places' /\ (QueuedEnd(i, n)' <=> QueuedEnd(i, n))
        /\ \A n \in Places' : QueuedEnd(i, n)' =>
             n \in Places /\ body'[queue'[Awaiter][n]] = body[queue[Awaiter][n]]
        /\ Awaiter \notin members => Awaiter \notin members'
    BY <1>1, <1>4, AwaiterHears, ZenonT(60)
  <2> QED BY <1>2, <1>3, <1>4, <2>1 DEF IdOK, Registered
<1>5. CASE i = j
  <2>1. ~stopped => \A n \in Places : ~QueuedEnd(i, n)
    BY <1>2, <1>3, <1>5 DEF IdOK
  <2>2. /\ ~stopped => \A n \in Places' : QueuedEnd(i, n)' =>
             n = Len(queue[Awaiter]) + 1 /\ body'[queue'[Awaiter][n]] = b
        /\ Awaiter \in members' => \E n \in Places' : QueuedEnd(i, n)'
    BY <1>1, <1>5, <2>1, AwaiterHears
  <2> QED BY <1>1, <1>2, <1>3, <1>5, <2>2 DEF IdOK, Registered
<1> QED BY <1>4, <1>5

LEMMA OtherEventStep ==
  ASSUME AwInv, NEW x \in Sessions, OtherEvent(x), NEW i \in Ids
  PROVE  IdOK(i)'
<1>1. OtherBody \in Bodies /\ body' = Append(body, OtherBody) /\ Publish(x)
  BY DEF Bodies, OtherEvent
<1>2. /\ \A n \in Places : n \in Places' /\ (QueuedEnd(i, n)' <=> QueuedEnd(i, n))
      /\ \A n \in Places' : QueuedEnd(i, n)' =>
           n \in Places /\ body'[queue'[Awaiter][n]] = body[queue[Awaiter][n]]
      /\ Awaiter \notin members => Awaiter \notin members'
  BY <1>1, AwaiterHears
<1>3. IdOK(i) /\ Same(i)
  BY DEF AwInv, OtherEvent, Same
<1> QED BY <1>2, <1>3 DEF IdOK, Same, Registered

LEMMA StopStep ==
  ASSUME AwInv, Stop, NEW i \in Ids
  PROVE  IdOK(i)'
BY DEF AwInv, AwTypeOK, Stop, Swept, IdOK, Registered

(* Taking the head of the awaiter's queue moves every other place up by one. *)
LEMMA AwaiterTakes ==
  ASSUME AwInv, Consume(Awaiter), body' = body
  PROVE  /\ 1 \in Places
         /\ \A n \in Places' : n + 1 \in Places /\ n + 1 # 1
         /\ \A n \in Places : n # 1 => \E m \in Places' : n = m + 1
         /\ \A n \in Places' : queue'[Awaiter][n] = queue[Awaiter][n + 1]
         /\ \A i \in Ids, n \in Places' : QueuedEnd(i, n)' <=> QueuedEnd(i, n + 1)
         /\ Head(queue[Awaiter]) = queue[Awaiter][1]
<1> DEFINE q == queue[Awaiter]
           p == queue'[Awaiter]
<1>1. q \in Seq(Positions) /\ q # <<>> /\ p = Tail(q)
  BY AwaiterAssumption, QueueTyped DEF AwInv, BusInv, Consume, TypeOK
<1>2. /\ Len(q) \in Nat \ {0} /\ Len(p) = Len(q) - 1 /\ Head(q) = q[1]
      /\ \A n \in 1 .. Len(p) : p[n] = q[n + 1]
  BY <1>1
<1> HIDE DEF q, p
<1>3. Places = 1 .. Len(q) /\ Places' = 1 .. Len(p)
  BY DEF Places, q, p
<1>4. /\ \A n \in Places' : n + 1 \in Places /\ n + 1 # 1
      /\ 1 \in Places
  BY <1>2, <1>3
<1>5. ASSUME NEW n \in Places, n # 1
      PROVE  \E m \in Places' : n = m + 1
  <2>1. n - 1 \in Places' /\ n = (n - 1) + 1
    BY <1>2, <1>3, <1>5
  <2> QED BY <2>1
<1>6. ASSUME NEW i \in Ids, NEW n \in Places'
      PROVE  QueuedEnd(i, n)' <=> QueuedEnd(i, n + 1)
  <2>1. p[n] = q[n + 1]
    BY <1>2, <1>3
  <2> QED BY <2>1 DEF QueuedEnd, q, p, OtherBody
<1>7. /\ \A n \in Places' : queue'[Awaiter][n] = queue[Awaiter][n + 1]
      /\ Head(queue[Awaiter]) = queue[Awaiter][1]
  BY <1>2, <1>3 DEF p, q
<1> QED BY <1>4, <1>5, <1>6, <1>7

LEMMA ConsumeEndStep ==
  ASSUME AwInv, ConsumeEnd, NEW i \in Ids
  PROVE  IdOK(i)'
<1> DEFINE h == Head(queue[Awaiter])
<1>1. /\ Consume(Awaiter) /\ ~stopped /\ ~stopped' /\ body' = body
      /\ UNCHANGED <<op, ending>> /\ IdOK(i) /\ AwTypeOK
  BY DEF ConsumeEnd, AwInv
<1>2. /\ 1 \in Places
      /\ \A n \in Places' : n + 1 \in Places /\ n + 1 # 1
      /\ \A n \in Places : n # 1 => \E m \in Places' : n = m + 1
      /\ \A n \in Places' : queue'[Awaiter][n] = queue[Awaiter][n + 1]
      /\ \A n \in Places' : QueuedEnd(i, n)' <=> QueuedEnd(i, n + 1)
      /\ h = queue[Awaiter][1]
  BY <1>1, AwaiterTakes
<1>3. Awaiter \notin members => Awaiter \notin members'
  BY <1>1 DEF Consume
<1>4. QueuedEnd(i, 1) <=> h # Sentinel /\ body[h] # OtherBody /\ body[h].id = i
  BY <1>2 DEF QueuedEnd
<1> HIDE DEF h
<1>5. CASE ~QueuedEnd(i, 1)
  <2>1. future'[i] = future[i] /\ completed'[i] = completed[i]
        /\ waiter'[i] = waiter[i] /\ result'[i] = result[i]
    <3>1. CASE h = Sentinel \/ body[h] = OtherBody
      BY <3>1 DEF ConsumeEnd, h
    <3>2. CASE h # Sentinel /\ body[h] # OtherBody
      <4>1. Settles(body[h]) /\ body[h].id # i
        BY <1>4, <1>5, <3>2 DEF ConsumeEnd, h
      <4> QED BY <1>1, <4>1 DEF Settles, AwTypeOK
    <3> QED BY <3>1, <3>2
  <2>2. (\E n \in Places : QueuedEnd(i, n)) => \E n \in Places' : QueuedEnd(i, n)'
    BY <1>2, <1>5
  <2>3. \A n, m \in Places' : n + 1 = m + 1 => n = m
    BY DEF Places
  <2>4. future'[i] = "pending" =>
          /\ waiter'[i] \in {"idle", "waiting"}
          /\ op'[i] = "over" => (\E n \in Places' : QueuedEnd(i, n)') \/ Awaiter \notin members'
    BY <1>1, <1>3, <2>1, <2>2 DEF IdOK
  <2>5. \A n \in Places' : QueuedEnd(i, n)' =>
          /\ op'[i] = "over" /\ body'[queue'[Awaiter][n]].status = ending'[i]
          /\ completed'[i] = "absent"
          /\ waiter'[i] = "cancelled" \/ future'[i] = "pending"
          /\ \A m \in Places' : QueuedEnd(i, m)' => m = n
    BY <1>1, <1>2, <2>1, <2>3 DEF IdOK
  <2> QED BY <1>1, <2>1, <2>4, <2>5 DEF IdOK, Registered
<1>6. CASE QueuedEnd(i, 1)
  <2>1. /\ Settles(body[h]) /\ body[h].id = i /\ body[h].status = ending[i]
        /\ op[i] = "over" /\ completed[i] = "absent"
        /\ waiter[i] = "cancelled" \/ future[i] = "pending"
        /\ \A m \in Places : QueuedEnd(i, m) => m = 1
    BY <1>1, <1>2, <1>4, <1>6 DEF ConsumeEnd, IdOK, h
  <2>2. \A n \in Places' : ~QueuedEnd(i, n)'
    BY <1>2, <2>1
  <2>3. future'[i] = "absent" /\ completed'[i] = ending[i] /\ ending[i] # "absent"
    <3>1. body[h].status # "absent"
      BY <1>1, <1>4, <1>6, <2>1 DEF AwTypeOK, Statuses, Settles
    <3> QED BY <1>1, <2>1, <3>1 DEF Settles, AwTypeOK
  <2>4. \/ waiter[i] = "waiting" /\ waiter'[i] = "woken" /\ result'[i] = ending[i]
        \/ waiter[i] \in {"idle", "cancelled"} /\ waiter'[i] = waiter[i]
    BY <1>1, <2>1 DEF Settles, AwTypeOK, IdOK
  <2>5. op'[i] = "over" /\ ending'[i] = ending[i]
    BY <1>1, <2>1
  <2> QED BY <1>1, <2>2, <2>3, <2>4, <2>5 DEF IdOK, Registered
<1> QED BY <1>5, <1>6

LEMMA SubscribersStep ==
  ASSUME AwInv, NEW s \in Subscribers \ {Awaiter}, OtherSubscriber(s), NEW i \in Ids
  PROVE  IdOK(i)'
<1>1. QueueKept
  BY AwaiterAssumption DEF AwInv, BusInv, TypeOK, OtherSubscriber, Subscribe, Unsubscribe,
     Consume, Abandon, QueueKept, awVars
<1>2. Same(i) /\ IdOK(i)
  BY DEF AwInv, OtherSubscriber, Same, awVars
<1> QED BY <1>1, <1>2, SameKept

LEMMA ConstructStep ==
  ASSUME AwInv, Construct, NEW i \in Ids
  PROVE  IdOK(i)'
<1>1. op[i] = "new" /\ IdOK(i) /\ queue[Awaiter] = <<>>
  BY AwaiterAssumption DEF AwInv, BusInv, QueueOK, Construct, Subscribe, Started
<1>2. Same(i) /\ queue'[Awaiter] = <<>>
  BY <1>1 DEF Construct, Subscribe, Same, awVars
<1>3. Places' = {}
  BY <1>2 DEF Places
<1> QED BY <1>1, <1>2, <1>3 DEF Same, IdOK, Registered

LEMMA AwStep ==
  ASSUME AwInv, [AwNext]_awBusVars
  PROVE  AwInv'
<1>1. BusInv' /\ AwTypeOK'
  BY AwaiterBus, BusStep, AwTypeStep DEF AwInv
<1>2. opened'[Awaiter] \in {"no", AnyScope} /\ (Started => Started')
      /\ (Started' \/ \A i \in Ids : op'[i] = "new")
  <2> USE AwaiterAssumption DEF AwInv, BusInv, TypeOK, Started
  <2>1. CASE UNCHANGED awBusVars
    BY <2>1 DEF awBusVars, awVars
  <2>2. CASE \E i \in Ids : \/ Submit(i) \/ WaitFor(i) \/ Wake(i) \/ CancelWait(i)
                            \/ \E status \in Statuses : Finish(i, status)
    BY <2>2, BusAssumption DEF Submit, WaitFor, Wake, CancelWait, Finish, Publish
  <2>3. CASE ConsumeEnd \/ Stop
    BY <2>3 DEF ConsumeEnd, Stop, Consume, Abandon
  <2>4. CASE Construct
    BY <2>4, BusAssumption DEF Construct, Subscribe
  <2>5. CASE \E x \in Sessions : OtherEvent(x)
    BY <2>5 DEF OtherEvent, Publish
  <2>6. CASE \E s \in Subscribers \ {Awaiter} : OtherSubscriber(s)
    BY <2>6 DEF OtherSubscriber, Subscribe, Unsubscribe, Consume, Abandon, awVars
  <2> QED BY <2>1, <2>2, <2>3, <2>4, <2>5, <2>6 DEF AwNext
<1>3. ASSUME NEW i \in Ids
      PROVE  IdOK(i)'
  <2>1. CASE UNCHANGED awBusVars
    <3>1. QueueKept /\ Same(i) /\ IdOK(i)
      BY <2>1 DEF awBusVars, awVars, QueueKept, Same, AwInv
    <3> QED BY <3>1, SameKept
  <2> QED BY <2>1, CallerStep, FinishStep, OtherEventStep, StopStep, ConsumeEndStep,
             SubscribersStep, ConstructStep DEF AwNext
<1> QED BY <1>1, <1>2, <1>3 DEF AwInv

LEMMA AwaiterInit == AwInit => AwInv
<1> SUFFICES ASSUME AwInit PROVE AwInv
  OBVIOUS
<1>1. BusInv /\ log = <<>> /\ body = <<>> /\ opened[Awaiter] = "no"
  BY BusInit, AwaiterAssumption DEF AwInit, Init
<1>2. AwTypeOK
  <2>1. body \in Seq(Bodies) /\ Len(body) = Len(log)
    BY <1>1
  <2> QED BY <1>1, <2>1 DEF AwInit, AwTypeOK, BusInv, Statuses, Bodies
<1>3. ASSUME NEW i \in Ids
      PROVE  IdOK(i)
  <2>1. Places = {}
    BY AwaiterAssumption DEF AwInit, Init, Places
  <2> QED BY <2>1 DEF AwInit, IdOK, Registered
<1> QED BY <1>1, <1>2, <1>3 DEF AwInv, AwInit

LEMMA SoundFrom == AwInv => AwaiterSound
<1> SUFFICES ASSUME AwInv, NEW i \in Ids
             PROVE  /\ waiter[i] = "got" => \/ op[i] = "over" /\ result[i] = ending[i]
                                            \/ result[i] = "None" /\ stopped
                    /\ waiter[i] = "waiting" /\ op[i] = "over" =>
                         EndQueued(i) \/ Awaiter \notin members
                    /\ waiter[i] = "got" => ~Registered(i)
  BY DEF AwaiterSound, ResultIsItsOwn, StrandedOnlyByOverflow, CollectedIdIsFree
<1>1. IdOK(i) /\ AwTypeOK
  BY DEF AwInv
<1>2. EndQueued(i) <=> \E n \in Places : QueuedEnd(i, n)
  BY DEF EndQueued, QueuedEnd, Places
<1> QED BY <1>1, <1>2 DEF IdOK, Registered, AwTypeOK

LEMMA AwaiterAlways == AwSpec => []AwInv
BY AwaiterInit, AwStep, PTL DEF AwSpec, awBusVars

\* Every variable of the awaiter keeps its type.
THEOREM AwaiterTypes == AwSpec => []AwTypeOK
<1>1. AwInv => AwTypeOK
  BY DEF AwInv
<1> QED BY <1>1, AwaiterAlways, PTL

\* A wait is answered with the end of its own operation, is stranded only when
\* the bus has cut the awaiter off, and leaves its id free for a retry: for any
\* operations, callers that cancel, stop, submit again or never wait, and any
\* other subscribers of the bus.
THEOREM AwaiterIsSound == AwSpec => []AwaiterSound
BY SoundFrom, AwaiterAlways, PTL

\* With its awaiter on it, the bus still ends every stream it cuts.
THEOREM SentinelFitsAwaiter == AwSpec => []SentinelAlwaysFits
<1>1. AwInv => SentinelAlwaysFits
  BY SentinelFrom DEF AwInv
<1> QED BY <1>1, AwaiterAlways, PTL

\* With its awaiter on it, the bus is still an EventLog.
THEOREM AwaiterBusIsEventLog == AwSpec => ImplementsEventLog
<1>1. AwInit => Init
  BY DEF AwInit
<1>2. AwInv /\ [AwNext]_awBusVars => [Promise!Next]_Promise!logVars
  BY AwaiterBus, LogStep DEF AwInv, Promise!logVars
<1> QED BY <1>1, <1>2, LogInit, AwaiterAlways, PTL
       DEF AwSpec, awBusVars, ImplementsEventLog, Promise!Spec
=============================================================================
