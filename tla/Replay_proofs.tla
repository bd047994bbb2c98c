---------------------------- MODULE Replay_proofs ----------------------------
(* A proof about AttachReplay, as MCComponents checks it: whatever the        *)
(* session does while a client attaches, what the client is shown is whole    *)
(* (AttachWhole).                                                             *)
EXTENDS MCComponents, Integers, Sequences, Functions, NaturalsInduction, WellFoundedInduction, TLAPS

\* A step of the whole is a step of AttachReplay, or leaves it alone.
LEMMA AttachAlone ==
  ASSUME [Next]_vars PROVE which' = which /\ (which = "attach" => [Attach!Next]_attachVars)
<1>1. CASE UNCHANGED vars
  BY <1>1 DEF vars
<1>2. CASE Next
  BY <1>2 DEF Next, OthersRest, AboutHistory, AboutStore, AboutAttach, AboutTurn, AboutClient,
              AboutServer, AboutDrain, AboutDisplay, AboutFiles, AboutChildren
<1> QED BY <1>1, <1>2

-----------------------------------------------------------------------------
(* AttachReplay: what history, tape and queue hold, as sequences of texts.    *)

Piecewise == Seq(Seq(Nat))
Rising(t) == \A i, j \in 1 .. Len(t) : i < j => t[i] < t[j]
Pieces(texts) == UNION {Range(texts[i]) : i \in 1 .. Len(texts)}
Before(P, Q) == \A p \in P, q \in Q : p < q

\* Every text rises, and each ends before the next begins.
Ordered(texts) ==
  /\ \A i \in 1 .. Len(texts) : Rising(texts[i])
  /\ \A i, j \in 1 .. Len(texts) : i < j => Before(Range(texts[i]), Range(texts[j]))

LEMMA RangeOf ==
  ASSUME NEW t \in Seq(Nat)
  PROVE  /\ Range(t) \subseteq Nat
         /\ \A p : p \in Range(t) <=> \E i \in 1 .. Len(t) : t[i] = p
BY DEF Range

LEMMA PiecesOf ==
  ASSUME NEW L \in Piecewise
  PROVE  /\ Pieces(L) \subseteq Nat
         /\ \A i \in 1 .. Len(L) : Range(L[i]) \subseteq Pieces(L)
         /\ \A p : p \in Pieces(L) <=> \E i \in 1 .. Len(L) : p \in Range(L[i])
<1>1. \A i \in 1 .. Len(L) : L[i] \in Seq(Nat)
  BY DEF Piecewise
<1>2. \A i \in 1 .. Len(L) : Range(L[i]) \subseteq Nat
  BY <1>1, RangeOf
<1> QED BY <1>2 DEF Pieces

LEMMA TextsJoin ==
  ASSUME NEW s \in Seq(Nat), NEW t \in Seq(Nat)
  PROVE  /\ s \o t \in Seq(Nat) /\ Range(s \o t) = Range(s) \cup Range(t)
         /\ Rising(s) /\ Rising(t) /\ Before(Range(s), Range(t)) => Rising(s \o t)
<1> DEFINE r == s \o t
<1>1. /\ r \in Seq(Nat) /\ Len(s) \in Nat /\ Len(t) \in Nat /\ Len(r) = Len(s) + Len(t)
      /\ \A i \in 1 .. Len(s) : r[i] = s[i]
      /\ \A i \in 1 .. Len(t) : r[i + Len(s)] = t[i]
  OBVIOUS
<1>2. ASSUME NEW i \in 1 .. Len(r)
      PROVE  i \in 1 .. Len(s) \/ \E j \in 1 .. Len(t) : i = j + Len(s)
  <2>1. CASE i <= Len(s)
    BY <2>1, <1>1
  <2>2. CASE i > Len(s)
    <3>1. i - Len(s) \in 1 .. Len(t) /\ i = (i - Len(s)) + Len(s)
      BY <2>2, <1>1
    <3> QED BY <3>1
  <2> QED BY <2>1, <2>2, <1>1
<1>3. /\ \A i \in 1 .. Len(s) : i \in 1 .. Len(r)
      /\ \A i \in 1 .. Len(t) : i + Len(s) \in 1 .. Len(r)
  BY <1>1
<1> HIDE DEF r
<1>4. ASSUME NEW p PROVE p \in Range(r) <=> p \in Range(s) \cup Range(t)
  <2>1. ASSUME p \in Range(r) PROVE p \in Range(s) \cup Range(t)
    <3>1. PICK i \in 1 .. Len(r) : r[i] = p
      BY <1>1, <2>1, RangeOf
    <3>2. CASE i \in 1 .. Len(s)
      BY <1>1, <3>1, <3>2, RangeOf
    <3>3. ASSUME NEW j \in 1 .. Len(t), i = j + Len(s) PROVE p \in Range(t)
      BY <1>1, <3>1, <3>3, RangeOf
    <3> QED BY <1>2, <3>2, <3>3
  <2>2. ASSUME p \in Range(s) PROVE p \in Range(r)
    <3>1. PICK i \in 1 .. Len(s) : s[i] = p
      BY <2>2, RangeOf
    <3>2. i \in 1 .. Len(r) /\ r[i] = p
      BY <1>1, <1>3, <3>1
    <3> QED BY <1>1, <3>2, RangeOf
  <2>3. ASSUME p \in Range(t) PROVE p \in Range(r)
    <3>1. PICK i \in 1 .. Len(t) : t[i] = p
      BY <2>3, RangeOf
    <3>2. i + Len(s) \in 1 .. Len(r) /\ r[i + Len(s)] = p
      BY <1>1, <1>3, <3>1
    <3> QED BY <1>1, <3>2, RangeOf
  <2> QED BY <2>1, <2>2, <2>3
<1>5. ASSUME Rising(s), Rising(t), Before(Range(s), Range(t)) PROVE Rising(r)
  <2> SUFFICES ASSUME NEW i \in 1 .. Len(r), NEW j \in 1 .. Len(r), i < j PROVE r[i] < r[j]
    BY DEF Rising
  <2>1. CASE i \in 1 .. Len(s) /\ j \in 1 .. Len(s)
    BY <1>1, <1>5, <2>1 DEF Rising
  <2>2. ASSUME i \in 1 .. Len(s), NEW k \in 1 .. Len(t), j = k + Len(s) PROVE r[i] < r[j]
    <3>1. s[i] \in Range(s) /\ t[k] \in Range(t)
      BY <2>2, RangeOf
    <3> QED BY <1>1, <1>5, <2>2, <3>1 DEF Before
  <2>3. ASSUME NEW h \in 1 .. Len(t), i = h + Len(s), NEW k \in 1 .. Len(t), j = k + Len(s)
        PROVE  r[i] < r[j]
    <3>1. h < k
      BY <1>1, <2>3
    <3> QED BY <1>1, <1>5, <2>3, <3>1 DEF Rising
  <2>4. ASSUME NEW h \in 1 .. Len(t), i = h + Len(s) PROVE j \notin 1 .. Len(s)
    BY <1>1, <2>4
  <2> QED BY <1>2, <2>1, <2>2, <2>3, <2>4
<1> QED BY <1>1, <1>4, <1>5 DEF r

LEMMA TextsGrow ==
  ASSUME NEW L \in Piecewise, NEW t \in Seq(Nat)
  PROVE  /\ Append(L, t) \in Piecewise /\ Pieces(Append(L, t)) = Pieces(L) \cup Range(t)
         /\ Ordered(L) /\ Rising(t) /\ Before(Pieces(L), Range(t)) => Ordered(Append(L, t))
<1> DEFINE M == Append(L, t)
<1>1. /\ M \in Piecewise /\ Len(L) \in Nat /\ Len(M) = Len(L) + 1 /\ M[Len(L) + 1] = t
      /\ \A i \in 1 .. Len(L) : M[i] = L[i] /\ i \in 1 .. Len(M)
      /\ \A i \in 1 .. Len(M) : i \in 1 .. Len(L) \/ i = Len(L) + 1
  BY DEF Piecewise
<1> HIDE DEF M
<1>2. ASSUME NEW p PROVE p \in Pieces(M) <=> p \in Pieces(L) \cup Range(t)
  <2>1. Len(L) + 1 \in 1 .. Len(M)
    BY <1>1
  <2>2. p \in Pieces(M) <=> \E i \in 1 .. Len(M) : p \in Range(M[i])
    BY <1>1, PiecesOf
  <2>3. p \in Pieces(L) <=> \E i \in 1 .. Len(L) : p \in Range(L[i])
    BY PiecesOf
  <2> QED BY <1>1, <2>1, <2>2, <2>3
<1>3. ASSUME Ordered(L), Rising(t), Before(Pieces(L), Range(t)) PROVE Ordered(M)
  <2>1. \A i \in 1 .. Len(M) : Rising(M[i])
    BY <1>1, <1>3 DEF Ordered
  <2>2. ASSUME NEW i \in 1 .. Len(M), NEW j \in 1 .. Len(M), i < j
        PROVE  Before(Range(M[i]), Range(M[j]))
    <3>1. i \in 1 .. Len(L)
      BY <1>1, <2>2
    <3>2. CASE j \in 1 .. Len(L)
      BY <1>1, <1>3, <2>2, <3>1, <3>2 DEF Ordered
    <3>3. CASE j = Len(L) + 1
      <4>1. Range(L[i]) \subseteq Pieces(L)
        BY <3>1, PiecesOf
      <4> QED BY <1>1, <1>3, <3>1, <3>3, <4>1 DEF Before
    <3> QED BY <1>1, <3>2, <3>3
  <2> QED BY <2>1, <2>2 DEF Ordered
<1> QED BY <1>1, <1>2, <1>3 DEF M

LEMMA LastTextGrows ==
  ASSUME NEW L \in Piecewise, L # <<>>, NEW t \in Seq(Nat), NEW M,
         M = [L EXCEPT ![Len(L)] = L[Len(L)] \o t]
  PROVE  /\ M \in Piecewise /\ Pieces(M) = Pieces(L) \cup Range(t)
         /\ Ordered(L) /\ Rising(t) /\ Before(Pieces(L), Range(t)) => Ordered(M)
<1> DEFINE n == Len(L)
<1>1. n \in Nat /\ n \in 1 .. Len(L) /\ L[n] \in Seq(Nat) /\ \A i \in 1 .. Len(L) : L[i] \in Seq(Nat)
  BY DEF Piecewise
<1> DEFINE r == L[n] \o t
<1>2. /\ r \in Seq(Nat) /\ Range(r) = Range(L[n]) \cup Range(t)
      /\ Rising(L[n]) /\ Rising(t) /\ Before(Range(L[n]), Range(t)) => Rising(r)
  BY <1>1, TextsJoin
<1> HIDE DEF r
<1>3. /\ M \in Piecewise /\ Len(M) = n /\ M[n] = r
      /\ \A i \in 1 .. n : i # n => M[i] = L[i]
  BY <1>1, <1>2 DEF Piecewise, r
<1> HIDE DEF n
<1>4. ASSUME NEW p PROVE p \in Pieces(M) <=> p \in Pieces(L) \cup Range(t)
  <2>2. p \in Pieces(M) <=> \E i \in 1 .. n : p \in Range(M[i])
    BY <1>3, PiecesOf
  <2>3. p \in Pieces(L) <=> \E i \in 1 .. n : p \in Range(L[i])
    BY PiecesOf DEF n
  <2>4. n \in 1 .. n
    BY <1>1 DEF n
  <2> QED BY <1>2, <1>3, <2>2, <2>3, <2>4
<1>5. ASSUME Ordered(L), Rising(t), Before(Pieces(L), Range(t)) PROVE Ordered(M)
  <2>0. \A i \in 1 .. n : Range(L[i]) \subseteq Pieces(L)
    BY PiecesOf DEF n
  <2>1. \A i \in 1 .. n : Rising(M[i])
    <3>1. Rising(L[n]) /\ Before(Range(L[n]), Range(t))
      BY <1>1, <1>5, <2>0 DEF Ordered, Before, n
    <3> QED BY <1>2, <1>3, <1>5, <3>1 DEF Ordered, n
  <2>2. ASSUME NEW i \in 1 .. n, NEW j \in 1 .. n, i < j
        PROVE  Before(Range(M[i]), Range(M[j]))
    <3>1. M[i] = L[i] /\ Before(Range(L[i]), Range(L[j]))
      <4>1. i # n
        BY <1>1, <2>2
      <4>2. Before(Range(L[i]), Range(L[j]))
        BY <1>5, <2>2 DEF Ordered, n
      <4> QED BY <1>3, <4>1, <4>2
    <3>2. CASE j = n
      BY <1>2, <1>3, <1>5, <2>0, <3>1, <3>2 DEF Before
    <3>3. CASE j # n
      BY <1>3, <3>1, <3>3
    <3> QED BY <3>2, <3>3
  <2> QED BY <1>3, <2>1, <2>2 DEF Ordered
<1> QED BY <1>3, <1>4, <1>5

LEMMA TextsCut ==
  ASSUME NEW L \in Piecewise, NEW n \in Nat, n <= Len(L), NEW M, M = SubSeq(L, 1, n)
  PROVE  /\ M \in Piecewise /\ Len(M) = n /\ \A i \in 1 .. n : M[i] = L[i]
         /\ Pieces(M) \subseteq Pieces(L)
         /\ Ordered(L) => Ordered(M)
<1>1. M \in Piecewise /\ Len(M) = n /\ \A i \in 1 .. n : M[i] = L[i] /\ i \in 1 .. Len(L)
  BY DEF Piecewise
<1>2. ASSUME NEW p \in Pieces(M) PROVE p \in Pieces(L)
  <2>1. PICK i \in 1 .. n : p \in Range(M[i])
    BY <1>1, <1>2, PiecesOf
  <2> QED BY <1>1, <2>1, PiecesOf
<1> QED BY <1>1, <1>2 DEF Ordered

\* Whatever the numbers from a up to n inherit, they all have.
LEMMA Climbs ==
  ASSUME NEW S, NEW a \in Nat, NEW n \in Nat, a \in S,
         \A i \in a + 1 .. n : i - 1 \in S => i \in S
  PROVE  \A i \in a .. n : i \in S
<1> DEFINE T == {i \in a .. n : i \notin S}
<1> SUFFICES ASSUME T # {} PROVE FALSE
  OBVIOUS
<1>1. PICK k \in T : \A m \in Nat : <<m, k>> \in OpToRel(<, Nat) => m \notin T
  <2>1. T \subseteq Nat
    OBVIOUS
  <2> QED BY <2>1, WFMin, NatLessThanWellFounded
<1>2. k \in a .. n /\ k \notin S /\ k # a
  BY <1>1
<1>3. k - 1 \in Nat /\ <<k - 1, k>> \in OpToRel(<, Nat)
  BY <1>2 DEF OpToRel
<1>4. k - 1 \in a .. n /\ k \in a + 1 .. n
  BY <1>2
<1>5. k - 1 \notin T
  BY <1>1, <1>3
<1> QED BY <1>2, <1>4, <1>5

\* The recursive function of FlattenSeq.
Flattens(f, L, n) == f = [i \in 1 .. n |-> IF i = 1 THEN L[i] ELSE f[i - 1] \o L[i]]

LEMMA FlattensExist ==
  ASSUME NEW L, NEW n \in Nat PROVE \E f : Flattens(f, L, n)
<1> DEFINE S == {m \in Nat : \E f : Flattens(f, L, m)}
<1>1. 0 \in S
  <2> DEFINE z == [i \in 1 .. 0 |-> i]
  <2>1. Flattens(z, L, 0)
    BY DEF Flattens
  <2> QED BY <2>1
<1>2. ASSUME NEW m \in 1 .. n, m - 1 \in S PROVE m \in S
  <2>1. PICK f : Flattens(f, L, m - 1)
    BY <1>2
  <2>2. \A i \in 1 .. m - 1 : f[i] = IF i = 1 THEN L[i] ELSE f[i - 1] \o L[i]
    BY <2>1 DEF Flattens
  <2> DEFINE g == [i \in 1 .. m |-> IF i < m THEN f[i] ELSE IF m = 1 THEN L[m] ELSE f[m - 1] \o L[m]]
             k == [i \in 1 .. m |-> IF i = 1 THEN L[i] ELSE g[i - 1] \o L[i]]
  <2>3. ASSUME NEW i \in 1 .. m PROVE g[i] = IF i = 1 THEN L[i] ELSE g[i - 1] \o L[i]
    <3>1. CASE i = m
      <4>1. m # 1 => g[m - 1] = f[m - 1]
        OBVIOUS
      <4> QED BY <3>1, <4>1
    <3>2. CASE i < m
      <4>1. i \in 1 .. m - 1 /\ g[i] = f[i] /\ (i # 1 => g[i - 1] = f[i - 1])
        BY <3>2
      <4> QED BY <2>2, <4>1
    <3> QED BY <3>1, <3>2
  <2>4. g = k
    BY <2>3
  <2>5. Flattens(g, L, m)
    BY <2>4, Zenon DEF Flattens
  <2> QED BY <2>5
<1> HIDE DEF S
<1>3. \A m \in 0 .. n : m \in S
  BY <1>1, <1>2, Climbs
<1> QED BY <1>3 DEF S

\* What Text makes of a history in order: every piece of it, once and in order.
LEMMA TextInOrder ==
  ASSUME NEW L \in Piecewise, Ordered(L)
  PROVE  LET t == Attach!Text(L) IN t \in Seq(Nat) /\ Rising(t) /\ Range(t) = Pieces(L)
<1>0. Len(L) \in Nat /\ \A i \in 1 .. Len(L) : L[i] \in Seq(Nat) /\ Rising(L[i])
  BY DEF Piecewise, Ordered
<1>1. CASE Len(L) = 0
  <2>1. L = <<>>
    BY <1>1 DEF Piecewise
  <2>2. Attach!Text(L) = <<>>
    BY <1>1, <2>1, Zenon DEF Attach!Text, Attach!FlattenSeq
  <2>3. Rising(<<>>) /\ Range(<<>>) = {} /\ Pieces(<<>>) = {}
    <3>1. <<>> \in Seq(Nat) /\ Len(<<>>) = 0 /\ 1 .. 0 = {}
      OBVIOUS
    <3>2. Range(<<>>) = {}
      BY <3>1, RangeOf
    <3>3. <<>> \in Piecewise
      BY DEF Piecewise
    <3>4. Pieces(<<>>) = {}
      BY <3>1, <3>3, PiecesOf
    <3> QED BY <3>1, <3>2, <3>4 DEF Rising
  <2>4. <<>> \in Seq(Nat)
    OBVIOUS
  <2> QED BY <2>1, <2>2, <2>3, <2>4, Zenon
<1>2. CASE Len(L) # 0
  <2> DEFINE f == CHOOSE g : Flattens(g, L, Len(L))
             Upto(n) == UNION {Range(L[i]) : i \in 1 .. n}
             S == {n \in Nat : f[n] \in Seq(Nat) /\ Rising(f[n]) /\ Range(f[n]) = Upto(n)}
  <2>1. Flattens(f, L, Len(L))
    BY <1>0, FlattensExist
  <2>2. Attach!Text(L) = f[Len(L)]
    BY <1>2, Zenon DEF Attach!Text, Attach!FlattenSeq, Flattens
  <2> HIDE DEF f
  <2>3. \A i \in 1 .. Len(L) : f[i] = IF i = 1 THEN L[i] ELSE f[i - 1] \o L[i]
    BY <2>1 DEF Flattens
  <2>4. 1 \in S
    <3>1. Upto(1) = Range(L[1])
      <4>1. 1 .. 1 = {1}
        OBVIOUS
      <4> QED BY <4>1
    <3>2. 1 \in 1 .. Len(L)
      BY <1>0, <1>2
    <3>3. f[1] = L[1]
      BY <2>3, <3>2
    <3> HIDE DEF Upto
    <3> QED BY <1>0, <3>1, <3>2, <3>3
  <2>5. ASSUME NEW n \in 2 .. Len(L), n - 1 \in S PROVE n \in S
    <3>1. f[n] = f[n - 1] \o L[n]
      <4>1. n \in 1 .. Len(L) /\ n # 1
        BY <1>0
      <4> QED BY <2>3, <4>1
    <3>2. Before(Upto(n - 1), Range(L[n]))
      <4> SUFFICES ASSUME NEW p \in Upto(n - 1), NEW q \in Range(L[n]) PROVE p < q
        BY DEF Before
      <4>1. PICK i \in 1 .. n - 1 : p \in Range(L[i])
        OBVIOUS
      <4>2. i \in 1 .. Len(L) /\ n \in 1 .. Len(L) /\ i < n
        BY <1>0
      <4> QED BY <4>1, <4>2 DEF Ordered, Before
    <3>3. Upto(n) = Upto(n - 1) \cup Range(L[n])
      <4>1. \A i \in 1 .. n : i \in 1 .. n - 1 \/ i = n
        OBVIOUS
      <4>2. \A i \in 1 .. n - 1 : i \in 1 .. n
        OBVIOUS
      <4>3. n \in 1 .. n
        OBVIOUS
      <4> QED BY <4>1, <4>2, <4>3
    <3> HIDE DEF Upto
    <3>4. f[n - 1] \in Seq(Nat) /\ Rising(f[n - 1]) /\ Range(f[n - 1]) = Upto(n - 1)
      BY <2>5
    <3>5. L[n] \in Seq(Nat) /\ Rising(L[n]) /\ n \in Nat
      BY <1>0
    <3>6. f[n] \in Seq(Nat) /\ Range(f[n]) = Upto(n) /\ Rising(f[n])
      BY <3>1, <3>2, <3>3, <3>4, <3>5, TextsJoin
    <3> QED BY <3>5, <3>6
  <2>6. Upto(Len(L)) = Pieces(L)
    BY DEF Pieces
  <2> HIDE DEF S
  <2>7. Len(L) \in 1 .. Len(L)
    BY <1>0, <1>2
  <2>8. Len(L) \in S
    <3>0. \A i \in 1 + 1 .. Len(L) : i - 1 \in S => i \in S
      BY <1>0, <2>5
    <3>1. \A i \in 1 .. Len(L) : i \in S
      BY <1>0, <2>4, <3>0, Climbs
    <3> QED BY <2>7, <3>1
  <2> QED BY <2>2, <2>6, <2>8 DEF S
<1> QED BY <1>1, <1>2

-----------------------------------------------------------------------------
(* The events of the tape and of a subscription's queue.                      *)

TextsOf(E) == [i \in 1 .. Len(E) |-> E[i].text]
Shown(E) == Pieces(TextsOf(E))
Offs == {"finish", "interrupt"}

\* What a mirror that began as r says after the events E.
Mirror(r, E) ==
  \/ r = TRUE /\ \A i \in 1 .. Len(E) : E[i].kind \notin Offs
  \/ \E i \in 1 .. Len(E) : E[i].kind = "start" /\ \A j \in i .. Len(E) : E[j].kind \notin Offs

\* F is E with event e recorded, as an event of its own or merged into the last.
Gains(E, F, e) ==
  /\ F \in Seq(Attach!Envelope) /\ Shown(F) = Shown(E) \cup Range(e.text)
  /\ \/ ~Ordered(TextsOf(E)) \/ ~Rising(e.text) \/ ~Before(Shown(E), Range(e.text))
     \/ Ordered(TextsOf(F))
  /\ \A r : Mirror(r, F) <=> e.kind = "start" \/ (e.kind \notin Offs /\ Mirror(r, E))

LEMMA TextsTyped ==
  ASSUME NEW E \in Seq(Attach!Envelope)
  PROVE  /\ TextsOf(E) \in Piecewise /\ Len(TextsOf(E)) = Len(E) /\ Len(E) \in Nat
         /\ \A i \in 1 .. Len(E) : /\ E[i] \in Attach!Envelope /\ TextsOf(E)[i] = E[i].text
                                   /\ Range(E[i].text) \subseteq Shown(E)
         /\ Shown(E) \subseteq Nat
<1>1. Len(E) \in Nat /\ \A i \in 1 .. Len(E) : E[i] \in Attach!Envelope /\ E[i].text \in Seq(Nat)
  <2>1. Len(E) \in Nat /\ \A i \in 1 .. Len(E) : E[i] \in Attach!Envelope
    OBVIOUS
  <2>2. \A e \in Attach!Envelope : e.text \in Seq(Nat)
    BY DEF Attach!Envelope
  <2> QED BY <2>1, <2>2
<1>2. TextsOf(E) \in Piecewise /\ Len(TextsOf(E)) = Len(E) /\ \A i \in 1 .. Len(E) : TextsOf(E)[i] = E[i].text
  BY <1>1 DEF TextsOf, Piecewise
<1>3. /\ Shown(E) \subseteq Nat
      /\ \A i \in 1 .. Len(TextsOf(E)) : Range(TextsOf(E)[i]) \subseteq Shown(E)
  BY <1>2, PiecesOf DEF Shown
<1> QED BY <1>1, <1>2, <1>3

LEMMA AppendGains ==
  ASSUME NEW E \in Seq(Attach!Envelope), NEW e \in Attach!Envelope
  PROVE  Gains(E, Append(E, e), e) /\ Append(E, e)[Len(E) + 1] = e /\ Len(Append(E, e)) = Len(E) + 1
<1> DEFINE F == Append(E, e)
           n == Len(E)
<1>1. /\ F \in Seq(Attach!Envelope) /\ n \in Nat /\ Len(F) = n + 1 /\ F[n + 1] = e
      /\ \A i \in 1 .. n : F[i] = E[i]
  OBVIOUS
<1>2. e.text \in Seq(Nat)
  BY DEF Attach!Envelope
<1> HIDE DEF F, n
<1>3. TextsOf(F) = Append(TextsOf(E), e.text)
  <2> DEFINE A == Append(TextsOf(E), e.text)
  <2>1. A \in Piecewise /\ Len(A) = n + 1 /\ A[n + 1] = e.text /\ \A i \in 1 .. n : A[i] = TextsOf(E)[i]
    BY <1>2, TextsTyped DEF Piecewise, n
  <2> HIDE DEF A
  <2>2. TextsOf(F) \in Piecewise /\ Len(TextsOf(F)) = n + 1
    BY <1>1, TextsTyped
  <2>3. ASSUME NEW i \in 1 .. n + 1 PROVE TextsOf(F)[i] = A[i]
    <3>1. TextsOf(F)[i] = F[i].text
      BY <1>1, TextsTyped
    <3>2. CASE i = n + 1
      BY <1>1, <2>1, <3>1, <3>2
    <3>3. CASE i # n + 1
      <4>1. i \in 1 .. n
        BY <1>1, <3>3
      <4>2. TextsOf(E)[i] = E[i].text
        BY <4>1, TextsTyped DEF n
      <4> QED BY <1>1, <2>1, <3>1, <4>1, <4>2
    <3> QED BY <3>2, <3>3
  <2>4. TextsOf(F) = A
    BY <1>1, <2>1, <2>2, <2>3 DEF Piecewise
  <2> QED BY <2>4 DEF A
<1>4. /\ Shown(F) = Shown(E) \cup Range(e.text)
      /\ Ordered(TextsOf(E)) /\ Rising(e.text) /\ Before(Shown(E), Range(e.text)) => Ordered(TextsOf(F))
  BY <1>2, <1>3, TextsTyped, TextsGrow DEF Shown
<1>5. ASSUME NEW r PROVE Mirror(r, F) <=> e.kind = "start" \/ (e.kind \notin Offs /\ Mirror(r, E))
  <2>1. n + 1 \in 1 .. n + 1 /\ (\A i \in 1 .. n : i \in 1 .. n + 1) /\ n + 1 \in n + 1 .. n + 1
        /\ \A i \in 1 .. n + 1 : i \in 1 .. n \/ i = n + 1
    BY <1>1
  <2>2. ASSUME e.kind \in Offs PROVE ~Mirror(r, F) /\ e.kind # "start"
    <3>1. \A i \in 1 .. n + 1 : n + 1 \in i .. n + 1
      BY <1>1
    <3> QED BY <1>1, <2>1, <2>2, <3>1 DEF Mirror, Offs
  <2>3. ASSUME e.kind = "start" PROVE Mirror(r, F)
    <3>1. \A j \in n + 1 .. n + 1 : j = n + 1
      BY <1>1
    <3> QED BY <1>1, <2>1, <2>3, <3>1 DEF Mirror, Offs
  <2>4. ASSUME e.kind \notin Offs, Mirror(r, E) PROVE Mirror(r, F)
    <3>1. CASE r = TRUE /\ \A i \in 1 .. n : E[i].kind \notin Offs
      BY <1>1, <2>1, <2>4, <3>1 DEF Mirror
    <3>2. ASSUME NEW i \in 1 .. n, E[i].kind = "start", \A j \in i .. n : E[j].kind \notin Offs
          PROVE  Mirror(r, F)
      <4>1. \A j \in i .. n + 1 : (j \in i .. n /\ j \in 1 .. n) \/ j = n + 1
        BY <1>1
      <4>2. \A j \in i .. n + 1 : F[j].kind \notin Offs
        BY <1>1, <2>4, <3>2, <4>1
      <4> QED BY <1>1, <2>1, <3>2, <4>2 DEF Mirror
    <3> QED BY <2>4, <3>1, <3>2 DEF Mirror, n
  <2>5. ASSUME e.kind # "start", Mirror(r, F) PROVE Mirror(r, E)
    <3>1. CASE r = TRUE /\ \A i \in 1 .. n + 1 : F[i].kind \notin Offs
      BY <1>1, <2>1, <3>1 DEF Mirror, n
    <3>2. ASSUME NEW i \in 1 .. n + 1, F[i].kind = "start", \A j \in i .. n + 1 : F[j].kind \notin Offs
          PROVE  Mirror(r, E)
      <4>1. i \in 1 .. n
        BY <1>1, <2>1, <2>5, <3>2
      <4>2. \A j \in i .. n : j \in i .. n + 1 /\ j \in 1 .. n
        BY <1>1, <4>1
      <4>3. \A j \in i .. n : E[j].kind \notin Offs
        BY <1>1, <3>2, <4>2
      <4>4. E[i].kind = "start"
        BY <1>1, <3>2, <4>1
      <4> QED BY <4>1, <4>3, <4>4 DEF Mirror, n
    <3> QED BY <1>1, <2>5, <3>1, <3>2 DEF Mirror
  <2> QED BY <2>2, <2>3, <2>4, <2>5
<1> QED BY <1>1, <1>4, <1>5 DEF Gains, F, n

\* The tape after an event is recorded; only deltas merge.
LEMMA RecordedGains ==
  ASSUME NEW t \in Attach!Tapes, NEW e \in Attach!Envelope
  PROVE  LET u == Attach!Recorded(t, e)
         IN /\ u \in Attach!Tapes /\ u.base = t.base /\ u.max = e.seq
            /\ Gains(t.events, u.events, e)
            /\ u.events # <<>> /\ (e.kind # "delta" => u.events[Len(u.events)].kind = e.kind)
<1> DEFINE E == t.events
           n == Len(E)
           u == Attach!Recorded(t, e)
           merges == n > 0 /\ e.kind = "delta" /\ E[n].kind = "delta"
<1>1. t.base \in Nat /\ E \in Seq(Attach!Envelope) /\ n \in Nat /\ e.seq \in Nat /\ e.text \in Seq(Nat)
  BY DEF Attach!Tapes, Attach!Envelope
<1>2. CASE ~merges
  <2>1. u = [base |-> t.base, max |-> e.seq, events |-> Append(E, e)]
    BY <1>2, Zenon DEF Attach!Recorded
  <2>2. Gains(E, Append(E, e), e) /\ Append(E, e)[n + 1] = e /\ Len(Append(E, e)) = n + 1
    BY <1>1, AppendGains
  <2>3. Append(E, e) \in Seq(Attach!Envelope) /\ Append(E, e) # <<>>
    <3>1. E \in Seq(Attach!Envelope) /\ Len(E) \in Nat
      BY <1>1
    <3> HIDE DEF E
    <3> QED BY <3>1
  <2> DEFINE F == Append(E, e)
  <2> HIDE DEF E, F
  <2>4. u.base = t.base /\ u.max = e.seq /\ u.events = F
    BY <2>1 DEF F
  <2>5. u \in Attach!Tapes
    BY <1>1, <2>1, <2>3 DEF Attach!Tapes, F
  <2> QED BY <1>1, <2>2, <2>3, <2>4, <2>5 DEF F, E
<1>3. CASE merges
  <2> DEFINE m == Attach!Merged(E[n], e)
             x == [E EXCEPT ![n] = Attach!Merged(E[n], e)]
  <2>0. n \in 1 .. n /\ E[n] \in Attach!Envelope /\ E[n].text \in Seq(Nat) /\ E[n].kind = "delta"
    <3>1. n \in 1 .. n /\ E[n] \in Attach!Envelope
      BY <1>1, <1>3, TextsTyped
    <3>2. \A d \in Attach!Envelope : d.text \in Seq(Nat)
      BY DEF Attach!Envelope
    <3> QED BY <1>3, <3>1, <3>2
  <2>1. u = [base |-> t.base, max |-> e.seq, events |-> x]
    BY <1>3, Zenon DEF Attach!Recorded
  <2>2. m \in Attach!Envelope /\ m.text = E[n].text \o e.text /\ m.kind = "delta"
    <3> DEFINE w == E[n].text \o e.text
    <3>1. w \in Seq(Nat)
      BY <1>1, <2>0
    <3>2. m = [e EXCEPT !.text = w]
      BY DEF Attach!Merged
    <3> HIDE DEF w
    <3>3. m = [kind |-> e.kind, seq |-> e.seq, text |-> w]
      BY <3>1, <3>2 DEF Attach!Envelope
    <3>4. e.kind \in Attach!Kinds /\ e.seq \in Nat
      BY DEF Attach!Envelope
    <3> HIDE DEF m
    <3>5. m \in Attach!Envelope
      BY <3>1, <3>3, <3>4 DEF Attach!Envelope
    <3>6. m.text = w /\ m.kind = e.kind
      BY <3>3
    <3> QED BY <1>3, <3>5, <3>6 DEF w
  <2> HIDE DEF m
  <2>3. x \in Seq(Attach!Envelope) /\ Len(x) = n /\ x[n] = m /\ \A i \in 1 .. n : i # n => x[i] = E[i]
    BY <1>1, <2>0, <2>2 DEF m
  <2> HIDE DEF x, E, n
  <2>4. TextsOf(x) = [TextsOf(E) EXCEPT ![Len(TextsOf(E))] = TextsOf(E)[Len(TextsOf(E))] \o e.text]
    <3> DEFINE T == TextsOf(E)
               w == T[n] \o e.text
               A == [T EXCEPT ![n] = w]
    <3>1. T \in Piecewise /\ Len(T) = n /\ T[n] = E[n].text /\ \A i \in 1 .. n : T[i] = E[i].text
      BY <1>1, <2>0, TextsTyped DEF n
    <3>2. TextsOf(x) \in Piecewise /\ Len(TextsOf(x)) = n /\ \A i \in 1 .. n : TextsOf(x)[i] = x[i].text
      BY <1>1, <2>3, TextsTyped
    <3>3. w = m.text
      BY <2>2, <3>1
    <3> HIDE DEF T, w
    <3>4. DOMAIN T = 1 .. n /\ DOMAIN TextsOf(x) = 1 .. n
      BY <1>1, <3>1, <3>2 DEF Piecewise
    <3>5. ASSUME NEW i \in 1 .. n PROVE TextsOf(x)[i] = IF i = n THEN w ELSE T[i]
      BY <2>0, <2>3, <3>1, <3>2, <3>3, <3>5
    <3>6. TextsOf(x) = [i \in 1 .. n |-> IF i = n THEN w ELSE T[i]]
      <4>1. TextsOf(x) = [i \in 1 .. n |-> TextsOf(x)[i]]
        BY <3>2, <3>4 DEF Piecewise
      <4> QED BY <3>5, <4>1
    <3>7. A = [i \in 1 .. n |-> IF i = n THEN w ELSE T[i]]
      BY <3>1, <3>4 DEF Piecewise
    <3>8. TextsOf(x) = A
      BY <3>6, <3>7
    <3> QED BY <3>1, <3>8 DEF A, T, w
  <2>5. TextsOf(E) \in Piecewise /\ TextsOf(E) # <<>>
    BY <1>1, <1>3, TextsTyped DEF n
  <2>6. /\ Shown(x) = Shown(E) \cup Range(e.text)
        /\ Ordered(TextsOf(E)) /\ Rising(e.text) /\ Before(Shown(E), Range(e.text)) => Ordered(TextsOf(x))
    BY <1>1, <2>4, <2>5, LastTextGrows DEF Shown
  <2>7. \A i \in 1 .. n : x[i].kind = E[i].kind
    BY <2>0, <2>2, <2>3
  <2>8. ASSUME NEW r PROVE Mirror(r, x) <=> Mirror(r, E)
    <3>1. \A i \in 1 .. n : \A j \in i .. n : j \in 1 .. n
      BY <1>1
    <3> QED BY <2>3, <2>7, <3>1, ZenonT(60) DEF Mirror, n
  <2>9. Gains(E, x, e)
    BY <1>3, <2>3, <2>6, <2>8 DEF Gains, Offs
  <2>10. u.base = t.base /\ u.max = e.seq /\ u.events = x
    BY <2>1
  <2>11. u \in Attach!Tapes
    BY <1>1, <2>1, <2>3 DEF Attach!Tapes
  <2>12. x # <<>>
    BY <1>3, <2>3 DEF n
  <2> HIDE DEF u
  <2> QED BY <1>3, <2>9, <2>10, <2>11, <2>12 DEF u, E
<1> QED BY <1>2, <1>3

-----------------------------------------------------------------------------
(* What a client shows.                                                       *)

Stations == {"off", "info", "welcome", "live"}
ClientRec == [at : Stations, base : Nat, cut : Seq(Attach!Envelope), max : Nat,
              queue : Seq(Attach!Envelope), view : Seq(Nat), running : BOOLEAN]

LEMMA ShowsOne ==
  ASSUME NEW c \in ClientRec, NEW e \in Attach!Envelope
  PROVE  LET d == Attach!Shows(c, e)
         IN /\ d \in ClientRec
            /\ d.at = c.at /\ d.base = c.base /\ d.cut = c.cut /\ d.max = c.max /\ d.queue = c.queue
            /\ d.view = c.view \o e.text
            /\ d.running = TRUE <=> e.kind = "start" \/ (e.kind \notin Offs /\ c.running = TRUE)
<1> DEFINE w == c.view \o e.text
           r == IF e.kind = "start" THEN TRUE
                ELSE IF e.kind \in {"finish", "interrupt"} THEN FALSE ELSE c.running
           d == Attach!Shows(c, e)
<1>1. c.view \in Seq(Nat) /\ c.running \in BOOLEAN
  BY DEF ClientRec
<1>2. e.text \in Seq(Nat)
  BY DEF Attach!Envelope
<1>3. w \in Seq(Nat) /\ r \in BOOLEAN
  <2>1. w \in Seq(Nat)
    BY <1>1, <1>2
  <2>2. r \in BOOLEAN
    BY <1>1
  <2> QED BY <2>1, <2>2
<1>4. d = [c EXCEPT !.view = w, !.running = r]
  BY Zenon DEF Attach!Shows
<1>5. r = TRUE <=> e.kind = "start" \/ (e.kind \notin Offs /\ c.running = TRUE)
  BY <1>1 DEF Offs
<1> HIDE DEF w, r
<1>6. d = [at |-> c.at, base |-> c.base, cut |-> c.cut, max |-> c.max, queue |-> c.queue, view |-> w,
           running |-> r]
  BY <1>3, <1>4 DEF ClientRec
<1> HIDE DEF d
<1>7. d \in ClientRec
  <2>1. /\ c.at \in Stations /\ c.base \in Nat /\ c.cut \in Seq(Attach!Envelope)
        /\ c.max \in Nat /\ c.queue \in Seq(Attach!Envelope)
    BY DEF ClientRec
  <2> QED BY <1>3, <1>6, <2>1 DEF ClientRec
<1>8. /\ d.at = c.at /\ d.base = c.base /\ d.cut = c.cut /\ d.max = c.max /\ d.queue = c.queue
      /\ d.view = w /\ d.running = r
  BY <1>6
<1> QED BY <1>5, <1>7, <1>8, Zenon DEF d, w

\* A client takes an event as its attachment says.
LEMMA ReceivesOne ==
  ASSUME NEW c \in ClientRec, NEW e \in Attach!Envelope
  PROVE  LET d == Attach!Receives(c, e)
         IN /\ d \in ClientRec /\ d.at = c.at /\ d.base = c.base /\ d.cut = c.cut /\ d.max = c.max
            /\ c.at \in {"off", "info"} => d = c
            /\ c.at = "welcome" => d.queue = Append(c.queue, e) /\ d.view = c.view /\ d.running = c.running
            /\ c.at = "live" /\ e.seq > c.max => d = Attach!Shows(c, e)
<1> DEFINE d == Attach!Receives(c, e)
<1>1. CASE c.at = "welcome"
  <2> DEFINE q == Append(c.queue, e)
  <2>1. c.queue \in Seq(Attach!Envelope)
    BY DEF ClientRec
  <2>2. q \in Seq(Attach!Envelope)
    BY <2>1
  <2>3. d = [c EXCEPT !.queue = q]
    BY <1>1, Zenon DEF Attach!Receives
  <2> HIDE DEF q
  <2>4. d = [at |-> c.at, base |-> c.base, cut |-> c.cut, max |-> c.max, queue |-> q, view |-> c.view,
             running |-> c.running]
    BY <2>2, <2>3 DEF ClientRec
  <2> HIDE DEF d
  <2>5. d \in ClientRec
    <3>1. /\ c.at \in Stations /\ c.base \in Nat /\ c.cut \in Seq(Attach!Envelope)
          /\ c.max \in Nat /\ c.view \in Seq(Nat) /\ c.running \in BOOLEAN
      BY DEF ClientRec
    <3> QED BY <2>2, <2>4, <3>1 DEF ClientRec
  <2> QED BY <1>1, <2>4, <2>5 DEF d, q
<1>2. CASE c.at = "live" /\ e.seq > c.max
  <2>1. d = Attach!Shows(c, e)
    BY <1>2, Zenon DEF Attach!Receives
  <2>2. c.at # "welcome" /\ c.at \notin {"off", "info"}
    BY <1>2
  <2>3. /\ Attach!Shows(c, e) \in ClientRec /\ Attach!Shows(c, e).at = c.at
        /\ Attach!Shows(c, e).base = c.base /\ Attach!Shows(c, e).cut = c.cut
        /\ Attach!Shows(c, e).max = c.max
    BY ShowsOne
  <2> QED BY <2>1, <2>2, <2>3, Zenon
<1>3. CASE c.at # "welcome" /\ ~(c.at = "live" /\ e.seq > c.max)
  <2>1. d = c
    BY <1>3, Zenon DEF Attach!Receives
  <2> QED BY <1>3, <2>1
<1> QED BY <1>1, <1>2, <1>3

\* The recursive function of a replay.
Walk(i, c, e, n) == IF i <= n THEN Attach!Shows(c, e) ELSE Attach!Receives(c, e)
Walks(f, c, E, m, n) == f = [i \in 0 .. n |-> IF i = 0 THEN c ELSE Walk(i, f[i - 1], E[i], m)]

LEMMA WalksExist ==
  ASSUME NEW c, NEW E, NEW m, NEW n \in Nat PROVE \E f : Walks(f, c, E, m, n)
<1> DEFINE S == {k \in Nat : \E f : Walks(f, c, E, m, k)}
<1>1. 0 \in S
  <2> DEFINE z == [i \in 0 .. 0 |-> c]
  <2>1. Walks(z, c, E, m, 0)
    BY DEF Walks
  <2> QED BY <2>1
<1>2. ASSUME NEW k \in 0 + 1 .. n, k - 1 \in S PROVE k \in S
  <2>1. PICK f : Walks(f, c, E, m, k - 1)
    BY <1>2
  <2>2. \A i \in 0 .. k - 1 : f[i] = IF i = 0 THEN c ELSE Walk(i, f[i - 1], E[i], m)
    BY <2>1 DEF Walks
  <2> DEFINE g == [i \in 0 .. k |-> IF i < k THEN f[i] ELSE Walk(k, f[k - 1], E[k], m)]
             h == [i \in 0 .. k |-> IF i = 0 THEN c ELSE Walk(i, g[i - 1], E[i], m)]
  <2>3. ASSUME NEW i \in 0 .. k PROVE g[i] = IF i = 0 THEN c ELSE Walk(i, g[i - 1], E[i], m)
    <3>1. CASE i = k
      <4>1. g[k - 1] = f[k - 1] /\ k # 0
        OBVIOUS
      <4> QED BY <3>1, <4>1
    <3>2. CASE i < k
      <4>1. i \in 0 .. k - 1 /\ g[i] = f[i] /\ (i # 0 => g[i - 1] = f[i - 1])
        BY <3>2
      <4> QED BY <2>2, <4>1
    <3> QED BY <3>1, <3>2
  <2>4. g = h
    BY <2>3
  <2>5. Walks(g, c, E, m, k)
    BY <2>4, Zenon DEF Walks
  <2> QED BY <2>5
<1> HIDE DEF S
<1>3. \A k \in 0 .. n : k \in S
  BY <1>1, <1>2, Climbs
<1> QED BY <1>3 DEF S

\* A client that is live, and so far has shown the texts before E and E, once
\* and in order if they are sound; its mirror began as r.
HasShown(c, max, P, r, E, sound) ==
  /\ c \in ClientRec /\ c.at = "live" /\ c.max = max
  /\ sound => Rising(c.view) /\ Range(c.view) = P \cup Shown(E)
  /\ c.running = TRUE <=> Mirror(r, E)

\* One more event, whether it is on the cut or newer.
LEMMA ShowsNext ==
  ASSUME NEW max, NEW P, NEW r, NEW c, NEW E \in Seq(Attach!Envelope), NEW sound, HasShown(c, max, P, r, E, sound),
         NEW e \in Attach!Envelope, sound => Rising(e.text) /\ Before(P \cup Shown(E), Range(e.text))
  PROVE  HasShown(Attach!Shows(c, e), max, P, r, Append(E, e), sound)
<1> DEFINE d == Attach!Shows(c, e)
           F == Append(E, e)
<1>1. /\ d \in ClientRec /\ d.at = c.at /\ d.max = c.max /\ d.view = c.view \o e.text
      /\ d.running = TRUE <=> e.kind = "start" \/ (e.kind \notin Offs /\ c.running = TRUE)
  BY ShowsOne DEF HasShown
<1>2. Gains(E, F, e)
  BY AppendGains
<1>3. c.view \in Seq(Nat) /\ e.text \in Seq(Nat)
  BY DEF HasShown, ClientRec, Attach!Envelope
<1>4. sound => Rising(d.view) /\ Range(d.view) = Range(c.view) \cup Range(e.text)
  BY <1>1, <1>3, TextsJoin DEF HasShown
<1> HIDE DEF d, F
<1> QED BY <1>1, <1>2, <1>4 DEF HasShown, Gains, d, F

\* The end of a walk over E, whose first m events are the cut's and whose others are newer.
LEMMA WalkShows ==
  ASSUME NEW max, NEW P, NEW r, NEW c, NEW sound, HasShown(c, max, P, r, <<>>, sound), P \subseteq Nat,
         NEW E \in Seq(Attach!Envelope), sound => Ordered(TextsOf(E)) /\ Before(P, Shown(E)),
         NEW m \in Nat, \A i \in 1 .. Len(E) : i > m => E[i].seq > max,
         NEW f, Walks(f, c, E, m, Len(E))
  PROVE  HasShown(f[Len(E)], max, P, r, E, sound)
<1> DEFINE n == Len(E)
           S == {i \in Nat : HasShown(f[i], max, P, r, SubSeq(E, 1, i), sound)}
<1>1. /\ n \in Nat /\ \A i \in 1 .. n : E[i] \in Attach!Envelope
      /\ \A i \in 0 .. n : f[i] = IF i = 0 THEN c ELSE Walk(i, f[i - 1], E[i], m)
  BY DEF Walks
<1>2. 0 \in S
  <2>1. f[0] = c /\ SubSeq(E, 1, 0) = <<>>
    BY <1>1
  <2> QED BY <2>1
<1>3. ASSUME NEW i \in 0 + 1 .. n, i - 1 \in S PROVE i \in S
  <2> DEFINE e == E[i]
             d == f[i - 1]
             F == SubSeq(E, 1, i - 1)
  <2>1. i \in 1 .. n /\ e \in Attach!Envelope /\ i \in Nat /\ F \in Seq(Attach!Envelope) /\ Append(F, e) = SubSeq(E, 1, i)
    BY <1>1
  <2>2. HasShown(d, max, P, r, F, sound)
    BY <1>3
  <2>3. ASSUME sound PROVE Rising(e.text)
    BY <2>1, <2>3, TextsTyped DEF Ordered
  <2>4. ASSUME sound PROVE Before(P \cup Shown(F), Range(e.text))
    <3>1. Before(P, Range(e.text))
      BY <2>1, <2>4, TextsTyped DEF Before
    <3>2. ASSUME NEW p \in Shown(F), NEW q \in Range(e.text) PROVE p < q
      <4>1. TextsOf(F) \in Piecewise /\ Len(TextsOf(F)) = Len(F) /\ Len(F) = i - 1
        <5>1. Len(F) = i - 1
          BY <1>1, <2>1
        <5> HIDE DEF F
        <5> QED BY <2>1, <5>1, TextsTyped
      <4>2. PICK j \in 1 .. i - 1 : p \in Range(TextsOf(F)[j])
        BY <3>2, <4>1, PiecesOf DEF Shown
      <4>3. F[j] = E[j] /\ j \in 1 .. Len(E) /\ j \in 1 .. Len(F) /\ j < i
        BY <1>1, <4>1, <4>2
      <4>4. TextsOf(F)[j] = TextsOf(E)[j] /\ TextsOf(E)[i] = e.text
        BY <2>1, <4>3, TextsTyped
      <4>5. Before(Range(TextsOf(E)[j]), Range(TextsOf(E)[i]))
        BY <2>1, <2>4, <4>3, TextsTyped DEF Ordered
      <4> QED BY <3>2, <4>2, <4>4, <4>5 DEF Before
    <3> QED BY <3>1, <3>2 DEF Before
  <2>5. HasShown(Attach!Shows(d, e), max, P, r, Append(F, e), sound)
    BY <2>1, <2>2, <2>3, <2>4, ShowsNext
  <2>6. f[i] = Attach!Shows(d, e)
    <3>1. f[i] = Walk(i, d, e, m)
      BY <1>1, <2>1
    <3>2. CASE i <= m
      BY <3>1, <3>2 DEF Walk
    <3>3. CASE ~(i <= m)
      <4>1. e.seq > max
        BY <2>1, <3>3
      <4>2. d \in ClientRec /\ d.at = "live" /\ d.max = max
        BY <2>2 DEF HasShown
      <4>3. Attach!Receives(d, e) = Attach!Shows(d, e)
        BY <2>1, <4>1, <4>2, ReceivesOne
      <4> QED BY <3>1, <3>3, <4>3 DEF Walk
    <3> QED BY <3>2, <3>3
  <2> QED BY <2>1, <2>5, <2>6
<1>4. n \in S
  <2> HIDE DEF S, n
  <2>1. \A i \in 0 .. n : i \in S
    BY <1>1, <1>2, <1>3, Climbs
  <2> QED BY <1>1, <2>1
<1>5. SubSeq(E, 1, n) = E
  OBVIOUS
<1> QED BY <1>4, <1>5

LEMMA DetachedTyped ==
  /\ Attach!Detached \in ClientRec /\ Attach!Detached.at = "off" /\ Attach!Detached.base = 0
  /\ Attach!Detached.cut = <<>> /\ Attach!Detached.queue = <<>>
<1>1. <<>> \in Seq(Attach!Envelope) /\ <<>> \in Seq(Nat) /\ "off" \in Stations
  BY DEF Stations
<1> QED BY <1>1 DEF Attach!Detached, ClientRec

\* What a replay makes of an attached client.
LEMMA ReplayShows ==
  ASSUME NEW c \in Clients, client \in [Clients -> ClientRec], NEW m \in ClientRec, m = client[c],
         m.at = "welcome", NEW w \in Seq(Nat), w = Attach!ReplayedHistory(c), Rising(w), NEW sound,
         sound => Ordered(TextsOf(m.cut \o m.queue)) /\ Before(Range(w), Shown(m.cut \o m.queue)),
         \A i \in 1 .. Len(m.queue) : m.queue[i].seq > m.max,
         Attach!Replay(c)
  PROVE  \E d : /\ client' = [client EXCEPT ![c] = d]
                /\ HasShown(d, m.max, Range(w), m.running, m.cut \o m.queue, sound)
<1> DEFINE E == m.cut \o m.queue
           start == [Attach!Detached EXCEPT !.at = "live", !.max = m.max, !.running = m.running,
                                            !.view = Attach!ReplayedHistory(c)]
           f == CHOOSE g : Walks(g, start, E, Len(m.cut), Len(E))
<1>1. /\ m.max \in Nat /\ m.running \in BOOLEAN /\ m.cut \in Seq(Attach!Envelope) /\ m.queue \in Seq(Attach!Envelope)
  BY DEF ClientRec
<1>2. client' = [client EXCEPT ![c] = f[Len(E)]]
  BY Zenon DEF Attach!Replay, Walks, Walk
<1>3. /\ E \in Seq(Attach!Envelope) /\ Len(E) \in Nat /\ Len(m.cut) \in Nat
      /\ \A i \in 1 .. Len(E) : i > Len(m.cut) => E[i].seq > m.max
  <2> DEFINE u == m.cut
             v == m.queue
  <2>1. u \in Seq(Attach!Envelope) /\ v \in Seq(Attach!Envelope) /\ E = u \o v
    BY <1>1
  <2>2. \A i \in 1 .. Len(v) : v[i].seq > m.max
    OBVIOUS
  <2> HIDE DEF u, v, E
  <2>3. /\ Len(u) \in Nat /\ Len(v) \in Nat /\ Len(E) = Len(u) + Len(v) /\ E \in Seq(Attach!Envelope)
        /\ \A i \in 1 .. Len(v) : E[i + Len(u)] = v[i]
    BY <2>1
  <2>4. ASSUME NEW i \in 1 .. Len(E), i > Len(u) PROVE E[i].seq > m.max
    <3>1. i - Len(u) \in 1 .. Len(v) /\ i = (i - Len(u)) + Len(u)
      BY <2>3, <2>4
    <3>2. E[i] = v[i - Len(u)]
      BY <2>3, <3>1
    <3> QED BY <2>2, <3>1, <3>2
  <2> QED BY <2>3, <2>4 DEF u
<1>4. HasShown(start, m.max, Range(w), m.running, <<>>, sound)
  <2> DEFINE b == m.running
             x == m.max
  <2>1. start = [Attach!Detached EXCEPT !.at = "live", !.max = x, !.running = b, !.view = w]
    BY Zenon
  <2>2. b \in BOOLEAN /\ x \in Nat
    BY <1>1
  <2> HIDE DEF b, x
  <2>3. start \in ClientRec /\ start.at = "live" /\ start.max = x /\ start.view = w /\ start.running = b
    <3> DEFINE D == Attach!Detached
               a == "live"
               d == [D EXCEPT !.at = a, !.max = x, !.running = b, !.view = w]
    <3>1. a \in Stations /\ a = "live"
      BY DEF Stations
    <3>2. start = d
      BY <2>1, Zenon
    <3>3. D \in ClientRec
      BY DetachedTyped
    <3> HIDE DEF a, D
    <3>4. d \in ClientRec /\ d.at = a /\ d.max = x /\ d.view = w /\ d.running = b
      BY <2>2, <3>1, <3>3 DEF ClientRec
    <3> HIDE DEF d
    <3> QED BY <3>1, <3>2, <3>4
  <2> HIDE DEF start
  <2>4. <<>> \in Seq(Attach!Envelope) /\ Len(<<>>) = 0 /\ TextsOf(<<>>) = <<>> /\ <<>> \in Piecewise
    BY DEF TextsOf, Piecewise
  <2>5. Shown(<<>>) = {}
    BY <2>4, PiecesOf DEF Shown
  <2>6. Mirror(b, <<>>) <=> b = TRUE
    BY <2>4 DEF Mirror
  <2> QED BY <2>3, <2>5, <2>6 DEF HasShown, b, x
<1>5. Walks(f, start, E, Len(m.cut), Len(E))
  BY <1>3, WalksExist
<1> HIDE DEF f, start, E
<1>6. HasShown(f[Len(E)], m.max, Range(w), m.running, E, sound)
  <2>1. Range(w) \subseteq Nat
    BY RangeOf
  <2>2. sound => Ordered(TextsOf(E)) /\ Before(Range(w), Shown(E))
    BY DEF E
  <2> QED BY <1>3, <1>4, <1>5, <2>1, <2>2, WalkShows
<1> QED BY <1>2, <1>6 DEF E

-----------------------------------------------------------------------------
(* The inductive invariant of AttachReplay, over the history I, the text x     *)
(* being streamed, the last piece n said, the last event k and the turn g.     *)

InHand(I, x, n) ==
  /\ I \in Piecewise /\ x \in Seq(Nat) /\ n \in Nat
  /\ Ordered(I) /\ Rising(x) /\ Before(Pieces(I), Range(x))
  /\ \A p \in Pieces(I) \cup Range(x) : p <= n

\* The first b entries of I and the texts of E are all there is, once and in order.
Whole(b, E, I, x, n) ==
  /\ b <= Len(I) /\ Ordered(TextsOf(E)) /\ \A p \in Shown(E) : p <= n
  /\ \A i \in 1 .. b : Before(Range(I[i]), Shown(E))
  /\ \A i \in b + 1 .. Len(I) : Range(I[i]) \subseteq Shown(E)
  /\ Range(x) \subseteq Shown(E)

\* A view that has it all.
Views(v, I, x, n) ==
  /\ Rising(v) /\ \A p \in Range(v) : p <= n
  /\ Pieces(I) \cup Range(x) \subseteq Range(v)

\* A mirror r fits the turn g.
Agrees(g, r) == /\ g = "running" => r
                /\ g \in {"stopping", "ending", "idle", "echoed"} => ~r

\* So do the mirrors that have only the tape to go by, whatever they began as.
Tuned(g, p, q) == /\ g = "running" => p
                  /\ g \in {"stopping", "ending"} => ~q
                  /\ g \in {"idle", "echoed"} => ~p

\* The tape, unless it is torn.
TapeOK(t, I, x, n, k, g, tears) ==
  /\ t \in Attach!Tapes /\ t.max <= k
  /\ ~tears => Whole(t.base, t.events, I, x, n)
  /\ Tuned(g, Mirror(FALSE, t.events), Mirror(TRUE, t.events))

\* A client, unless what it shows is spoilt; its mirror, unless it was led astray.
ClientOK(m, t, I, x, n, k, g, spoils, misled) ==
  /\ m.at # "off" => t \in Attach!Tapes
  /\ m.at \in {"off", "info"} => m.queue = <<>>
  /\ m.at = "info" /\ ~misled => Agrees(g, Mirror(m.running, t.events))
  /\ m.at = "welcome" =>
       /\ m.max <= k /\ \A i \in 1 .. Len(m.queue) : m.queue[i].seq > m.max
       /\ ~spoils => Whole(m.base, m.cut \o m.queue, I, x, n)
       /\ ~misled => Agrees(g, Mirror(m.running, m.cut \o m.queue))
  /\ m.at = "live" =>
       /\ m.max <= k
       /\ ~spoils => Views(m.view, I, x, n)
       /\ ~misled => Agrees(g, m.running = TRUE)

AttachTyped ==
  /\ seqNo \in Nat /\ tape \in Attach!Tapes \cup {NoTape} /\ client \in [Clients -> ClientRec]
SessionInv ==
  /\ InHand(items, stream, said)
  /\ turn \in {"idle", "stopping", "ending"} => stream = <<>>
  /\ turn # "idle" => resident
  /\ resident => tape # NoTape
TapeInv ==
  IF tape = NoTape THEN turn = "idle"
  ELSE TapeOK(tape, items, stream, said, seqNo, turn, torn)
ClientsInv ==
  \A c \in Clients :
    ClientOK(client[c], tape, items, stream, said, seqNo, turn, c \in spoilt, c \in blind)

AttachInv == AttachTyped /\ SessionInv /\ TapeInv /\ ClientsInv

\* What a session does while it publishes e leaves what it has in a whole.
CarriesText(e, B, I, x, n, J, y, o) ==
  /\ \A b \in Nat, E, F \in Seq(Attach!Envelope) :
       b <= B /\ Whole(b, E, I, x, n) /\ Gains(E, F, e) => Whole(b, F, J, y, o)
  /\ \A v \in Seq(Nat) : Views(v, I, x, n) => Views(v \o e.text, J, y, o)

\* And a mirror in step.
CarriesTurn(e, g, h) ==
  /\ \A p, q \in BOOLEAN :
       Tuned(g, p, q) => Tuned(h, e.kind = "start" \/ (e.kind \notin Offs /\ p),
                                e.kind = "start" \/ (e.kind \notin Offs /\ q))
  /\ \A r \in BOOLEAN : Agrees(g, r) => Agrees(h, e.kind = "start" \/ (e.kind \notin Offs /\ r))

Carries(e, B, I, x, n, g, J, y, o, h) == CarriesText(e, B, I, x, n, J, y, o) /\ CarriesTurn(e, g, h)

-----------------------------------------------------------------------------
(* What becomes of the history and the text.                                  *)

LEMMA SmallTexts ==
  /\ <<>> \in Seq(Nat) /\ Rising(<<>>) /\ Range(<<>>) = {}
  /\ \A p \in Nat : <<p>> \in Seq(Nat) /\ Rising(<<p>>) /\ Range(<<p>>) = {p}
<1>1. ASSUME NEW t \in Seq(Nat), Len(t) = 0 PROVE Rising(t) /\ Range(t) = {}
  <2>1. \A i \in 1 .. Len(t) : FALSE
    BY <1>1
  <2>2. Rising(t)
    BY <2>1 DEF Rising
  <2> QED BY <2>1, <2>2, RangeOf
<1>2. ASSUME NEW t \in Seq(Nat), Len(t) = 1 PROVE Rising(t) /\ Range(t) = {t[1]}
  <2>1. 1 \in 1 .. Len(t) /\ \A i \in 1 .. Len(t) : i = 1
    BY <1>2
  <2>2. Rising(t)
    BY <2>1 DEF Rising
  <2> QED BY <2>1, <2>2, RangeOf
<1>3. <<>> \in Seq(Nat) /\ Len(<<>>) = 0
  OBVIOUS
<1>4. ASSUME NEW p \in Nat PROVE <<p>> \in Seq(Nat) /\ Rising(<<p>>) /\ Range(<<p>>) = {p}
  <2> DEFINE t == <<p>>
  <2>1. t \in Seq(Nat) /\ Len(t) = 1 /\ t[1] = p
    OBVIOUS
  <2> HIDE DEF t
  <2>2. t \in Seq(Nat) /\ Rising(t) /\ Range(t) = {p}
    BY <1>2, <2>1
  <2> QED BY <2>2 DEF t
<1>5. Rising(<<>>) /\ Range(<<>>) = {}
  BY <1>1, <1>3
<1> QED BY <1>3, <1>4, <1>5

\* An event without a text shows nothing new.
LEMMA QuietWhole ==
  ASSUME NEW b, NEW E, NEW F, NEW I, NEW x, NEW n, Whole(b, E, I, x, n), NEW e, Gains(E, F, e), e.text = <<>>,
         E \in Seq(Attach!Envelope)
  PROVE  Whole(b, F, I, x, n)
<1>1. <<>> \in Seq(Nat) /\ Rising(<<>>) /\ Range(<<>>) = {}
  BY SmallTexts
<1>2. Shown(F) = Shown(E) /\ Before(Shown(E), Range(e.text))
  BY <1>1 DEF Gains, Before
<1> QED BY <1>1, <1>2 DEF Whole, Gains

\* A new piece is the last.
LEMMA SaidWhole ==
  ASSUME NEW b \in Nat, NEW E \in Seq(Attach!Envelope), NEW F, NEW I, NEW x, NEW n, InHand(I, x, n),
         Whole(b, E, I, x, n), NEW e, Gains(E, F, e), e.text = <<n + 1>>,
         NEW y, Range(y) \subseteq Range(x) \cup {n + 1}
  PROVE  Whole(b, F, I, y, n + 1)
<1>1. n \in Nat /\ I \in Piecewise /\ Pieces(I) \subseteq Nat /\ Shown(E) \subseteq Nat
  BY PiecesOf, TextsTyped DEF InHand
<1>2. <<n + 1>> \in Seq(Nat) /\ Rising(<<n + 1>>) /\ Range(<<n + 1>>) = {n + 1}
  <2>1. n + 1 \in Nat
    BY <1>1
  <2> QED BY <2>1, SmallTexts
<1>3. Shown(F) = Shown(E) \cup {n + 1} /\ Before(Shown(E), Range(e.text))
  <2>1. \A p \in Shown(E) : p <= n /\ p \in Nat
    BY <1>1 DEF Whole
  <2> QED BY <1>1, <1>2, <2>1 DEF Gains, Before
<1>4. Ordered(TextsOf(F))
  BY <1>2, <1>3 DEF Gains, Whole
<1>5. \A p \in Shown(F) : p <= n + 1
  BY <1>1, <1>3 DEF Whole
<1>6. ASSUME NEW i \in 1 .. b PROVE Before(Range(I[i]), Shown(F))
  <2>1. i \in 1 .. Len(I) /\ Range(I[i]) \subseteq Pieces(I)
    <3>1. Len(I) \in Nat
      BY <1>1 DEF Piecewise
    <3>2. i \in 1 .. Len(I)
      BY <3>1 DEF Whole
    <3> QED BY <1>1, <3>2, PiecesOf
  <2>2. \A p \in Range(I[i]) : p <= n /\ p \in Nat
    BY <1>1, <2>1 DEF InHand
  <2>3. Before(Range(I[i]), Shown(E))
    BY DEF Whole
  <2> QED BY <1>1, <1>3, <2>2, <2>3 DEF Before
<1> QED BY <1>3, <1>4, <1>5, <1>6 DEF Whole

\* What was streamed is on the events already when it enters the history.
LEMMA KeptWhole ==
  ASSUME NEW b, NEW E, NEW I \in Piecewise, NEW x \in Seq(Nat), NEW n, Whole(b, E, I, x, n), b \in Nat,
         NEW y, Range(y) = {}
  PROVE  Whole(b, E, Append(I, x), y, n)
<1> DEFINE J == Append(I, x)
<1>1. /\ Len(I) \in Nat /\ Len(J) = Len(I) + 1 /\ J[Len(I) + 1] = x /\ \A i \in 1 .. Len(I) : J[i] = I[i]
  BY DEF Piecewise
<1> HIDE DEF J
<1>2. \A i \in 1 .. b : J[i] = I[i] /\ b <= Len(J)
  BY <1>1 DEF Whole
<1>3. ASSUME NEW i \in b + 1 .. Len(J) PROVE Range(J[i]) \subseteq Shown(E)
  <2>1. CASE i = Len(I) + 1
    BY <1>1, <2>1 DEF Whole
  <2>2. CASE i # Len(I) + 1
    <3>1. i \in 1 .. Len(I) /\ i \in b + 1 .. Len(I)
      BY <1>1, <2>2
    <3> QED BY <1>1, <3>1 DEF Whole
  <2> QED BY <2>1, <2>2
<1>4. b <= Len(J)
  BY <1>1 DEF Whole
<1> QED BY <1>2, <1>3, <1>4 DEF Whole, J

\* A cut no further back than the base takes nothing from a whole.
LEMMA CutWhole ==
  ASSUME NEW b \in Nat, NEW E, NEW I \in Piecewise, NEW x, NEW n, Whole(b, E, I, x, n),
         NEW k \in Nat, b <= k, k <= Len(I), NEW y, Range(y) = {}
  PROVE  Whole(b, E, SubSeq(I, 1, k), y, n)
<1> DEFINE J == SubSeq(I, 1, k)
<1>1. Len(J) = k /\ Len(I) \in Nat /\ \A i \in 1 .. k : J[i] = I[i]
  BY TextsCut DEF Piecewise
<1> HIDE DEF J
<1>2. ASSUME NEW i \in b + 1 .. k PROVE Range(J[i]) \subseteq Shown(E)
  <2>1. i \in 1 .. k /\ i \in b + 1 .. Len(I)
    BY <1>1
  <2> QED BY <1>1, <2>1 DEF Whole
<1>3. ASSUME NEW i \in 1 .. b PROVE Before(Range(J[i]), Shown(E))
  <2>1. i \in 1 .. k
    OBVIOUS
  <2> QED BY <1>1, <2>1 DEF Whole
<1> QED BY <1>1, <1>2, <1>3 DEF Whole, J

LEMMA AppendInHand ==
  ASSUME NEW I, NEW x, NEW n, InHand(I, x, n)
  PROVE  InHand(Append(I, x), <<>>, n)
<1>1. I \in Piecewise /\ x \in Seq(Nat) /\ n \in Nat
  BY DEF InHand
<1>2. /\ Append(I, x) \in Piecewise /\ Pieces(Append(I, x)) = Pieces(I) \cup Range(x) /\ Ordered(Append(I, x))
  BY <1>1, TextsGrow DEF InHand
<1> QED BY <1>1, <1>2, SmallTexts DEF InHand, Before

LEMMA SayInHand ==
  ASSUME NEW I, NEW x, NEW n, InHand(I, x, n)
  PROVE  InHand(I, Append(x, n + 1), n + 1) /\ Range(Append(x, n + 1)) = Range(x) \cup {n + 1}
<1> DEFINE y == Append(x, n + 1)
<1>1. I \in Piecewise /\ x \in Seq(Nat) /\ n \in Nat /\ n + 1 \in Nat /\ Pieces(I) \subseteq Nat
  BY PiecesOf DEF InHand
<1>2. \A p \in Pieces(I) \cup Range(x) : p <= n /\ p \in Nat
  BY <1>1, RangeOf DEF InHand
<1>3. y = x \o <<n + 1>>
  BY <1>1
<1>4. Before(Range(x), Range(<<n + 1>>))
  BY <1>1, <1>2, SmallTexts DEF Before
<1>5. y \in Seq(Nat) /\ Rising(y) /\ Range(y) = Range(x) \cup {n + 1}
  <2> DEFINE z == <<n + 1>>
  <2>1. z \in Seq(Nat) /\ Rising(z) /\ Range(z) = {n + 1} /\ Before(Range(x), Range(z)) /\ y = x \o z
    BY <1>1, <1>3, <1>4, SmallTexts
  <2> HIDE DEF z, y
  <2>2. Rising(x)
    BY DEF InHand
  <2> QED BY <1>1, <2>1, <2>2, TextsJoin
<1> HIDE DEF y
<1>6. Before(Pieces(I), Range(y))
  BY <1>1, <1>2, <1>5 DEF InHand, Before
<1>7. \A p \in Pieces(I) \cup Range(y) : p <= n + 1
  BY <1>1, <1>2, <1>5
<1> QED BY <1>1, <1>5, <1>6, <1>7 DEF InHand, y

LEMMA CutInHand ==
  ASSUME NEW I, NEW n, InHand(I, <<>>, n), NEW k \in Nat, k <= Len(I)
  PROVE  InHand(SubSeq(I, 1, k), <<>>, n) /\ Pieces(SubSeq(I, 1, k)) \subseteq Pieces(I)
<1> DEFINE J == SubSeq(I, 1, k)
<1>1. J \in Piecewise /\ Ordered(J) /\ Pieces(J) \subseteq Pieces(I)
  BY TextsCut DEF InHand
<1> HIDE DEF J
<1>2. InHand(J, <<>>, n)
  BY <1>1, SmallTexts DEF InHand, Before
<1> QED BY <1>1, <1>2 DEF J

\* A view that is shown a new piece, or none.
LEMMA SaidViews ==
  ASSUME NEW v \in Seq(Nat), NEW I, NEW x, NEW n \in Nat, Views(v, I, x, n),
         NEW J, NEW y, Pieces(J) \cup Range(y) \subseteq Pieces(I) \cup Range(x) \cup {n + 1}
  PROVE  Views(v \o <<n + 1>>, J, y, n + 1)
<1>1. <<n + 1>> \in Seq(Nat) /\ Rising(<<n + 1>>) /\ Range(<<n + 1>>) = {n + 1}
  BY SmallTexts
<1>2. \A p \in Range(v) : p <= n /\ p \in Nat
  BY RangeOf DEF Views
<1>3. Before(Range(v), Range(<<n + 1>>))
  BY <1>1, <1>2 DEF Before
<1>4. Rising(v \o <<n + 1>>) /\ Range(v \o <<n + 1>>) = Range(v) \cup {n + 1}
  BY <1>1, <1>3, TextsJoin DEF Views
<1> DEFINE w == v \o <<n + 1>>
<1> HIDE DEF w
<1>5. \A p \in Range(w) : p <= n + 1
  BY <1>2, <1>4 DEF w
<1>6. Views(w, J, y, n + 1)
  BY <1>4, <1>5 DEF Views, w
<1> QED BY <1>6 DEF w

LEMMA QuietViews ==
  ASSUME NEW v \in Seq(Nat), NEW I, NEW x, NEW n, Views(v, I, x, n),
         NEW J, NEW y, Pieces(J) \cup Range(y) \subseteq Pieces(I) \cup Range(x)
  PROVE  Views(v \o <<>>, J, y, n)
<1>1. v \o <<>> = v
  OBVIOUS
<1>2. Views(v, J, y, n)
  BY DEF Views
<1> QED BY <1>1, <1>2

\* A tape that begins here has nothing to show.
LEMMA EmptyTape ==
  ASSUME NEW I, NEW x, NEW n, InHand(I, x, n), NEW k \in Nat, NEW g, g \in {"idle", "echoed"},
         NEW t, t.base = Len(I), t.events = <<>>, t \in Attach!Tapes, t.max <= k,
         NEW tears, ~tears => x = <<>>
  PROVE  TapeOK(t, I, x, n, k, g, tears)
<1>1. <<>> \in Seq(Attach!Envelope) /\ Len(<<>>) = 0 /\ TextsOf(<<>>) = <<>> /\ <<>> \in Piecewise
  BY DEF TextsOf, Piecewise
<1>2. Shown(<<>>) = {} /\ Ordered(<<>>)
  BY <1>1, PiecesOf DEF Shown, Ordered
<1>3. ~Mirror(FALSE, <<>>)
  BY <1>1 DEF Mirror
<1>4. Len(I) \in Nat
  BY DEF InHand, Piecewise
<1>5. ASSUME x = <<>> PROVE Whole(Len(I), <<>>, I, x, n)
  BY <1>1, <1>2, <1>4, <1>5, SmallTexts DEF Whole, Before
<1>6. Tuned(g, Mirror(FALSE, t.events), Mirror(TRUE, t.events))
  BY <1>3 DEF Tuned
<1> QED BY <1>5, <1>6 DEF TapeOK

LEMMA AppendJoins ==
  ASSUME NEW S, NEW s \in Seq(S), NEW t \in Seq(S), NEW e \in S
  PROVE  s \o t \in Seq(S) /\ s \o Append(t, e) = Append(s \o t, e)
<1>1. s \o t \in Seq(S) /\ Append(t, e) \in Seq(S)
  OBVIOUS
<1> DEFINE u == s \o Append(t, e)
           v == Append(s \o t, e)
<1>2. u \in Seq(S) /\ v \in Seq(S) /\ Len(u) = Len(s) + Len(t) + 1 /\ Len(v) = Len(u)
  OBVIOUS
<1>3. \A i \in 1 .. Len(u) : u[i] = v[i]
  OBVIOUS
<1> HIDE DEF u, v
<1>4. u = v
  BY <1>2, <1>3
<1> QED BY <1>1, <1>4 DEF u, v

\* Every client takes what is published.
LEMMA ClientGets ==
  ASSUME NEW m \in ClientRec, NEW t, NEW u, NEW e \in Attach!Envelope, NEW k \in Nat, e.seq = k + 1,
         NEW I, NEW x, NEW n, NEW g, NEW J, NEW y, NEW o, NEW h, NEW B, NEW spoils, NEW spoils2, NEW misled,
         ClientOK(m, t, I, x, n, k, g, spoils, misled),
         ~spoils2 => ~spoils /\ (m.at = "welcome" => m.base <= B),
         m.at # "off" => t.events \in Seq(Attach!Envelope) /\ Gains(t.events, u.events, e) /\ u \in Attach!Tapes
                         /\ Carries(e, B, I, x, n, g, J, y, o, h)
  PROVE  /\ Attach!Receives(m, e) \in ClientRec
         /\ ClientOK(Attach!Receives(m, e), u, J, y, o, k + 1, h, spoils2, misled)
<1> DEFINE d == Attach!Receives(m, e)
           now == e.kind = "start" \/ (e.kind \notin Offs /\ m.running = TRUE)
<1>1. /\ d \in ClientRec /\ d.at = m.at /\ d.base = m.base /\ d.cut = m.cut /\ d.max = m.max
      /\ m.at \in {"off", "info"} => d = m
      /\ m.at = "welcome" => d.queue = Append(m.queue, e) /\ d.view = m.view /\ d.running = m.running
      /\ m.at = "live" /\ e.seq > m.max => d = Attach!Shows(m, e)
  BY ReceivesOne
<1>2. /\ m.base \in Nat /\ m.cut \in Seq(Attach!Envelope) /\ m.queue \in Seq(Attach!Envelope) /\ m.max \in Nat
      /\ m.view \in Seq(Nat) /\ m.running \in BOOLEAN /\ m.at \in {"off", "info", "welcome", "live"}
  BY DEF ClientRec, Stations
<1> SUFFICES d \in ClientRec /\ ClientOK(d, u, J, y, o, k + 1, h, spoils2, misled)
  BY DEF d
<1> HIDE DEF d
<1>3. CASE m.at = "off"
  BY <1>1, <1>3 DEF ClientOK
<1>4. CASE m.at = "info"
  <2>1. Mirror(m.running, u.events) <=> e.kind = "start" \/ (e.kind \notin Offs /\ Mirror(m.running, t.events))
    BY <1>4 DEF Gains
  <2>3. ASSUME ~misled PROVE Agrees(h, Mirror(m.running, u.events))
    <3>0. Agrees(g, Mirror(m.running, t.events))
      BY <1>4, <2>3 DEF ClientOK
    <3> DEFINE r == Mirror(m.running, t.events)
    <3>1. r \in BOOLEAN
      BY DEF Mirror
    <3>2. Agrees(g, r)
      BY <3>0
    <3> HIDE DEF r
    <3>3. Agrees(h, e.kind = "start" \/ (e.kind \notin Offs /\ r))
      BY <1>4, <3>1, <3>2, Zenon DEF Carries, CarriesText, CarriesTurn
    <3> QED BY <2>1, <3>3 DEF Agrees, r
  <2> QED BY <1>1, <1>4, <2>3 DEF ClientOK
<1>5. CASE m.at = "welcome"
  <2> DEFINE E == m.cut \o m.queue
             F == m.cut \o Append(m.queue, e)
  <2>1. E \in Seq(Attach!Envelope) /\ F = Append(E, e)
    <3> DEFINE s == m.cut
               q == m.queue
    <3>1. s \in Seq(Attach!Envelope) /\ q \in Seq(Attach!Envelope)
      BY <1>2
    <3> HIDE DEF s, q
    <3>2. s \o q \in Seq(Attach!Envelope) /\ s \o Append(q, e) = Append(s \o q, e)
      BY <3>1, AppendJoins
    <3> QED BY <3>2 DEF s, q
  <2>2. Gains(E, F, e)
    BY <2>1, AppendGains
  <2>3. /\ m.max <= k /\ \A i \in 1 .. Len(m.queue) : m.queue[i].seq > m.max
        /\ ~spoils2 => m.base <= B /\ Whole(m.base, E, I, x, n)
        /\ ~misled => Agrees(g, Mirror(m.running, E))
    BY <1>5 DEF ClientOK
  <2> HIDE DEF E
  <2>4. ASSUME ~spoils2 PROVE Whole(m.base, F, J, y, o)
    <3>1. F \in Seq(Attach!Envelope)
      BY <2>2 DEF Gains
    <3> HIDE DEF F
    <3> QED BY <1>2, <1>5, <2>1, <2>2, <2>3, <2>4, <3>1 DEF Carries, CarriesText
  <2>5. Mirror(m.running, F) <=> e.kind = "start" \/ (e.kind \notin Offs /\ Mirror(m.running, E))
    BY <2>2 DEF Gains
  <2>6. ASSUME ~misled PROVE Agrees(h, Mirror(m.running, F))
    <3> DEFINE r == Mirror(m.running, E)
    <3>1. r \in BOOLEAN
      BY DEF Mirror
    <3>2. Agrees(g, r)
      BY <2>3, <2>6
    <3> HIDE DEF r
    <3>3. Agrees(h, e.kind = "start" \/ (e.kind \notin Offs /\ r))
      BY <1>5, <3>1, <3>2, Zenon DEF Carries, CarriesText, CarriesTurn
    <3> QED BY <2>5, <3>3 DEF Agrees, r
  <2>7. \A i \in 1 .. Len(Append(m.queue, e)) : Append(m.queue, e)[i].seq > m.max
    <3> DEFINE q == Append(m.queue, e)
    <3>1. /\ Len(m.queue) \in Nat /\ Len(q) = Len(m.queue) + 1 /\ q[Len(m.queue) + 1] = e
          /\ \A i \in 1 .. Len(m.queue) : q[i] = m.queue[i]
      BY <1>2
    <3> HIDE DEF q
    <3>2. e.seq > m.max
      BY <1>2, <2>3
    <3>3. ASSUME NEW i \in 1 .. Len(q) PROVE q[i].seq > m.max
      <4>1. i = Len(m.queue) + 1 \/ i \in 1 .. Len(m.queue)
        BY <3>1
      <4> QED BY <2>3, <3>1, <3>2, <4>1
    <3> QED BY <3>3 DEF q
  <2>8. m.max <= k + 1
    BY <1>2, <2>3
  <2>9. d.cut \o d.queue = F /\ d.queue = Append(m.queue, e) /\ d.running = m.running
    BY <1>1, <1>5
  <2> HIDE DEF F
  <2> QED BY <1>1, <1>5, <2>3, <2>4, <2>6, <2>7, <2>8, <2>9 DEF ClientOK
<1>6. CASE m.at = "live"
  <2>1. /\ m.max <= k
        /\ ~spoils2 => Views(m.view, I, x, n)
        /\ ~misled => Agrees(g, m.running = TRUE)
    BY <1>6 DEF ClientOK
  <2>2. e.seq > m.max /\ m.max <= k + 1
    BY <1>2, <2>1
  <2>3. d.view = m.view \o e.text /\ (d.running = TRUE <=> now)
    <3>1. d = Attach!Shows(m, e)
      BY <1>1, <1>6, <2>2
    <3>2. /\ Attach!Shows(m, e).view = m.view \o e.text
          /\ Attach!Shows(m, e).running = TRUE <=> now
      BY ShowsOne
    <3> HIDE DEF now
    <3> QED BY <3>1, <3>2, Zenon
  <2>4. ASSUME ~spoils2 PROVE Views(d.view, J, y, o)
    BY <1>2, <1>6, <2>1, <2>3, <2>4 DEF Carries, CarriesText
  <2>5. ASSUME ~misled PROVE Agrees(h, now)
    <3> DEFINE r == m.running = TRUE
    <3>1. r \in BOOLEAN /\ Agrees(g, r)
      BY <2>1, <2>5
    <3> HIDE DEF r
    <3>2. Agrees(h, e.kind = "start" \/ (e.kind \notin Offs /\ r))
      BY <1>6, <3>1, Zenon DEF Carries, CarriesText, CarriesTurn
    <3> QED BY <3>2 DEF Agrees, r
  <2>6. ASSUME ~misled PROVE Agrees(h, d.running = TRUE)
    BY <2>3, <2>5, <2>6 DEF Agrees
  <2> QED BY <1>1, <1>6, <2>2, <2>4, <2>6 DEF ClientOK
<1> QED BY <1>2, <1>3, <1>4, <1>5, <1>6

LEMMA TurnCarried ==
  ASSUME NEW e, NEW g, NEW h,
         \/ e.kind \in {"notice", "delta", "complete", "rewind"} /\ h = g
         \/ e.kind = "user" /\ g = "idle" /\ h \in {"submitted", "echoed"}
         \/ e.kind = "start" /\ h = "running"
         \/ e.kind = "interrupt" /\ h = "stopping"
         \/ e.kind = "finish" /\ h = "ending"
  PROVE  CarriesTurn(e, g, h)
<1>1. CASE e.kind \in {"notice", "delta", "complete", "rewind"} /\ h = g
  <2>1. e.kind # "start" /\ e.kind \notin Offs
    BY <1>1 DEF Offs
  <2> QED BY <1>1, <2>1 DEF CarriesTurn, Tuned, Agrees
<1>2. CASE e.kind = "user" /\ g = "idle" /\ h \in {"submitted", "echoed"}
  <2>1. e.kind # "start" /\ e.kind \notin Offs
    BY <1>2 DEF Offs
  <2> QED BY <1>2, <2>1 DEF CarriesTurn, Tuned, Agrees
<1>3. CASE e.kind = "start" /\ h = "running"
  BY <1>3 DEF CarriesTurn, Tuned, Agrees
<1>4. CASE (e.kind = "interrupt" /\ h = "stopping") \/ (e.kind = "finish" /\ h = "ending")
  <2>1. e.kind # "start" /\ e.kind \in Offs /\ h # "running"
    BY <1>4 DEF Offs
  <2> QED BY <1>4, <2>1 DEF CarriesTurn, Tuned, Agrees
<1> QED BY <1>1, <1>2, <1>3, <1>4

\* Nothing is said, and the history and the text stay.
LEMMA QuietCarried ==
  ASSUME NEW e, e.text = <<>>, NEW B, NEW I, NEW x, NEW n
  PROVE  CarriesText(e, B, I, x, n, I, x, n)
<1>1. ASSUME NEW b \in Nat, NEW E \in Seq(Attach!Envelope), NEW F \in Seq(Attach!Envelope),
             Whole(b, E, I, x, n), Gains(E, F, e)
      PROVE  Whole(b, F, I, x, n)
  BY <1>1, QuietWhole
<1>2. ASSUME NEW v \in Seq(Nat), Views(v, I, x, n) PROVE Views(v \o e.text, I, x, n)
  BY <1>2, QuietViews
<1> QED BY <1>1, <1>2 DEF CarriesText

\* Nothing is said, and the text enters the history.
LEMMA AppendCarried ==
  ASSUME NEW e, e.text = <<>>, NEW B, NEW I, NEW x, NEW n, InHand(I, x, n)
  PROVE  CarriesText(e, B, I, x, n, Append(I, x), <<>>, n)
<1>0. I \in Piecewise /\ x \in Seq(Nat)
  BY DEF InHand
<1>1. ASSUME NEW b \in Nat, NEW E \in Seq(Attach!Envelope), NEW F \in Seq(Attach!Envelope),
             Whole(b, E, I, x, n), Gains(E, F, e)
      PROVE  Whole(b, F, Append(I, x), <<>>, n)
  <2>1. Whole(b, F, I, x, n)
    BY <1>1, QuietWhole
  <2> QED BY <1>0, <2>1, KeptWhole, SmallTexts
<1>2. ASSUME NEW v \in Seq(Nat), Views(v, I, x, n) PROVE Views(v \o e.text, Append(I, x), <<>>, n)
  <2>1. Pieces(Append(I, x)) \cup Range(<<>>) \subseteq Pieces(I) \cup Range(x)
    BY <1>0, TextsGrow, SmallTexts
  <2> QED BY <1>2, <2>1, QuietViews
<1> QED BY <1>1, <1>2 DEF CarriesText

\* A piece is said, and joins the text.
LEMMA SayCarried ==
  ASSUME NEW I, NEW x, NEW n, InHand(I, x, n), NEW e, e.text = <<n + 1>>, NEW B
  PROVE  CarriesText(e, B, I, x, n, I, Append(x, n + 1), n + 1)
<1>0. n \in Nat /\ Range(Append(x, n + 1)) = Range(x) \cup {n + 1}
  BY SayInHand DEF InHand
<1> DEFINE y == Append(x, n + 1)
<1> HIDE DEF y
<1>1. ASSUME NEW b \in Nat, NEW E \in Seq(Attach!Envelope), NEW F \in Seq(Attach!Envelope),
             Whole(b, E, I, x, n), Gains(E, F, e)
      PROVE  Whole(b, F, I, y, n + 1)
  BY <1>0, <1>1, SaidWhole DEF y
<1>2. ASSUME NEW v \in Seq(Nat), Views(v, I, x, n) PROVE Views(v \o e.text, I, y, n + 1)
  BY <1>0, <1>2, SaidViews DEF y
<1> QED BY <1>1, <1>2 DEF CarriesText, y

\* A rewind no further back than the base B says a piece that enters the history.
LEMMA RewindCarried ==
  ASSUME NEW I, NEW n, InHand(I, <<>>, n), NEW e, e.text = <<n + 1>>, NEW B \in Nat,
         NEW k \in Nat, B <= k, k <= Len(I)
  PROVE  /\ CarriesText(e, B, I, <<>>, n, Append(SubSeq(I, 1, k), <<n + 1>>), <<>>, n + 1)
         /\ InHand(Append(SubSeq(I, 1, k), <<n + 1>>), <<>>, n + 1)
<1> DEFINE C == SubSeq(I, 1, k)
           z == <<n + 1>>
           J == Append(C, z)
<1>1. InHand(C, <<>>, n) /\ Pieces(C) \subseteq Pieces(I) /\ n \in Nat /\ I \in Piecewise
  BY CutInHand DEF InHand
<1>2. z \in Seq(Nat) /\ Range(z) = {n + 1} /\ z = Append(<<>>, n + 1)
  BY <1>1, SmallTexts
<1> HIDE DEF C, z
<1>3. InHand(C, z, n + 1)
  BY <1>1, <1>2, SayInHand
<1>4. C \in Piecewise /\ n + 1 \in Nat
  BY <1>1, <1>3 DEF InHand
<1>5. InHand(J, <<>>, n + 1) /\ Pieces(J) = Pieces(C) \cup {n + 1}
  BY <1>2, <1>3, <1>4, AppendInHand, TextsGrow
<1>6. ASSUME NEW b \in Nat, NEW E \in Seq(Attach!Envelope), NEW F \in Seq(Attach!Envelope),
             b <= B, Whole(b, E, I, <<>>, n), Gains(E, F, e)
      PROVE  Whole(b, F, J, <<>>, n + 1)
  <2>1. b <= k
    BY <1>6
  <2>2. Whole(b, E, C, <<>>, n)
    BY <1>1, <1>6, <2>1, CutWhole, SmallTexts DEF C
  <2>3. Whole(b, F, C, z, n + 1)
    <3>1. Range(z) \subseteq Range(<<>>) \cup {n + 1} /\ e.text = <<n + 1>>
      BY <1>2
    <3> QED BY <1>1, <1>6, <2>2, <3>1, SaidWhole
  <2> QED BY <1>2, <1>4, <2>3, KeptWhole, SmallTexts
<1>7. ASSUME NEW v \in Seq(Nat), Views(v, I, <<>>, n) PROVE Views(v \o e.text, J, <<>>, n + 1)
  <2>1. Pieces(J) \cup Range(<<>>) \subseteq Pieces(I) \cup Range(<<>>) \cup {n + 1}
    BY <1>1, <1>5, SmallTexts
  <2> HIDE DEF J
  <2> QED BY <1>1, <1>7, <2>1, SaidViews
<1> QED BY <1>5, <1>6, <1>7 DEF CarriesText, J, C, z

\* The base of the tape, or of the tape the next event makes.
Base == IF tape = NoTape THEN Len(items) ELSE tape.base

\* Whatever is not torn or spoilt after a step begins at B or before it.
InReach(B) ==
  /\ B \in Nat /\ blind' = blind
  /\ ~torn' => ~torn /\ Base <= B
  /\ \A c \in Clients \ spoilt' : c \notin spoilt /\ (client[c].at = "welcome" => client[c].base <= B)

\* All of the history is in reach of a step that cuts none of it.
LEMMA AllInReach == ASSUME AttachInv, UNCHANGED <<torn, spoilt, blind>> PROVE InReach(Len(items))
<1>1. Len(items) \in Nat
  BY DEF AttachInv, SessionInv, InHand, Piecewise
<1>2. ~torn => Base <= Len(items)
  <2>1. CASE tape = NoTape
    BY <1>1, <2>1 DEF Base
  <2>2. ASSUME tape # NoTape, ~torn PROVE Base <= Len(items)
    <3>1. TapeOK(tape, items, stream, said, seqNo, turn, torn)
      BY <2>2 DEF AttachInv, TapeInv
    <3>2. Whole(tape.base, tape.events, items, stream, said)
      BY <2>2, <3>1 DEF TapeOK
    <3>3. tape.base <= Len(items)
      BY <3>2 DEF Whole
    <3> QED BY <2>2, <3>3 DEF Base
  <2> QED BY <2>1, <2>2
<1>3. ASSUME NEW c \in Clients \ spoilt, client[c].at = "welcome" PROVE client[c].base <= Len(items)
  BY <1>3 DEF AttachInv, ClientsInv, ClientOK, Whole
<1> QED BY <1>1, <1>2, <1>3 DEF InReach

LEMMA PublishKeeps ==
  ASSUME AttachInv, NEW kind \in Attach!Kinds, NEW text \in Seq(Nat), Attach!Publish(kind, text),
         NEW e, e = [kind |-> kind, seq |-> seqNo + 1, text |-> text],
         NEW B, InReach(B), Carries(e, B, items, stream, said, turn, items', stream', said', turn')
  PROVE  /\ AttachTyped' /\ ClientsInv' /\ tape' # NoTape
         /\ TapeOK(tape', items', stream', said', seqNo', turn', torn')
<1> DEFINE fresh == [base |-> Len(items), events |-> <<>>, max |-> 0]
           t == IF tape = NoTape THEN fresh ELSE tape
<1>1. /\ seqNo \in Nat /\ seqNo' = seqNo + 1
      /\ tape' = Attach!Recorded(t, e)
      /\ client' = [c \in Clients |-> Attach!Receives(client[c], e)]
  BY Zenon DEF Attach!Publish, AttachInv, AttachTyped
<1>2. e \in Attach!Envelope /\ e.seq = seqNo + 1 /\ e.kind = kind /\ e.text = text
  BY <1>1 DEF Attach!Envelope
<1>3. InHand(items, stream, said) /\ Len(items) \in Nat
  BY DEF AttachInv, SessionInv, InHand, Piecewise
<1>4. /\ TapeOK(t, items, stream, said, seqNo, turn, torn) /\ t.base = Base
      /\ tape # NoTape => t = tape
  <2>1. CASE tape = NoTape
    <3>1. turn = "idle" /\ stream = <<>>
      BY <2>1 DEF AttachInv, SessionInv, TapeInv
    <3>2. fresh \in Attach!Tapes /\ fresh.base = Len(items) /\ fresh.events = <<>> /\ fresh.max <= seqNo
      <4>1. <<>> \in Seq(Attach!Envelope)
        OBVIOUS
      <4> QED BY <1>1, <1>3, <4>1 DEF Attach!Tapes
    <3> HIDE DEF fresh
    <3>3. TapeOK(fresh, items, stream, said, seqNo, turn, torn)
      BY <1>1, <1>3, <3>1, <3>2, EmptyTape
    <3> QED BY <2>1, <3>2, <3>3 DEF Base
  <2>2. CASE tape # NoTape
    BY <2>2 DEF AttachInv, TapeInv, Base
  <2> QED BY <2>1, <2>2
<1> HIDE DEF t, fresh
<1>5. t \in Attach!Tapes /\ t.base \in Nat /\ t.events \in Seq(Attach!Envelope)
  BY <1>4 DEF TapeOK, Attach!Tapes
<1>6. /\ tape' \in Attach!Tapes /\ tape'.base = t.base /\ tape'.max = e.seq
      /\ Gains(t.events, tape'.events, e)
  BY <1>1, <1>2, <1>5, RecordedGains
<1>7. TapeOK(tape', items', stream', said', seqNo', turn', torn')
  <2>1. ASSUME ~torn' PROVE Whole(tape'.base, tape'.events, items', stream', said')
    <3>1. /\ Whole(t.base, t.events, items, stream, said) /\ tape'.events \in Seq(Attach!Envelope)
          /\ t.base <= B
      BY <1>4, <1>6, <2>1 DEF TapeOK, Gains, InReach
    <3> QED BY <1>5, <1>6, <3>1 DEF Carries, CarriesText
  <2>2. Tuned(turn', Mirror(FALSE, tape'.events), Mirror(TRUE, tape'.events))
    <3> DEFINE p == Mirror(FALSE, t.events)
               q == Mirror(TRUE, t.events)
    <3>1. p \in BOOLEAN /\ q \in BOOLEAN
      BY DEF Mirror
    <3>2. Tuned(turn, p, q)
      BY <1>4 DEF TapeOK
    <3>3. /\ Mirror(FALSE, tape'.events) <=> e.kind = "start" \/ (e.kind \notin Offs /\ p)
          /\ Mirror(TRUE, tape'.events) <=> e.kind = "start" \/ (e.kind \notin Offs /\ q)
      BY <1>6 DEF Gains
    <3> HIDE DEF p, q
    <3>4. Tuned(turn', e.kind = "start" \/ (e.kind \notin Offs /\ p), e.kind = "start" \/ (e.kind \notin Offs /\ q))
      BY <3>1, <3>2, Zenon DEF Carries, CarriesTurn
    <3> QED BY <3>3, <3>4 DEF Tuned
  <2>3. tape'.max <= seqNo'
    BY <1>1, <1>2, <1>6
  <2> QED BY <1>6, <2>1, <2>2, <2>3 DEF TapeOK
<1>8. ASSUME NEW c \in Clients
      PROVE  /\ client'[c] \in ClientRec
             /\ ClientOK(client'[c], tape', items', stream', said', seqNo', turn', c \in spoilt', c \in blind')
  <2> DEFINE m == client[c]
             p == c \in spoilt
             q == c \in spoilt'
             r == c \in blind
  <2>1. m \in ClientRec /\ ClientOK(m, tape, items, stream, said, seqNo, turn, p, r)
    BY DEF AttachInv, AttachTyped, ClientsInv
  <2>2. client'[c] = Attach!Receives(m, e)
    BY <1>1
  <2>3. m.at # "off" => t = tape
    BY <1>4, <2>1, AttachAssumption DEF ClientOK
  <2>4. (~q => ~p /\ (m.at = "welcome" => m.base <= B)) /\ (c \in blind' <=> r)
    BY DEF InReach
  <2> HIDE DEF m, p, q, r
  <2>5. ClientOK(m, t, items, stream, said, seqNo, turn, p, r)
    <3>1. CASE m.at # "off"
      BY <2>1, <2>3, <3>1
    <3>2. CASE m.at = "off"
      BY <2>1, <3>2 DEF ClientOK
    <3> QED BY <3>1, <3>2
  <2>6. Attach!Receives(m, e) \in ClientRec
        /\ ClientOK(Attach!Receives(m, e), tape', items', stream', said', seqNo + 1, turn', q, r)
    BY <1>1, <1>2, <1>5, <1>6, <2>1, <2>4, <2>5, ClientGets
  <2>7. ClientOK(client'[c], tape', items', stream', said', seqNo', turn', q, c \in blind')
    BY <1>1, <2>2, <2>4, <2>6 DEF ClientOK
  <2> QED BY <2>2, <2>6, <2>7 DEF q
<1>9. client' \in [Clients -> ClientRec]
  BY <1>1, <1>8
<1>10. AttachTyped' /\ ClientsInv' /\ tape' # NoTape
  BY <1>1, <1>6, <1>8, <1>9, AttachAssumption DEF AttachTyped, ClientsInv
<1> QED BY <1>2, <1>6, <1>7, <1>10

-----------------------------------------------------------------------------
(* The steps of a session that its clients see.                               *)

LEMMA AttachStart == ASSUME Attach!Init PROVE AttachInv
<1>1. /\ items = << <<1>> >> /\ said = 1 /\ tape = NoTape /\ seqNo = 0 /\ turn = "idle" /\ stream = <<>>
      /\ resident = FALSE /\ client = [c \in Clients |-> Attach!Detached]
      /\ torn = FALSE /\ spoilt = {} /\ blind = {}
  BY Zenon DEF Attach!Init
<1>2. AttachTyped
  BY <1>1, DetachedTyped DEF AttachTyped
<1>3. InHand(items, stream, said)
  <2>1. <<>> \in Piecewise /\ Pieces(<<>>) = {} /\ Ordered(<<>>)
    <3>1. <<>> \in Piecewise /\ Len(<<>>) = 0
      BY DEF Piecewise
    <3> QED BY <3>1, PiecesOf DEF Ordered
  <2>2. <<1>> \in Seq(Nat) /\ Rising(<<1>>) /\ Range(<<1>>) = {1}
    BY SmallTexts
  <2> DEFINE z == <<1>>
  <2>3. items = Append(<<>>, z)
    BY <1>1
  <2> HIDE DEF z
  <2>4. InHand(<<>>, z, 1)
    BY <2>1, <2>2 DEF InHand, Before, z
  <2> QED BY <1>1, <2>3, <2>4, AppendInHand
<1>4. SessionInv /\ TapeInv
  BY <1>1, <1>3 DEF SessionInv, TapeInv
<1>5. ClientsInv
  BY <1>1, DetachedTyped DEF ClientsInv, ClientOK
<1> QED BY <1>2, <1>4, <1>5 DEF AttachInv

\* What every publication makes of the invariant.
LEMMA PublishedInv ==
  ASSUME AttachInv, NEW kind \in Attach!Kinds, NEW text \in Seq(Nat), Attach!Publish(kind, text),
         NEW e, e = [kind |-> kind, seq |-> seqNo + 1, text |-> text],
         NEW B, InReach(B), CarriesText(e, B, items, stream, said, items', stream', said'),
         CarriesTurn(e, turn, turn'), InHand(items', stream', said'), resident' = TRUE,
         turn' \in {"idle", "stopping", "ending"} => stream' = <<>>
  PROVE  AttachInv'
<1>1. Carries(e, B, items, stream, said, turn, items', stream', said', turn')
  BY DEF Carries
<1>2. /\ AttachTyped' /\ ClientsInv' /\ tape' # NoTape
      /\ TapeOK(tape', items', stream', said', seqNo', turn', torn')
  BY <1>1, PublishKeeps
<1>3. SessionInv'
  BY <1>2 DEF SessionInv
<1>4. TapeInv'
  BY <1>2 DEF TapeInv
<1> QED BY <1>2, <1>3, <1>4 DEF AttachInv

\* A publication without a text.
LEMMA QuietInv ==
  ASSUME AttachInv, NEW kind \in Attach!Kinds, Attach!Publish(kind, <<>>), said' = said,
         \/ items' = items /\ stream' = stream
         \/ items' = Append(items, stream) /\ stream' = <<>>,
         \/ kind \in {"notice", "complete"} /\ turn' = turn
         \/ kind = "start" /\ turn' = "running"
         \/ kind = "interrupt" /\ turn' = "stopping"
         \/ kind = "finish" /\ turn' = "ending",
         resident' = TRUE, turn' \in {"idle", "stopping", "ending"} => stream' = <<>>,
         UNCHANGED <<torn, spoilt, blind>>
  PROVE  AttachInv'
<1> DEFINE e == [kind |-> kind, seq |-> seqNo + 1, text |-> <<>>]
<1>1. e.kind = kind /\ e.text = <<>>
  OBVIOUS
<1> HIDE DEF e
<1>2. CarriesTurn(e, turn, turn')
  BY <1>1, TurnCarried
<1>3. InHand(items, stream, said)
  BY DEF AttachInv, SessionInv
<1> DEFINE B == Len(items)
<1>6. InReach(B)
  BY AllInReach
<1> HIDE DEF B
<1>4. /\ CarriesText(e, B, items, stream, said, items', stream', said')
      /\ InHand(items', stream', said')
  <2>1. CASE items' = items /\ stream' = stream
    BY <1>1, <1>3, <2>1, QuietCarried
  <2>2. CASE items' = Append(items, stream) /\ stream' = <<>>
    BY <1>1, <1>3, <2>2, AppendCarried, AppendInHand
  <2> QED BY <2>1, <2>2
<1>5. <<>> \in Seq(Nat)
  BY SmallTexts
<1> QED BY <1>2, <1>4, <1>5, <1>6, PublishedInv DEF e

\* A publication that says a piece of the text.
LEMMA SayInv ==
  ASSUME AttachInv, NEW kind \in Attach!Kinds, Attach!Says(kind), items' = items,
         stream' = Append(stream, said + 1),
         \/ kind = "delta" /\ turn' = turn /\ turn = "running"
         \/ kind = "user" /\ turn = "idle" /\ turn' \in {"submitted", "echoed"},
         resident' = TRUE, UNCHANGED <<torn, spoilt, blind>>
  PROVE  AttachInv'
<1>1. Attach!Publish(kind, <<said + 1>>) /\ said' = said + 1
  BY Zenon DEF Attach!Says
<1> DEFINE text == <<said + 1>>
           e == [kind |-> kind, seq |-> seqNo + 1, text |-> text]
<1>2. e.kind = kind /\ e.text = text
  OBVIOUS
<1> HIDE DEF e
<1>3. CarriesTurn(e, turn, turn')
  BY <1>2, TurnCarried
<1>4. InHand(items, stream, said) /\ said \in Nat
  BY DEF AttachInv, SessionInv, InHand
<1> DEFINE B == Len(items)
<1>8. InReach(B)
  BY AllInReach
<1> HIDE DEF B
<1>5. /\ CarriesText(e, B, items, stream, said, items', stream', said')
      /\ InHand(items', stream', said')
  BY <1>1, <1>2, <1>4, SayCarried, SayInHand
<1>6. text \in Seq(Nat)
  BY <1>4
<1>7. turn' \notin {"idle", "stopping", "ending"}
  OBVIOUS
<1> HIDE DEF text
<1> QED BY <1>1, <1>3, <1>5, <1>6, <1>7, <1>8, PublishedInv DEF e, text

\* A rewind tears the tape, or spoils a client, if it cuts below where they begin.
LEMMA RewindInv ==
  ASSUME AttachInv, Attach!Rewind PROVE AttachInv'
<1>1. /\ turn = "running" /\ stream = <<>> /\ Attach!Says("rewind")
      /\ turn' = turn /\ stream' = stream /\ resident' = resident /\ blind' = blind
  BY Zenon DEF Attach!Rewind
<1>2. PICK k \in 1 .. Len(items) - 1 :
        /\ items' = Append(SubSeq(items, 1, k), <<said + 1>>)
        /\ torn' = (torn \/ k < tape.base)
        /\ spoilt' = spoilt \cup {c \in Clients : client[c].at = "welcome" /\ k < client[c].base}
  BY DEF Attach!Rewind
<1>3. /\ InHand(items, <<>>, said) /\ said \in Nat /\ Len(items) \in Nat /\ resident = TRUE /\ tape # NoTape
  <2>1. InHand(items, stream, said) /\ resident /\ tape # NoTape
    BY <1>1 DEF AttachInv, SessionInv
  <2> QED BY <1>1, <2>1 DEF InHand, Piecewise
<1>4. tape \in Attach!Tapes /\ tape.base \in Nat /\ Base = tape.base
  BY <1>3 DEF AttachInv, AttachTyped, Attach!Tapes, Base
<1>5. k \in Nat /\ k <= Len(items)
  BY <1>2, <1>3
<1>12. InReach(k)
  <2>1. ASSUME ~torn' PROVE ~torn /\ Base <= k
    <3>1. ~torn /\ ~(k < tape.base)
      BY <1>2, <2>1, Zenon
    <3> QED BY <1>4, <1>5, <3>1
  <2>2. ASSUME NEW c \in Clients \ spoilt', client[c].at = "welcome" PROVE client[c].base <= k
    <3>1. client[c] \in ClientRec /\ ~(k < client[c].base)
      BY <1>2, <2>2 DEF AttachInv, AttachTyped
    <3> QED BY <1>5, <3>1 DEF ClientRec
  <2>3. \A c \in Clients \ spoilt' : c \notin spoilt
    BY <1>2
  <2> QED BY <1>1, <1>5, <2>1, <2>2, <2>3 DEF InReach
<1>6. Attach!Publish("rewind", <<said + 1>>) /\ said' = said + 1
  BY <1>1, Zenon DEF Attach!Says
<1> DEFINE kind == "rewind"
           text == <<said + 1>>
           e == [kind |-> kind, seq |-> seqNo + 1, text |-> text]
<1>7. e.kind = "rewind" /\ e.text = text /\ kind \in Attach!Kinds /\ kind # "user"
  BY DEF Attach!Kinds
<1> HIDE DEF e
<1>8. /\ CarriesText(e, k, items, stream, said, items', stream', said')
      /\ InHand(items', stream', said')
  <2>1. e.text = <<said + 1>>
    BY <1>7
  <2> DEFINE J == Append(SubSeq(items, 1, k), <<said + 1>>)
  <2>2. /\ CarriesText(e, k, items, <<>>, said, J, <<>>, said + 1)
        /\ InHand(J, <<>>, said + 1)
    BY <1>3, <1>5, <2>1, RewindCarried
  <2>3. items' = J /\ stream = <<>> /\ stream' = <<>> /\ said' = said + 1
    BY <1>1, <1>2, <1>6
  <2> HIDE DEF J
  <2> QED BY <2>2, <2>3, Zenon
<1>9. CarriesTurn(e, turn, turn')
  BY <1>1, <1>7, TurnCarried
<1>10. text \in Seq(Nat)
  BY <1>3
<1>11. Attach!Publish(kind, text) /\ resident' = TRUE /\ turn' = "running"
  BY <1>1, <1>3, <1>6
<1> HIDE DEF kind, text
<1> QED BY <1>1, <1>7, <1>8, <1>9, <1>10, <1>11, <1>12, PublishedInv DEF e

\* A step of the session by itself.
LEMMA TurnInvAttach ==
  ASSUME AttachInv, UNCHANGED <<items, tape, seqNo, said, stream, client>>,
         turn' = turn \/ turn' = "submitted" \/ (turn = "ending" /\ turn' = "idle"),
         turn' # "idle" => resident', resident' => tape # NoTape,
         turn' = "submitted" => turn \in {"echoed", "submitted"}, UNCHANGED <<torn, spoilt, blind>>
  PROVE  AttachInv'
<1>0. AttachTyped /\ SessionInv /\ TapeInv /\ ClientsInv
  BY DEF AttachInv
<1>1. AttachTyped'
  BY <1>0 DEF AttachTyped
<1>2. SessionInv'
  BY <1>0 DEF SessionInv
<1>3. TapeInv'
  <2>1. CASE tape = NoTape
    BY <1>0, <2>1 DEF TapeInv
  <2>2. CASE tape # NoTape
    <3>1. TapeOK(tape, items, stream, said, seqNo, turn, torn)
      BY <1>0, <2>2 DEF TapeInv
    <3>2. ~Mirror(TRUE, tape.events) => ~Mirror(FALSE, tape.events)
      BY DEF Mirror
    <3>3. Tuned(turn', Mirror(FALSE, tape.events), Mirror(TRUE, tape.events))
      BY <3>1, <3>2 DEF TapeOK, Tuned
    <3>4. TapeOK(tape, items, stream, said, seqNo, turn', torn)
      BY <3>1, <3>3 DEF TapeOK
    <3> QED BY <1>0, <2>2, <3>4 DEF TapeInv
  <2> QED BY <2>1, <2>2
<1>4. ClientsInv'
  <2>1. \A r : Agrees(turn, r) => Agrees(turn', r)
    BY DEF Agrees
  <2> QED BY <1>0, <2>1 DEF ClientsInv, ClientOK
<1> QED BY <1>1, <1>2, <1>3, <1>4 DEF AttachInv

\* The tape starts anew where the history ends: it is torn if a message is on its way
\* there, and it leaves astray a socket on its way that was told of a turn.
LEMMA ResetInv ==
  ASSUME AttachInv, Attach!ResetEnds PROVE AttachInv'
<1>1. /\ UNCHANGED <<items, seqNo, said, turn, stream, resident, client, spoilt>>
      /\ IF Attach!Settled
           THEN /\ tape' = [tape EXCEPT !.base = Len(items), !.events = <<>>]
                /\ torn' = (turn = "echoed")
                /\ blind' = blind \cup {c \in Clients : client[c].at = "info" /\ client[c].running}
           ELSE UNCHANGED <<tape, torn, blind>>
  BY Zenon DEF Attach!ResetEnds, Attach!Moved
<1>2. CASE ~Attach!Settled
  BY <1>1, <1>2 DEF AttachInv, AttachTyped, SessionInv, TapeInv, ClientsInv
<1>3. CASE Attach!Settled
  <2>1. resident /\ turn \in {"idle", "echoed"} /\ tape # NoTape
    BY <1>3 DEF Attach!Settled, Attach!IsIdle
  <2>2. /\ tape \in Attach!Tapes /\ tape.max <= seqNo /\ seqNo \in Nat
        /\ InHand(items, stream, said) /\ (turn = "idle" => stream = <<>>)
    BY <2>1 DEF AttachInv, AttachTyped, SessionInv, TapeInv, TapeOK
  <2>t. (torn' <=> turn = "echoed") /\ torn' \in BOOLEAN
    BY <1>1, <1>3
  <2> DEFINE b == Len(items)
  <2>3. b \in Nat
    BY <2>2 DEF InHand, Piecewise
  <2>4. tape' = [tape EXCEPT !.base = b, !.events = <<>>]
    BY <1>1, <1>3
  <2> HIDE DEF b
  <2>5. <<>> \in Seq(Attach!Envelope)
    OBVIOUS
  <2> DEFINE z == <<>>
  <2> HIDE DEF z
  <2>6. /\ tape' \in Attach!Tapes /\ tape'.base = b /\ tape'.events = <<>> /\ tape'.max = tape.max
    <3>1. z \in Seq(Attach!Envelope) /\ tape' = [tape EXCEPT !.base = b, !.events = z]
      BY <2>4, <2>5 DEF z
    <3>2. tape' \in Attach!Tapes /\ tape'.base = b /\ tape'.events = z /\ tape'.max = tape.max
      BY <2>2, <2>3, <3>1 DEF Attach!Tapes
    <3> QED BY <3>2 DEF z
  <2>7. TapeOK(tape', items', stream', said', seqNo', turn', torn')
    <3> DEFINE w == torn'
    <3>1. ~w => stream = <<>>
      BY <2>1, <2>2, <2>t
    <3> HIDE DEF w
    <3>2. TapeOK(tape', items, stream, said, seqNo, turn, w)
      BY <2>1, <2>2, <2>6, <3>1, EmptyTape DEF b
    <3> QED BY <1>1, <3>2 DEF w
  <2>8. AttachTyped' /\ tape' # NoTape
    BY <1>1, <2>6, AttachAssumption DEF AttachInv, AttachTyped
  <2>9. SessionInv' /\ TapeInv'
    BY <1>1, <2>2, <2>7, <2>8 DEF AttachInv, SessionInv, TapeInv
  <2>10. ClientsInv'
    <3> SUFFICES ASSUME NEW c \in Clients
                 PROVE  ClientOK(client[c], tape', items, stream, said, seqNo, turn, c \in spoilt, c \in blind')
      BY <1>1 DEF ClientsInv
    <3>1. ClientOK(client[c], tape, items, stream, said, seqNo, turn, c \in spoilt, c \in blind)
          /\ client[c] \in ClientRec
      BY DEF AttachInv, AttachTyped, ClientsInv
    <3>2. /\ c \notin blind' => c \notin blind
          /\ client[c].at = "info" /\ c \notin blind' => ~client[c].running
      BY <1>1, <1>3
    <3>3. client[c].at = "info" /\ c \notin blind' => Agrees(turn, Mirror(client[c].running, tape'.events))
      <4>1. ~client[c].running /\ client[c].running \in BOOLEAN => ~Mirror(client[c].running, <<>>)
        BY DEF Mirror
      <4> QED BY <2>1, <2>6, <3>1, <3>2, <4>1 DEF Agrees, ClientRec
    <3> QED BY <2>6, <3>1, <3>2, <3>3 DEF ClientOK
  <2> QED BY <2>8, <2>9, <2>10 DEF AttachInv
<1> QED BY <1>2, <1>3

-----------------------------------------------------------------------------
(* The steps of a client.                                                     *)

\* A step of one client, to d.
LEMMA ClientMoves ==
  ASSUME AttachInv, UNCHANGED <<items, tape, seqNo, said, turn, stream, resident>>,
         NEW c \in Clients, NEW d \in ClientRec, client' = [client EXCEPT ![c] = d],
         UNCHANGED <<torn, blind>>, spoilt \subseteq spoilt',
         ClientOK(d, tape, items, stream, said, seqNo, turn, c \in spoilt', c \in blind)
  PROVE  AttachInv'
<1>1. client \in [Clients -> ClientRec] /\ AttachTyped /\ SessionInv /\ TapeInv /\ ClientsInv
  BY DEF AttachInv, AttachTyped
<1>2. client' \in [Clients -> ClientRec] /\ \A b \in Clients : client'[b] = IF b = c THEN d ELSE client[b]
  BY <1>1
<1>3. AttachTyped'
  BY <1>1, <1>2 DEF AttachTyped
<1>4. SessionInv' /\ TapeInv'
  BY <1>1 DEF SessionInv, TapeInv
<1>5. ClientsInv'
  <2>1. ASSUME NEW b \in Clients, b # c
        PROVE  ClientOK(client[b], tape, items, stream, said, seqNo, turn, b \in spoilt', b \in blind)
    BY <1>1, <2>1 DEF ClientsInv, ClientOK
  <2> QED BY <1>2, <2>1 DEF ClientsInv
<1> QED BY <1>3, <1>4, <1>5 DEF AttachInv

LEMMA ConnectInv ==
  ASSUME AttachInv, NEW c \in Clients, Attach!Connect(c) PROVE AttachInv'
<1>1. /\ resident /\ UNCHANGED <<items, tape, seqNo, said, turn, stream, resident, torn, spoilt, blind>>
      /\ client' = [client EXCEPT ![c] = [Attach!Detached EXCEPT !.at = "info", !.running = ~Attach!IsIdle]]
  BY Zenon DEF Attach!Connect, Attach!harm
<1> DEFINE D == Attach!Detached
           a == "info"
           b == ~Attach!IsIdle
           d == [D EXCEPT !.at = a, !.running = b]
<1>2. client' = [client EXCEPT ![c] = d]
  BY <1>1, Zenon
<1>3. /\ a \in Stations /\ a = "info" /\ b \in BOOLEAN /\ (b = TRUE <=> turn \notin {"idle", "echoed"})
      /\ D \in ClientRec /\ D.queue = <<>>
  BY DetachedTyped DEF Stations, Attach!IsIdle
<1> HIDE DEF D, a, b
<1>4. d \in ClientRec /\ d.at = a /\ d.queue = D.queue /\ d.running = b
  BY <1>3 DEF ClientRec
<1> HIDE DEF d
<1>5. TapeOK(tape, items, stream, said, seqNo, turn, torn) /\ tape \in Attach!Tapes
  BY <1>1 DEF AttachInv, SessionInv, TapeInv, TapeOK
<1>6. Agrees(turn, Mirror(d.running, tape.events))
  <2>1. Mirror(FALSE, tape.events) => Mirror(TRUE, tape.events)
    BY DEF Mirror
  <2>2. Tuned(turn, Mirror(FALSE, tape.events), Mirror(TRUE, tape.events))
    BY <1>5 DEF TapeOK
  <2>3. CASE d.running = TRUE
    <3>1. turn \notin {"idle", "echoed"}
      <4>1. b = TRUE
        BY <1>4, <2>3, Zenon
      <4> QED BY <1>3, <4>1, Zenon
    <3>2. Mirror(d.running, tape.events) <=> Mirror(TRUE, tape.events)
      BY <2>3 DEF Mirror
    <3>3. Agrees(turn, Mirror(TRUE, tape.events))
      BY <2>1, <2>2, <3>1 DEF Agrees, Tuned
    <3> QED BY <3>2, <3>3 DEF Agrees
  <2>4. CASE d.running = FALSE
    <3>1. turn \in {"idle", "echoed"}
      <4>1. b = FALSE
        BY <1>4, <2>4, Zenon
      <4>2. ~(b = TRUE)
        BY <4>1, Zenon
      <4> QED BY <1>3, <4>2, Zenon
    <3>2. Mirror(d.running, tape.events) <=> Mirror(FALSE, tape.events)
      BY <2>4 DEF Mirror
    <3>3. Agrees(turn, Mirror(FALSE, tape.events))
      BY <2>1, <2>2, <3>1 DEF Agrees, Tuned
    <3> QED BY <3>2, <3>3 DEF Agrees
  <2> QED BY <1>3, <1>4, <2>3, <2>4
<1>7. ClientOK(d, tape, items, stream, said, seqNo, turn, c \in spoilt', c \in blind)
  BY <1>3, <1>4, <1>5, <1>6 DEF ClientOK
<1> QED BY <1>1, <1>2, <1>4, <1>7, ClientMoves

LEMMA AttachedInv ==
  ASSUME AttachInv, NEW c \in Clients, Attach!Attach(c) PROVE AttachInv'
<1> DEFINE D == client[c]
           a == "welcome"
           B == tape.base
           E == tape.events
           x == tape.max
           d == [D EXCEPT !.at = a, !.base = B, !.cut = E, !.max = x]
<1>1. /\ D.at = "info" /\ tape # NoTape /\ UNCHANGED <<items, tape, seqNo, said, turn, stream, resident, torn, blind>>
      /\ spoilt' = IF torn THEN spoilt \cup {c} ELSE spoilt
      /\ client' = [client EXCEPT ![c].at = "welcome", ![c].base = tape.base,
                                  ![c].cut = tape.events, ![c].max = tape.max]
  BY Zenon DEF Attach!Attach
<1>2. client \in [Clients -> ClientRec] /\ D \in ClientRec
  BY DEF AttachInv, AttachTyped
<1>3. client' = [client EXCEPT ![c] = d]
  BY <1>1, <1>2
<1>4. /\ TapeOK(tape, items, stream, said, seqNo, turn, torn) /\ tape \in Attach!Tapes
      /\ ClientOK(D, tape, items, stream, said, seqNo, turn, c \in spoilt, c \in blind)
  BY <1>1 DEF AttachInv, TapeInv, TapeOK, ClientsInv
<1>5. a \in Stations /\ a = "welcome" /\ B \in Nat /\ E \in Seq(Attach!Envelope) /\ x \in Nat
  BY <1>4 DEF Stations, Attach!Tapes
<1> HIDE DEF D, a, B, E, x
<1>6. d \in ClientRec /\ d.at = a /\ d.base = B /\ d.cut = E /\ d.max = x /\ d.queue = D.queue /\ d.running = D.running
  BY <1>2, <1>5 DEF ClientRec
<1> HIDE DEF d
<1>7. D.queue = <<>> /\ (c \notin blind => Agrees(turn, Mirror(D.running, E)))
  BY <1>1, <1>4 DEF ClientOK, E
<1>8. d.cut \o d.queue = E
  BY <1>5, <1>6, <1>7
<1>9. (c \notin spoilt' => Whole(B, E, items, stream, said)) /\ x <= seqNo
  BY <1>1, <1>4 DEF TapeOK, B, E, x
<1>10. \A i \in 1 .. Len(d.queue) : FALSE
  BY <1>5, <1>6, <1>7
<1>11. ClientOK(d, tape, items, stream, said, seqNo, turn, c \in spoilt', c \in blind)
  BY <1>4, <1>5, <1>6, <1>7, <1>8, <1>9, <1>10 DEF ClientOK
<1>12. spoilt \subseteq spoilt'
  BY <1>1
<1> QED BY <1>1, <1>3, <1>6, <1>11, <1>12, ClientMoves

LEMMA ReplayInv ==
  ASSUME AttachInv, NEW c \in Clients, Attach!Replay(c) PROVE AttachInv'
<1> DEFINE m == client[c]
           E == m.cut \o m.queue
           b == Attach!Min({m.base, Len(items)})
           P == SubSeq(items, 1, b)
           w == Attach!ReplayedHistory(c)
           sound == c \notin spoilt
           tracks == c \notin blind
<1>1. m.at = "welcome" /\ UNCHANGED <<items, tape, seqNo, said, turn, stream, resident, torn, spoilt, blind>>
  BY Zenon DEF Attach!Replay, Attach!harm
<1>2. client \in [Clients -> ClientRec] /\ m \in ClientRec /\ InHand(items, stream, said) /\ items \in Piecewise
  BY DEF AttachInv, AttachTyped, SessionInv, InHand
<1>3. m.base \in Nat /\ m.cut \in Seq(Attach!Envelope) /\ m.queue \in Seq(Attach!Envelope) /\ Len(items) \in Nat
  BY <1>2 DEF ClientRec, Piecewise
<1>4. /\ tape \in Attach!Tapes
      /\ m.max <= seqNo /\ \A i \in 1 .. Len(m.queue) : m.queue[i].seq > m.max
      /\ sound => Whole(m.base, E, items, stream, said)
      /\ tracks => Agrees(turn, Mirror(m.running, E))
  BY <1>1 DEF AttachInv, ClientsInv, ClientOK
<1>5. E \in Seq(Attach!Envelope)
  BY <1>3
<1> HIDE DEF E
<1>6. b \in Nat /\ b <= Len(items) /\ (sound => b = m.base)
  <2>1. b \in {m.base, Len(items)} /\ b <= Len(items) /\ (m.base <= Len(items) => b = m.base)
    BY <1>3 DEF Attach!Min
  <2> QED BY <1>3, <1>4, <2>1 DEF Whole
<1>7. w = Attach!Text(P)
  BY DEF Attach!ReplayedHistory
<1> HIDE DEF b, w, sound, tracks
<1>8. /\ P \in Piecewise /\ Len(P) = b /\ Ordered(P) /\ \A i \in 1 .. b : P[i] = items[i]
  BY <1>2, <1>6, TextsCut DEF InHand
<1> HIDE DEF P
<1>9. w \in Seq(Nat) /\ Rising(w) /\ Range(w) = Pieces(P)
  BY <1>7, <1>8, TextInOrder
<1>10. ASSUME sound PROVE Ordered(TextsOf(E)) /\ Before(Range(w), Shown(E))
  <2>1. Before(Range(w), Shown(E))
    <3> SUFFICES ASSUME NEW p \in Pieces(P), NEW q \in Shown(E) PROVE p < q
      BY <1>9 DEF Before
    <3>1. PICK i \in 1 .. b : p \in Range(P[i])
      BY <1>8, PiecesOf
    <3> QED BY <1>4, <1>6, <1>8, <1>10, <3>1 DEF Whole, Before
  <2> QED BY <1>4, <1>10, <2>1 DEF Whole
<1>11. PICK d : /\ client' = [client EXCEPT ![c] = d]
                /\ HasShown(d, m.max, Range(w), m.running, E, sound)
  <2> DEFINE n == m
  <2>1. /\ n \in ClientRec /\ n = client[c] /\ n.at = "welcome"
        /\ sound => Ordered(TextsOf(n.cut \o n.queue)) /\ Before(Range(w), Shown(n.cut \o n.queue))
        /\ \A i \in 1 .. Len(n.queue) : n.queue[i].seq > n.max
    BY <1>1, <1>2, <1>4, <1>10 DEF E
  <2> HIDE DEF n
  <2>2. w = Attach!ReplayedHistory(c)
    BY DEF w
  <2>3. \E d : /\ client' = [client EXCEPT ![c] = d]
               /\ HasShown(d, n.max, Range(w), n.running, n.cut \o n.queue, sound)
    BY <1>2, <1>9, <2>1, <2>2, ReplayShows
  <2> QED BY <2>3 DEF n, E
<1>12. ASSUME sound PROVE Views(d.view, items, stream, said)
  <2>0. Whole(m.base, E, items, stream, said) /\ b = m.base
    BY <1>4, <1>6, <1>12
  <2>1. Rising(d.view) /\ Range(d.view) = Pieces(P) \cup Shown(E)
    BY <1>9, <1>11, <1>12 DEF HasShown
  <2>2. Pieces(P) \subseteq Pieces(items)
    <3> SUFFICES ASSUME NEW p \in Pieces(P) PROVE p \in Pieces(items)
      OBVIOUS
    <3>1. PICK i \in 1 .. b : p \in Range(P[i])
      BY <1>8, PiecesOf
    <3>2. i \in 1 .. Len(items) /\ p \in Range(items[i])
      BY <1>3, <1>6, <1>8, <3>1
    <3> QED BY <1>2, <3>2, PiecesOf
  <2>3. \A p \in Pieces(items) : p <= said
    BY <1>2 DEF InHand
  <2>4. Pieces(items) \subseteq Pieces(P) \cup Shown(E)
    <3> SUFFICES ASSUME NEW p \in Pieces(items) PROVE p \in Pieces(P) \cup Shown(E)
      OBVIOUS
    <3>1. PICK i \in 1 .. Len(items) : p \in Range(items[i])
      BY <1>2, PiecesOf
    <3>2. CASE i <= b
      <4>1. i \in 1 .. b
        BY <1>6, <3>2
      <4>2. i \in 1 .. Len(P) /\ p \in Range(P[i])
        BY <1>8, <3>1, <4>1
      <4> QED BY <1>8, <4>2, PiecesOf
    <3>3. CASE ~(i <= b)
      <4>1. i \in m.base + 1 .. Len(items)
        BY <1>3, <2>0, <3>3
      <4> QED BY <2>0, <3>1, <4>1 DEF Whole
    <3> QED BY <3>2, <3>3
  <2> QED BY <2>0, <2>1, <2>2, <2>3, <2>4 DEF Views, Whole
<1>13. d \in ClientRec /\ d.at = "live" /\ d.max <= seqNo /\ (tracks => Agrees(turn, d.running = TRUE))
  <2>1. d \in ClientRec /\ d.at = "live" /\ d.max = m.max /\ (d.running = TRUE <=> Mirror(m.running, E))
    BY <1>11 DEF HasShown
  <2> QED BY <1>4, <2>1 DEF Agrees
<1>14. ClientOK(d, tape, items, stream, said, seqNo, turn, c \in spoilt', c \in blind)
  BY <1>1, <1>4, <1>12, <1>13 DEF ClientOK, sound, tracks
<1> QED BY <1>1, <1>11, <1>13, <1>14, ClientMoves

\* A step of the session, or of a client.
LEMMA AttachStep ==
  ASSUME AttachInv, Attach!Next PROVE AttachInv'
<1>0. SessionInv /\ TapeInv
  BY DEF AttachInv
<1>1. CASE Attach!Rehydrate
  <2>1. /\ Attach!Publish("notice", <<>>) /\ UNCHANGED <<items, said, turn, stream, torn, spoilt, blind>> /\ resident' = TRUE /\ ~resident
    BY <1>1, Zenon DEF Attach!Rehydrate, Attach!harm
  <2>2. turn = "idle" /\ stream = <<>> /\ "notice" \in Attach!Kinds
    BY <1>0, <2>1 DEF SessionInv, Attach!Kinds
  <2> QED BY <2>1, <2>2, QuietInv
<1>2. CASE Attach!Reclaim
  <2>1. turn = "idle" /\ resident' = FALSE /\ UNCHANGED <<items, tape, seqNo, said, turn, stream, client, torn, spoilt, blind>>
    BY <1>2, Zenon DEF Attach!Reclaim, Attach!harm
  <2> QED BY <2>1, TurnInvAttach
<1>3. CASE Attach!Echo
  <2>1. /\ resident /\ turn = "idle" /\ Attach!Says("user") /\ stream' = <<said + 1>>
        /\ turn' \in {"submitted", "echoed"} /\ UNCHANGED <<items, resident, torn, spoilt, blind>>
    BY <1>3, Zenon DEF Attach!Echo, Attach!harm
  <2>2. stream = <<>> /\ resident = TRUE /\ "user" \in Attach!Kinds
    BY <1>0, <2>1 DEF SessionInv, Attach!Kinds, AttachInv, AttachTyped
  <2>3. stream' = Append(stream, said + 1)
    BY <2>1, <2>2
  <2> QED BY <2>1, <2>2, <2>3, SayInv
<1>4. CASE Attach!Submit
  <2>1. turn = "echoed" /\ turn' = "submitted" /\ UNCHANGED <<items, tape, seqNo, said, stream, resident, client, torn, spoilt, blind>>
    BY <1>4, Zenon DEF Attach!Submit, Attach!harm
  <2>2. resident /\ tape # NoTape
    BY <1>0, <2>1 DEF SessionInv
  <2> QED BY <2>1, <2>2, TurnInvAttach
<1>5. CASE Attach!StartTurn
  <2>1. /\ Attach!Publish("start", <<>>) /\ UNCHANGED <<said, resident, torn, spoilt, blind>> /\ turn = "submitted" /\ turn' = "running"
        /\ items' = Append(items, stream) /\ stream' = <<>>
    BY <1>5, Zenon DEF Attach!StartTurn, Attach!harm
  <2>2. resident = TRUE /\ "start" \in Attach!Kinds
    BY <1>0, <2>1 DEF SessionInv, Attach!Kinds
  <2> QED BY <2>1, <2>2, QuietInv
<1>6. CASE Attach!Delta
  <2>1. /\ turn = "running" /\ Attach!Says("delta") /\ stream' = Append(stream, said + 1)
        /\ UNCHANGED <<items, turn, resident, torn, spoilt, blind>>
    BY <1>6, Zenon DEF Attach!Delta, Attach!harm
  <2>2. resident = TRUE /\ "delta" \in Attach!Kinds
    BY <1>0, <2>1 DEF SessionInv, Attach!Kinds
  <2> QED BY <2>1, <2>2, SayInv
<1>7. CASE Attach!Complete
  <2>1. /\ Attach!Publish("complete", <<>>) /\ UNCHANGED <<said, turn, resident, torn, spoilt, blind>> /\ turn = "running"
        /\ items' = Append(items, stream) /\ stream' = <<>>
    BY <1>7, Zenon DEF Attach!Complete, Attach!harm
  <2>2. resident = TRUE /\ "complete" \in Attach!Kinds
    BY <1>0, <2>1 DEF SessionInv, Attach!Kinds
  <2> QED BY <2>1, <2>2, QuietInv
<1>8. CASE Attach!Notice
  <2>1. /\ Attach!Publish("notice", <<>>) /\ UNCHANGED <<items, said, turn, stream, resident, torn, spoilt, blind>> /\ resident
        /\ turn \in {"running", "echoed"}
    BY <1>8, Zenon DEF Attach!Notice, Attach!harm
  <2>2. resident = TRUE /\ "notice" \in Attach!Kinds
    BY <2>1 DEF Attach!Kinds, AttachInv, AttachTyped
  <2> QED BY <2>1, <2>2, QuietInv
<1>9. CASE Attach!Rewind
  BY <1>9, RewindInv
<1>10. CASE Attach!Interrupt
  <2>1. /\ Attach!Publish("interrupt", <<>>) /\ UNCHANGED <<said, resident, torn, spoilt, blind>> /\ turn = "running" /\ turn' = "stopping"
        /\ items' = IF stream = <<>> THEN items ELSE Append(items, stream)
        /\ stream' = <<>>
    BY <1>10, Zenon DEF Attach!Interrupt, Attach!harm
  <2>2. resident = TRUE /\ "interrupt" \in Attach!Kinds
    BY <1>0, <2>1 DEF SessionInv, Attach!Kinds
  <2>3. \/ items' = items /\ stream' = stream
        \/ items' = Append(items, stream) /\ stream' = <<>>
    BY <2>1
  <2> QED BY <2>1, <2>2, <2>3, QuietInv
<1>11. CASE Attach!Finish
  <2>1. /\ Attach!Publish("finish", <<>>) /\ UNCHANGED <<items, said, stream, resident, torn, spoilt, blind>>
        /\ turn \in {"running", "stopping"} /\ turn' = "ending" /\ stream = <<>>
    BY <1>11, Zenon DEF Attach!Finish, Attach!harm
  <2>2. resident = TRUE /\ "finish" \in Attach!Kinds
    BY <1>0, <2>1 DEF SessionInv, Attach!Kinds
  <2> QED BY <2>1, <2>2, QuietInv
<1>12. CASE Attach!LeaveTask
  <2>1. turn = "ending" /\ turn' = "idle" /\ UNCHANGED <<items, tape, seqNo, said, stream, resident, client, torn, spoilt, blind>>
    BY <1>12, Zenon DEF Attach!LeaveTask, Attach!harm
  <2> QED BY <1>0, <2>1, TurnInvAttach DEF SessionInv
<1>13. CASE Attach!ResetSeesIdle \/ Attach!ResetGivesUp \/ Attach!ResetFlushed
  <2>1. UNCHANGED <<items, tape, seqNo, said, turn, stream, resident, client, torn, spoilt, blind>>
    BY <1>13, Zenon DEF Attach!ResetSeesIdle, Attach!ResetGivesUp, Attach!ResetFlushed, Attach!Moved,
                 Attach!harm
  <2>2. turn' # "idle" => resident'
    BY <1>0, <2>1 DEF SessionInv
  <2>3. resident' => tape # NoTape
    BY <1>0, <2>1 DEF SessionInv
  <2> QED BY <2>1, <2>2, <2>3, TurnInvAttach
<1>14. CASE Attach!ResetEnds
  BY <1>14, ResetInv
<1>15. CASE \E c \in Clients : Attach!Connect(c) \/ Attach!Attach(c) \/ Attach!Replay(c)
  BY <1>15, ConnectInv, AttachedInv, ReplayInv
<1>16. Attach!Session \/ \E c \in Clients : Attach!Connect(c) \/ Attach!Attach(c) \/ Attach!Replay(c)
  BY DEF Attach!Next
<1>17. CASE Attach!Session
  BY <1>1, <1>2, <1>3, <1>4, <1>5, <1>6, <1>7, <1>8, <1>9, <1>10, <1>11, <1>12, <1>13, <1>14, <1>17
     DEF Attach!Session
<1> QED BY <1>15, <1>16, <1>17

\* The invariant holds every client to what it is promised.
LEMMA AttachShows == ASSUME AttachInv PROVE Attach!WholeUnlessTorn /\ Attach!MirrorAgrees
<1>1. ASSUME NEW c \in Clients, client[c].at = "live"
      PROVE  /\ client[c].view \in Seq(Nat) /\ client[c].running \in BOOLEAN
             /\ c \notin spoilt => /\ Rising(client[c].view)
                                 /\ Pieces(items) \cup Range(stream) \subseteq Range(client[c].view)
             /\ c \notin blind => /\ (turn = "running" => client[c].running = TRUE)
                                /\ (turn = "idle" => ~(client[c].running = TRUE))
  <2>1. ClientOK(client[c], tape, items, stream, said, seqNo, turn, c \in spoilt, c \in blind) /\ client[c] \in ClientRec
    BY DEF AttachInv, AttachTyped, ClientsInv
  <2>2. /\ c \notin spoilt => Views(client[c].view, items, stream, said)
        /\ c \notin blind => Agrees(turn, client[c].running = TRUE)
    BY <1>1, <2>1 DEF ClientOK
  <2>3. client[c].view \in Seq(Nat) /\ client[c].running \in BOOLEAN
    BY <2>1 DEF ClientRec
  <2> QED BY <2>2, <2>3 DEF Views, Agrees
<1>2. Range(Attach!Text(items)) = Pieces(items)
  <2>1. items \in Piecewise /\ Ordered(items)
    BY DEF AttachInv, SessionInv, InHand
  <2> QED BY <2>1, TextInOrder
<1>3. \A f : Attach!Range(f) = Range(f)
  BY DEF Attach!Range, Range
<1>4. ASSUME NEW c \in Clients \ spoilt, client[c].at = "live", NEW i \in 1 .. Len(client[c].view) - 1
      PROVE  client[c].view[i] < client[c].view[i + 1]
  <2> DEFINE v == client[c].view
  <2>1. Rising(v) /\ v \in Seq(Nat)
    BY <1>1, <1>4
  <2> HIDE DEF v
  <2>2. ASSUME NEW j \in 1 .. Len(v) - 1 PROVE v[j] < v[j + 1]
    <3>1. Len(v) \in Nat
      BY <2>1
    <3>2. j \in 1 .. Len(v) /\ j + 1 \in 1 .. Len(v) /\ j < j + 1
      BY <3>1
    <3> QED BY <2>1, <3>2 DEF Rising
  <2> QED BY <2>2 DEF v
<1>5. Attach!WholeUnlessTorn
  BY <1>1, <1>2, <1>3, <1>4 DEF Attach!WholeUnlessTorn, Attach!ShownWhole
<1>6. Attach!MirrorAgrees
  BY <1>1 DEF Attach!MirrorAgrees
<1> QED BY <1>5, <1>6

LEMMA AttachStutters == ASSUME AttachInv, UNCHANGED attachVars PROVE AttachInv'
<1>1. UNCHANGED <<items, tape, seqNo, said, turn, stream, resident, client, torn, spoilt, blind>> /\ SessionInv
  BY DEF attachVars, AttachInv
<1>2. (turn' # "idle" => resident') /\ (resident' => tape # NoTape)
  BY <1>1 DEF SessionInv
<1> QED BY <1>1, <1>2, TurnInvAttach

(* AttachReplay: whenever a client attaches, and whatever the session         *)
(* publishes meanwhile, what the splice of history, tape and live stream      *)
(* shows it is the conversation, every piece once and in order, and its       *)
(* mirror of the session is right.  Nothing the code admits is assumed away:  *)
(* a rewind may reach behind the base of the tape, an event may come between  *)
(* a client's message and its run request, and the tape may be reset while a  *)
(* socket loads its usage snapshot.  The only clients left out are those that *)
(* were cut off a torn tape, whose part of the history a rewind cut before    *)
(* they read it, or whose running turn the reset tape no longer ends.         *)
THEOREM ReplayIsWhole == Spec => []AttachWhole
<1> DEFINE Inv == which = "attach" => AttachInv
<1>1. Init => Inv
  BY AttachStart DEF Init
<1>2. Inv /\ [Next]_vars => Inv'
  <2>1. ASSUME Inv, [Next]_vars, which = "attach" PROVE AttachInv'
    <3>1. [Attach!Next]_attachVars
      BY <2>1, AttachAlone
    <3> QED BY <2>1, <3>1, AttachStep, AttachStutters
  <2> QED BY <2>1, AttachAlone
<1>3. Inv => AttachWhole
  BY AttachShows DEF AttachWhole
<1> QED BY <1>1, <1>2, <1>3, PTL DEF Spec

=============================================================================
