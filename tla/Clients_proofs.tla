--------------------------- MODULE Clients_proofs ---------------------------
(* Proofs about the two components MCComponents checks that sit at a client: *)
(* the follow-up drain and the socket, each from an inductive invariant of   *)
(* its own module.                                                           *)
EXTENDS MCComponents, Integers, Sequences, TLAPS

-----------------------------------------------------------------------------
(* A step of the whole is a step of the component it is about, or leaves     *)
(* that component alone.                                                     *)

LEMMA AboutOne ==
  ASSUME [Next]_vars
  PROVE  /\ which' = which
         /\ which = "client" => [Client!Next]_clientVars
         /\ which = "drain" => [Drain!Next]_drainVars
<1>1. CASE UNCHANGED vars
  BY <1>1 DEF vars
<1>2. CASE Next
  BY <1>2 DEF Next, OthersRest, AboutHistory, AboutStore, AboutAttach, AboutTurn, AboutClient,
              AboutServer, AboutDrain, AboutDisplay, AboutFiles, AboutChildren
<1> QED BY <1>1, <1>2

-----------------------------------------------------------------------------
(* InteractiveDrain: whatever leaves a message in the queue, an event that    *)
(* arms a drain is still to be read, or to come.                              *)

Whats == {"start", "user", "finish", "error", "queue", "empty", "done", "esc", "kill", "rejected"}
Notices == [what : Whats, of : Msgs \cup {None}]

\* Events that lift a latch, or answer a turn that is believed to start.
Lifts == {"start", "user", "finish", "esc", "rejected"}

Says(s, w) == \E i \in 1 .. Len(s) : s[i].what = w
Refuses(s, m) == \E i \in 1 .. Len(s) : s[i] = Drain!Rejected(m)
Covered(s) ==
  \A i \in 1 .. Len(s) : s[i].what \in Lifts => \E j \in i + 1 .. Len(s) : s[j].what = "done"

LEMMA EventsGrow ==
  ASSUME NEW s \in Seq(Notices), NEW t \in Seq(Notices)
  PROVE  /\ s \o t \in Seq(Notices)
         /\ \A w : Says(s \o t, w) <=> Says(s, w) \/ Says(t, w)
         /\ \A m : Refuses(s \o t, m) <=> Refuses(s, m) \/ Refuses(t, m)
         /\ Covered(s) /\ (\A w \in Lifts : ~Says(t, w)) => Covered(s \o t)
         /\ t # <<>> /\ t[Len(t)].what = "done" => Covered(s \o t)
<1> DEFINE r == s \o t
<1>1. /\ r \in Seq(Notices) /\ Len(s) \in Nat /\ Len(t) \in Nat /\ Len(r) = Len(s) + Len(t)
      /\ \A i \in 1 .. Len(s) : r[i] = s[i]
      /\ \A i \in 1 .. Len(t) : r[i + Len(s)] = t[i]
  OBVIOUS
<1>2. ASSUME NEW i \in 1 .. Len(r)
      PROVE  i \in 1 .. Len(s) \/ \E j \in 1 .. Len(t) : i = j + Len(s)
  <2>1. CASE i <= Len(s)
    BY <2>1, <1>1
  <2>2. CASE i > Len(s)
    <3>1. i - Len(s) \in 1 .. Len(t) /\ i = (i - Len(s)) + Len(s)
      BY <2>2, <1>1
    <3> QED BY <3>1
  <2> QED BY <2>1, <2>2, <1>1
<1>3. /\ \A i \in 1 .. Len(s) : i \in 1 .. Len(r)
      /\ \A i \in 1 .. Len(t) : i + Len(s) \in 1 .. Len(r)
  BY <1>1
<1> HIDE DEF r
<1>4. ASSUME NEW w PROVE Says(r, w) <=> Says(s, w) \/ Says(t, w)
  <2>1. ASSUME Says(r, w) PROVE Says(s, w) \/ Says(t, w)
    <3>1. PICK i \in 1 .. Len(r) : r[i].what = w
      BY <2>1 DEF Says
    <3>2. CASE i \in 1 .. Len(s)
      BY <3>1, <3>2, <1>1 DEF Says
    <3>3. ASSUME NEW j \in 1 .. Len(t), i = j + Len(s) PROVE Says(t, w)
      BY <3>1, <3>3, <1>1 DEF Says
    <3> QED BY <3>2, <3>3, <1>2
  <2>2. ASSUME Says(s, w) \/ Says(t, w) PROVE Says(r, w)
    BY <2>2, <1>1, <1>3 DEF Says
  <2> QED BY <2>1, <2>2
<1>5. ASSUME NEW m PROVE Refuses(r, m) <=> Refuses(s, m) \/ Refuses(t, m)
  BY <1>1, <1>2, <1>3, ZenonT(60) DEF Refuses
<1>6. ASSUME Covered(s), \A w \in Lifts : ~Says(t, w) PROVE Covered(r)
  <2> SUFFICES ASSUME NEW i \in 1 .. Len(r), r[i].what \in Lifts
               PROVE  \E j \in i + 1 .. Len(r) : r[j].what = "done"
    BY DEF Covered
  <2>1. i \in 1 .. Len(s) /\ r[i] = s[i]
    BY <1>1, <1>2, <1>6 DEF Says
  <2>2. PICK j \in i + 1 .. Len(s) : s[j].what = "done"
    BY <2>1, <1>6 DEF Covered
  <2>3. j \in i + 1 .. Len(r) /\ j \in 1 .. Len(s)
    BY <2>1, <2>2, <1>1
  <2> QED BY <2>2, <2>3, <1>1
<1>7. ASSUME t # <<>>, t[Len(t)].what = "done" PROVE Covered(r)
  <2>1. Len(r) \in 1 .. Len(r) /\ r[Len(r)] = t[Len(t)] /\ r[Len(r)].what \notin Lifts
    <3>1. Len(t) \in 1 .. Len(t)
      BY <1>7, <1>1
    <3> QED BY <3>1, <1>1, <1>7 DEF Lifts
  <2> SUFFICES ASSUME NEW i \in 1 .. Len(r), r[i].what \in Lifts
               PROVE  \E j \in i + 1 .. Len(r) : r[j].what = "done"
    BY DEF Covered
  <2>2. i # Len(r)
    BY <2>1
  <2>3. Len(r) \in Nat /\ i \in Nat
    BY <1>1
  <2>4. Len(r) \in i + 1 .. Len(r)
    BY <2>2, <2>3
  <2> QED BY <2>1, <2>4, <1>1, <1>7
<1> QED BY <1>1, <1>4, <1>5, <1>6, <1>7 DEF r

LEMMA EventRead ==
  ASSUME NEW s \in Seq(Notices), s # <<>>
  PROVE  /\ Head(s) \in Notices /\ Tail(s) \in Seq(Notices)
         /\ \A w : Says(s, w) <=> Head(s).what = w \/ Says(Tail(s), w)
         /\ \A m : Refuses(s, m) <=> Head(s) = Drain!Rejected(m) \/ Refuses(Tail(s), m)
         /\ Covered(s) => Covered(Tail(s)) /\ (Head(s).what \in Lifts => Says(Tail(s), "done"))
<1> DEFINE t == Tail(s)
<1>1. /\ Head(s) = s[1] /\ Head(s) \in Notices /\ Len(s) >= 1 /\ Len(s) \in Nat
      /\ t \in Seq(Notices) /\ Len(t) = Len(s) - 1
      /\ \A i \in 1 .. Len(t) : t[i] = s[i + 1]
  OBVIOUS
<1>2. 1 \in 1 .. Len(s) /\ \A i \in 1 .. Len(t) : i + 1 \in 1 .. Len(s)
  BY <1>1
<1>3. ASSUME NEW i \in 1 .. Len(s) PROVE i = 1 \/ \E j \in 1 .. Len(t) : i = j + 1
  <2>1. i = 1 \/ (i - 1 \in 1 .. Len(t) /\ i = (i - 1) + 1)
    BY <1>1
  <2> QED BY <2>1
<1> HIDE DEF t
<1>4. ASSUME NEW w PROVE Says(s, w) <=> s[1].what = w \/ Says(t, w)
  BY <1>1, <1>2, <1>3, ZenonT(60) DEF Says
<1>5. ASSUME NEW m PROVE Refuses(s, m) <=> s[1] = Drain!Rejected(m) \/ Refuses(t, m)
  BY <1>1, <1>2, <1>3, ZenonT(60) DEF Refuses
<1>6. ASSUME Covered(s), NEW i \in 1 .. Len(s), s[i].what \in Lifts
      PROVE  \E j \in i .. Len(t) : t[j].what = "done"
  <2>1. PICK k \in i + 1 .. Len(s) : s[k].what = "done"
    BY <1>6 DEF Covered
  <2>2. k - 1 \in i .. Len(t) /\ k - 1 \in 1 .. Len(t) /\ (k - 1) + 1 = k
    BY <1>1, <2>1
  <2> QED BY <2>1, <2>2, <1>1
<1>7. ASSUME Covered(s) PROVE Covered(t)
  <2> SUFFICES ASSUME NEW i \in 1 .. Len(t), t[i].what \in Lifts
               PROVE  \E j \in i + 1 .. Len(t) : t[j].what = "done"
    BY DEF Covered
  <2>1. i + 1 \in 1 .. Len(s) /\ s[i + 1].what \in Lifts
    BY <1>1, <1>2
  <2> QED BY <2>1, <1>6, <1>7
<1>8. ASSUME Covered(s), s[1].what \in Lifts PROVE Says(t, "done")
  BY <1>2, <1>6, <1>8 DEF Says
<1> QED BY <1>1, <1>4, <1>5, <1>7, <1>8 DEF t

Agents == [up : {TRUE}, mem : Seq(Msgs), flight : Msgs \cup {None}]

DrainTypes ==
  /\ agent \in Agents
  /\ mail \in Seq(Drain!Operations) /\ root \in Drain!Operations \cup {None}
  /\ published \in Seq(Notices)
  /\ failed \in BOOLEAN /\ interrupted \in BOOLEAN /\ stopped \in BOOLEAN
  /\ starting \in Msgs \cup {None} /\ waiting \in Nat
  /\ drain \in {"free", "polls", "compacts", "runs", "flushes"}
  /\ accepted \in Seq(Msgs) /\ acked \in Seq(Msgs)

Mailed(m) == \E i \in 1 .. Len(mail) : mail[i] = Drain!Turn(m)
Armed == failed \/ interrupted \/ stopped \/ waiting > 0 \/ Says(published, "done") \/ ~Drain!Idle

\* One drain has the head in its hands while it runs it.
OneInFlight == drain \in {"runs", "flushes"} <=> agent.flight # None
\* What lifts a latch is followed by what arms a drain.
LiftsArm == Drain!Idle => Covered(published)
StartIsAnswered ==
  starting # None => Mailed(starting) \/ Says(published, "start") \/ Refuses(published, starting)
LeftIsArmed ==
  (agent.mem # <<>> \/ agent.flight # None) /\ drain \in {"free", "runs"} => Armed

DrainInv == DrainTypes /\ OneInFlight /\ LiftsArm /\ StartIsAnswered /\ LeftIsArmed /\ Drain!InOrder

\* The queue of the agent.
LEMMA AgentMoves ==
  ASSUME agent \in Agents
  PROVE  /\ \A m \in Msgs : /\ Drain!FollowUp(agent, m) \in Agents
                            /\ Drain!FollowUp(agent, m).mem = Append(agent.mem, m)
                            /\ Drain!FollowUp(agent, m).flight = agent.flight
         /\ Drain!Peek(agent) = None <=> agent.mem = <<>>
         /\ agent.mem # <<>> => /\ Drain!Peek(agent) = Head(agent.mem)
                                /\ Head(agent.mem) \in Msgs
                                /\ Drain!Begin(agent) \in Agents
                                /\ Drain!Begin(agent).mem = Tail(agent.mem)
                                /\ Drain!Begin(agent).flight = Head(agent.mem)
         /\ agent.flight # None => /\ agent.flight \in Msgs
                                   /\ Drain!Abort(agent) \in Agents
                                   /\ Drain!Abort(agent).mem = <<agent.flight>> \o agent.mem
                                   /\ Drain!Abort(agent).flight = None
                                   /\ Drain!Acknowledge(agent, agent.flight) \in Agents
                                   /\ Drain!Acknowledge(agent, agent.flight).mem = agent.mem
                                   /\ Drain!Acknowledge(agent, agent.flight).flight = None
         /\ Drain!PopAll(agent) \in Agents
         /\ Drain!PopAll(agent).mem = <<>> /\ Drain!PopAll(agent).flight = agent.flight
<1>0. agent.up = TRUE /\ agent.mem \in Seq(Msgs) /\ agent.flight \in Msgs \cup {None} /\ None \notin Msgs
  BY DrainAssumption DEF Agents
<1>1. ASSUME NEW m \in Msgs
      PROVE  /\ Drain!FollowUp(agent, m) \in Agents
             /\ Drain!FollowUp(agent, m).mem = Append(agent.mem, m)
             /\ Drain!FollowUp(agent, m).flight = agent.flight
  <2>1. Append(agent.mem, m) \in Seq(Msgs)
    BY <1>0
  <2> QED BY <2>1, <1>0 DEF Agents, Drain!FollowUp
<1>2. agent.mem # <<>> => Head(agent.mem) \in Msgs /\ Tail(agent.mem) \in Seq(Msgs)
  BY <1>0
<1>3. Drain!Peek(agent) = None <=> agent.mem = <<>>
  BY <1>0, <1>2 DEF Drain!Peek
<1>4. ASSUME agent.mem # <<>>
      PROVE  /\ Drain!Peek(agent) = Head(agent.mem)
             /\ Drain!Begin(agent) \in Agents
             /\ Drain!Begin(agent).mem = Tail(agent.mem)
             /\ Drain!Begin(agent).flight = Head(agent.mem)
  BY <1>0, <1>2, <1>4 DEF Agents, Drain!Begin, Drain!Peek
<1>5. ASSUME agent.flight # None
      PROVE  /\ agent.flight \in Msgs
             /\ Drain!Abort(agent) \in Agents
             /\ Drain!Abort(agent).mem = <<agent.flight>> \o agent.mem
             /\ Drain!Abort(agent).flight = None
  <2>1. <<agent.flight>> \o agent.mem \in Seq(Msgs)
    BY <1>0, <1>5
  <2> QED BY <2>1, <1>0, <1>5 DEF Agents, Drain!Abort
<1>6. ASSUME agent.flight # None
      PROVE  /\ Drain!Acknowledge(agent, agent.flight) \in Agents
             /\ Drain!Acknowledge(agent, agent.flight).mem = agent.mem
             /\ Drain!Acknowledge(agent, agent.flight).flight = None
  BY <1>0 DEF Agents, Drain!Acknowledge
<1>7. /\ Drain!PopAll(agent) \in Agents
      /\ Drain!PopAll(agent).mem = <<>> /\ Drain!PopAll(agent).flight = agent.flight
  <2>1. <<>> \in Seq(Msgs)
    OBVIOUS
  <2> QED BY <2>1, <1>0 DEF Agents, Drain!PopAll
<1> QED BY <1>1, <1>2, <1>3, <1>4, <1>5, <1>6, <1>7

LEMMA MailOf ==
  ASSUME NEW m \in Msgs
  PROVE  /\ Drain!Turn(m) \in Drain!Operations /\ Drain!Compact(m) \in Drain!Operations
         /\ Drain!FollowUpOp(m) \in Drain!Operations /\ Drain!Compact(None) \in Drain!Operations
         /\ Drain!Other \in Drain!Operations
BY DEF Drain!Operations, Drain!Turn, Drain!Compact, Drain!FollowUpOp, Drain!Other

\* What the actor takes next; the mailbox is then empty or not.
LEMMA MailTaken ==
  ASSUME mail \in Seq(Drain!Operations), mail # <<>>
  PROVE  /\ Head(mail) \in Drain!Operations /\ Tail(mail) \in Seq(Drain!Operations)
         /\ Head(mail) # None
         /\ Head(mail).kind \in {"turn", "follow"} => Head(mail).id \in Msgs
         /\ \A m : Mailed(m) =>
              Head(mail) = Drain!Turn(m) \/ \E i \in 1 .. Len(Tail(mail)) : Tail(mail)[i] = Drain!Turn(m)
<1>1. Head(mail) \in Drain!Operations /\ Tail(mail) \in Seq(Drain!Operations)
  OBVIOUS
<1>2. ASSUME NEW m, Mailed(m), Head(mail) # Drain!Turn(m)
      PROVE  \E i \in 1 .. Len(Tail(mail)) : Tail(mail)[i] = Drain!Turn(m)
  <2>1. PICK i \in 1 .. Len(mail) : mail[i] = Drain!Turn(m)
    BY <1>2 DEF Mailed
  <2>2. i # 1
    BY <2>1, <1>2
  <2>3. i - 1 \in 1 .. Len(Tail(mail)) /\ Tail(mail)[i - 1] = mail[i]
    BY <2>2
  <2> QED BY <2>1, <2>3
<1>3. Head(mail) # None
  BY <1>1, DrainAssumption
<1>4. Head(mail).kind \in {"turn", "follow"} => Head(mail).id \in Msgs
  BY <1>1 DEF Drain!Operations, Drain!Compact, Drain!Other
<1> QED BY <1>1, <1>2, <1>3, <1>4

LEMMA MailSent ==
  ASSUME mail \in Seq(Drain!Operations), NEW o \in Drain!Operations, mail' = Append(mail, o)
  PROVE  /\ mail' \in Seq(Drain!Operations) /\ mail' # <<>>
         /\ \A m : Mailed(m) \/ o = Drain!Turn(m) => Mailed(m)'
<1>1. /\ mail' \in Seq(Drain!Operations) /\ mail' # <<>> /\ Len(mail') = Len(mail) + 1 /\ Len(mail) \in Nat
      /\ \A i \in 1 .. Len(mail) : mail'[i] = mail[i]
      /\ mail'[Len(mail) + 1] = o
  OBVIOUS
<1>2. ASSUME NEW m, Mailed(m) PROVE Mailed(m)'
  BY <1>1, <1>2 DEF Mailed
<1>3. ASSUME NEW m, o = Drain!Turn(m) PROVE Mailed(m)'
  <2>1. Len(mail) + 1 \in 1 .. Len(mail')
    BY <1>1
  <2> QED BY <2>1, <1>1, <1>3 DEF Mailed
<1> QED BY <1>1, <1>2, <1>3

\* What is published is read later.
LEMMA Emission ==
  ASSUME published \in Seq(Notices), NEW s \in Seq(Whats), Drain!Emits(s)
  PROVE  /\ published' \in Seq(Notices)
         /\ \A w : Says(published, w) => Says(published', w)
         /\ \A i \in 1 .. Len(s) : Says(published', s[i])
         /\ \A m : Refuses(published, m) => Refuses(published', m)
         /\ Covered(published) /\ (\A i \in 1 .. Len(s) : s[i] \notin Lifts) => Covered(published')
         /\ s # <<>> /\ s[Len(s)] = "done" => Covered(published')
<1> DEFINE t == [i \in DOMAIN s |-> Drain!Event(s[i])]
<1>1. t \in Seq(Notices) /\ Len(t) = Len(s) /\ (s # <<>> => t # <<>>)
  <2>1. t \in [1 .. Len(s) -> Notices]
    BY DEF Notices, Drain!Event
  <2> QED BY <2>1
<1>2. /\ \A i \in 1 .. Len(s) : t[i].what = s[i]
      /\ s # <<>> => Len(s) \in 1 .. Len(s)
  BY DEF Drain!Event
<1>3. published' = published \o t
  BY DEF Drain!Emits
<1> HIDE DEF t
<1>4. \A i \in 1 .. Len(s) : Says(t, s[i])
  BY <1>1, <1>2 DEF Says
<1>5. ASSUME \A i \in 1 .. Len(s) : s[i] \notin Lifts, NEW w \in Lifts PROVE ~Says(t, w)
  BY <1>1, <1>2, <1>5 DEF Says
<1> QED BY <1>1, <1>2, <1>3, <1>4, <1>5, EventsGrow

\* Events are only added, and so are operations.
Heard ==
  /\ published' \in Seq(Notices)
  /\ \A w : Says(published, w) => Says(published', w)
  /\ \A m : Refuses(published, m) => Refuses(published', m)

LEMMA NothingSaid ==
  ASSUME published \in Seq(Notices), published' = published PROVE Heard
BY DEF Heard

LEMMA SaidSome ==
  ASSUME published \in Seq(Notices), NEW s \in Seq(Whats), Drain!Emits(s) PROVE Heard
BY Emission DEF Heard

LEMMA StartKept ==
  ASSUME DrainTypes, StartIsAnswered, Heard,
         mail' = mail \/ \E o \in Drain!Operations : mail' = Append(mail, o),
         \/ starting' = starting
         \/ starting' \in Msgs /\ mail' = Append(mail, Drain!Turn(starting'))
  PROVE  StartIsAnswered'
<1>0. starting \in Msgs \cup {None} /\ mail \in Seq(Drain!Operations)
  BY DEF DrainTypes
<1>1. PICK m : m = starting'
  OBVIOUS
<1>2. starting' # None => Mailed(m)' \/ Says(published', "start") \/ Refuses(published', m)
  <2>1. CASE starting' = starting
    <3>1. Mailed(m) => Mailed(m)'
      <4>1. CASE mail' = mail
        BY <4>1 DEF Mailed
      <4>2. ASSUME NEW o \in Drain!Operations, mail' = Append(mail, o) PROVE Mailed(m) => Mailed(m)'
        BY <4>2, <1>0, MailSent
      <4> QED BY <4>1, <4>2
    <3> QED BY <3>1, <2>1, <1>1 DEF StartIsAnswered, Heard
  <2>2. CASE starting' \in Msgs /\ mail' = Append(mail, Drain!Turn(starting'))
    <3>1. Drain!Turn(m) \in Drain!Operations /\ mail' = Append(mail, Drain!Turn(m))
      BY <1>1, <2>2, MailOf
    <3> QED BY <3>1, <1>0, MailSent
  <2> QED BY <2>1, <2>2
<1> QED BY <1>1, <1>2 DEF StartIsAnswered, Mailed

LEMMA QueueLeft ==
  ASSUME DrainInv, Heard,
         UNCHANGED <<agent, drain, accepted, acked>>,
         failed' \in BOOLEAN, interrupted' \in BOOLEAN, stopped' \in BOOLEAN, waiting' \in Nat,
         root' \in Drain!Operations \cup {None},
         mail' = mail \/ \E o \in Drain!Operations : mail' = Append(mail, o),
         \/ starting' = starting
         \/ starting' \in Msgs /\ mail' = Append(mail, Drain!Turn(starting')),
         LiftsArm', LeftIsArmed'
  PROVE  DrainInv'
<1>0. DrainTypes /\ starting \in Msgs \cup {None} /\ mail \in Seq(Drain!Operations)
  BY DEF DrainInv, DrainTypes
<1>1. mail' \in Seq(Drain!Operations)
  BY <1>0, MailSent
<1>2. DrainTypes'
  BY <1>0, <1>1 DEF DrainTypes, Heard
<1>3. StartIsAnswered'
  BY StartKept DEF DrainInv
<1>4. OneInFlight' /\ Drain!InOrder'
  BY DEF DrainInv, OneInFlight, Drain!InOrder, Drain!Running
<1> QED BY <1>2, <1>3, <1>4 DEF DrainInv

\* An operation in the mailbox or the slot: a drain is armed when it ends.
LEMMA Busy ==
  ASSUME mail' # <<>> \/ root' # None PROVE LiftsArm' /\ LeftIsArmed'
BY DEF LiftsArm, LeftIsArmed, Armed, Drain!Idle

LEMMA ClientSteps ==
  ASSUME DrainInv,
         \/ \E well \in BOOLEAN : Drain!TaskEnds(well)
         \/ Drain!OpEnds \/ Drain!OtherOperation \/ Drain!Esc \/ Drain!Attach
         \/ \E m \in Msgs : Drain!SendTurn(m) \/ Drain!Compacted(m) \/ Drain!SendFollowUp(m) \/ Drain!Queued(m)
  PROVE  DrainInv'
<1>0. DrainTypes /\ LiftsArm
  BY DEF DrainInv
<1>w. /\ <<>> \in Seq(Whats)
      /\ \A a, b, c \in Whats : <<a>> \in Seq(Whats) /\ <<a, b>> \in Seq(Whats) /\ <<a, b, c>> \in Seq(Whats)
  OBVIOUS
<1>s. Drain!Snapshot(agent) \in {"empty", "queue"} /\ {"empty", "queue"} \subseteq Whats
  BY DEF Drain!Snapshot, Whats
<1>t. published \in Seq(Notices) /\ waiting \in Nat
      /\ failed \in BOOLEAN /\ interrupted \in BOOLEAN /\ stopped \in BOOLEAN
      /\ root \in Drain!Operations \cup {None} /\ mail \in Seq(Drain!Operations)
  BY <1>0 DEF DrainTypes
<1>1. ASSUME NEW well \in BOOLEAN, Drain!TaskEnds(well) PROVE DrainInv'
  <2>1. /\ UNCHANGED <<agent, drain, accepted, acked, mail, root, waiting, starting>>
        /\ UNCHANGED <<failed, interrupted, stopped>> /\ root # None
    BY <1>1 DEF Drain!TaskEnds, Drain!latches, Drain!history
  <2>2. Heard
    <3>1. \E s \in Seq(Whats) : Drain!Emits(s)
      BY <1>1, <1>w, ZenonT(60) DEF Drain!TaskEnds, Whats
    <3> QED BY <3>1, <1>t, SaidSome
  <2> QED BY <2>1, <2>2, <1>t, Busy, QueueLeft
<1>2. CASE Drain!OpEnds
  <2>1. /\ UNCHANGED <<agent, drain, accepted, acked, mail, waiting, starting>>
        /\ UNCHANGED <<failed, interrupted, stopped>> /\ root' = None
        /\ Drain!Emits(<<"done">>)
    BY <1>2 DEF Drain!OpEnds, Drain!latches, Drain!history
  <2>2. Heard /\ LiftsArm' /\ LeftIsArmed'
    <3>1. <<"done">> \in Seq(Whats) /\ Len(<<"done">>) = 1 /\ <<"done">>[1] = "done" /\ <<"done">> # <<>>
      BY DEF Whats
    <3>2. 1 \in 1 .. 1
      OBVIOUS
    <3> QED BY <2>1, <3>1, <3>2, <1>t, Emission DEF Heard, LiftsArm, LeftIsArmed, Armed
  <2> QED BY <2>1, <2>2, <1>t, QueueLeft
<1>3. CASE Drain!OtherOperation
  <2>1. /\ UNCHANGED <<agent, drain, accepted, acked, root, waiting, starting, published>>
        /\ UNCHANGED <<failed, interrupted, stopped>> /\ mail' = Append(mail, Drain!Other)
    BY <1>3 DEF Drain!OtherOperation, Drain!latches, Drain!history, Drain!Submits
  <2>2. mail' # <<>> /\ Drain!Other \in Drain!Operations
    BY <2>1, <1>t DEF Drain!Operations
  <2> QED BY <2>1, <2>2, <1>t, NothingSaid, Busy, QueueLeft
<1>4. CASE Drain!Esc
  <2>1. /\ UNCHANGED <<agent, drain, accepted, acked, mail, root, waiting, starting>>
        /\ UNCHANGED <<failed, interrupted, stopped>> /\ root # None
    BY <1>4 DEF Drain!Esc, Drain!latches, Drain!history
  <2>2. Heard
    <3>1. \E s \in Seq(Whats) : Drain!Emits(s)
      BY <1>4, <1>w DEF Drain!Esc, Drain!Cancels, Whats
    <3> QED BY <3>1, <1>t, SaidSome
  <2> QED BY <2>1, <2>2, <1>t, Busy, QueueLeft
<1>5. CASE Drain!Attach
  <2>1. /\ UNCHANGED <<agent, drain, accepted, acked, mail, root, published, starting>>
        /\ failed' \in BOOLEAN /\ interrupted' \in BOOLEAN /\ stopped' \in BOOLEAN /\ waiting' = waiting + 1
    BY <1>5, <1>t DEF Drain!Attach, Drain!actor, Drain!history, Drain!Revives
  <2>2. LiftsArm'
    BY <2>1, <1>0 DEF LiftsArm, Drain!Idle
  <2>3. LeftIsArmed' /\ waiting' \in Nat
    BY <2>1, <1>t DEF LeftIsArmed, Armed
  <2> QED BY <2>1, <2>2, <2>3, <1>t, NothingSaid, QueueLeft
<1>6. ASSUME NEW m \in Msgs, Drain!SendTurn(m) \/ Drain!SendFollowUp(m) \/ Drain!Compacted(m)
      PROVE  DrainInv'
  <2>1. /\ UNCHANGED <<agent, drain, accepted, acked, root, waiting>>
        /\ failed' \in BOOLEAN /\ interrupted' \in BOOLEAN /\ stopped' \in BOOLEAN
    <3>1. CASE Drain!SendTurn(m) \/ Drain!SendFollowUp(m)
      BY <3>1, <1>t DEF Drain!SendTurn, Drain!SendFollowUp, Drain!Revives, Drain!history
    <3>2. CASE Drain!Compacted(m)
      BY <3>2, <1>t DEF Drain!Compacted, Drain!latches, Drain!history
    <3> QED BY <1>6, <3>1, <3>2
  <2>2. \/ mail' = Append(mail, Drain!Turn(m)) /\ starting' = m
        \/ mail' = Append(mail, Drain!Compact(m)) /\ starting' = starting
        \/ mail' = Append(mail, Drain!FollowUpOp(m)) /\ starting' = starting
    BY <1>6 DEF Drain!SendTurn, Drain!SendFollowUp, Drain!Compacted, Drain!StartsTurn,
                Drain!QueuesInstead, Drain!Submits
  <2>3. Heard
    <3>1. published' = published \/ \E s \in Seq(Whats) : Drain!Emits(s)
      <4> DEFINE a == Drain!Snapshot(agent)
      <4>1. /\ <<"user">> \in Seq(Whats) /\ <<"user", a, "done">> \in Seq(Whats)
            /\ <<a, "done">> \in Seq(Whats)
        BY <1>s DEF Whats
      <4>2. \/ published' = published \/ Drain!Emits(<<"user">>) \/ Drain!Emits(<<"user", a, "done">>)
            \/ Drain!Emits(<<a, "done">>)
        BY <1>6 DEF Drain!SendTurn, Drain!SendFollowUp, Drain!Compacted
      <4> QED BY <4>1, <4>2
    <3> QED BY <3>1, <1>t, SaidSome, NothingSaid
  <2>4. mail' # <<>> /\ \E o \in Drain!Operations : mail' = Append(mail, o)
    BY <2>2, <1>t, MailOf
  <2>5. starting' = starting \/ (starting' \in Msgs /\ mail' = Append(mail, Drain!Turn(starting')))
    BY <2>2
  <2> QED BY <2>1, <2>3, <2>4, <2>5, <1>t, Busy, QueueLeft
<1>7. ASSUME NEW m \in Msgs, Drain!Queued(m) PROVE DrainInv'
  <2>1. /\ UNCHANGED <<agent, drain, accepted, acked, mail, root, waiting, starting>>
        /\ UNCHANGED <<failed, interrupted, stopped>>
        /\ Drain!Emits(<<Drain!Snapshot(agent)>>)
    BY <1>7 DEF Drain!Queued, Drain!latches, Drain!history
  <2> DEFINE s == <<Drain!Snapshot(agent)>>
  <2>2. s \in Seq(Whats) /\ Len(s) = 1 /\ \A i \in 1 .. Len(s) : s[i] \notin Lifts
    BY <1>s DEF Lifts
  <2> HIDE DEF s
  <2>3. Heard /\ (Covered(published) => Covered(published'))
    <3>1. Drain!Emits(s)
      BY <2>1 DEF s
    <3> QED BY <3>1, <2>2, <1>t, Emission DEF Heard
  <2>4. LiftsArm'
    BY <2>1, <2>3, <1>0 DEF LiftsArm, Drain!Idle
  <2>5. LeftIsArmed'
    <3>1. Armed => Armed'
      BY <2>1, <2>3 DEF Armed, Heard, Drain!Idle
    <3> QED BY <2>1, <3>1 DEF DrainInv, LeftIsArmed
  <2> QED BY <2>1, <2>3, <2>4, <2>5, <1>t, QueueLeft
<1> QED BY <1>1, <1>2, <1>3, <1>4, <1>5, <1>6, <1>7

\* The order: what is in flight goes before the rest.
LEMMA OrderBegun ==
  ASSUME NEW a \in Seq(Msgs), NEW m \in Seq(Msgs), m # <<>>
  PROVE  (a \o <<Head(m)>>) \o Tail(m) = (a \o <<>>) \o m
OBVIOUS

LEMMA OrderAborted ==
  ASSUME NEW a \in Seq(Msgs), NEW m \in Seq(Msgs), NEW f \in Msgs
  PROVE  (a \o <<>>) \o (<<f>> \o m) = (a \o <<f>>) \o m
OBVIOUS

LEMMA OrderAcknowledged ==
  ASSUME NEW a \in Seq(Msgs), NEW m \in Seq(Msgs), NEW f \in Msgs
  PROVE  (Append(a, f) \o <<>>) \o m = (a \o <<f>>) \o m /\ Append(a, f) \in Seq(Msgs)
OBVIOUS

LEMMA OrderAccepted ==
  ASSUME NEW a \in Seq(Msgs), NEW m \in Seq(Msgs), NEW f \in Msgs
  PROVE  a \o Append(m, f) = Append(a \o m, f) /\ Append(a \o m, f) \in Seq(Msgs)
OBVIOUS

LEMMA OrderKilled ==
  ASSUME NEW a \in Seq(Msgs), NEW m \in Seq(Msgs)
  PROVE  SubSeq(a \o m, 1, Len(a \o m) - Len(m)) = a \o <<>> /\ a \o <<>> \in Seq(Msgs)
OBVIOUS

LEMMA OrderMoves ==
  ASSUME DrainTypes, Drain!InOrder, UNCHANGED accepted,
         \/ agent' = agent /\ acked' = acked
         \/ agent.flight = None /\ agent.mem # <<>> /\ agent' = Drain!Begin(agent) /\ acked' = acked
         \/ agent.flight # None /\ agent' = Drain!Abort(agent) /\ acked' = acked
         \/ /\ agent.flight # None /\ agent' = Drain!Acknowledge(agent, agent.flight)
            /\ acked' = Append(acked, agent.flight)
  PROVE  Drain!InOrder' /\ agent' \in Agents /\ acked' \in Seq(Msgs)
<1>0. agent \in Agents /\ acked \in Seq(Msgs) /\ agent.mem \in Seq(Msgs) /\ None \notin Msgs
      /\ agent.flight \in Msgs \cup {None}
  BY DrainAssumption DEF DrainTypes, Agents
<1>1. CASE agent' = agent /\ acked' = acked
  BY <1>0, <1>1 DEF Drain!InOrder, Drain!Running
<1>2. CASE agent.flight = None /\ agent.mem # <<>> /\ agent' = Drain!Begin(agent) /\ acked' = acked
  <2>1. /\ agent' \in Agents /\ agent'.mem = Tail(agent.mem) /\ agent'.flight = Head(agent.mem)
        /\ Head(agent.mem) \in Msgs
    BY <1>0, <1>2, AgentMoves
  <2>2. (acked \o <<Head(agent.mem)>>) \o Tail(agent.mem) = (acked \o <<>>) \o agent.mem
    BY <1>0, <1>2, OrderBegun
  <2> QED BY <1>0, <1>2, <2>1, <2>2 DEF Drain!InOrder, Drain!Running
<1>3. CASE agent.flight # None /\ agent' = Drain!Abort(agent) /\ acked' = acked
  <2>1. /\ agent' \in Agents /\ agent'.mem = <<agent.flight>> \o agent.mem /\ agent'.flight = None
        /\ agent.flight \in Msgs
    BY <1>0, <1>3, AgentMoves
  <2>2. (acked \o <<>>) \o (<<agent.flight>> \o agent.mem) = (acked \o <<agent.flight>>) \o agent.mem
    BY <1>0, <2>1, OrderAborted
  <2> QED BY <1>0, <1>3, <2>1, <2>2 DEF Drain!InOrder, Drain!Running
<1>4. CASE /\ agent.flight # None /\ agent' = Drain!Acknowledge(agent, agent.flight)
           /\ acked' = Append(acked, agent.flight)
  <2>1. /\ agent' \in Agents /\ agent'.mem = agent.mem /\ agent'.flight = None /\ agent.flight \in Msgs
    BY <1>0, <1>4, AgentMoves
  <2>2. /\ (acked' \o <<>>) \o agent.mem = (acked \o <<agent.flight>>) \o agent.mem
        /\ acked' \in Seq(Msgs)
    BY <1>0, <1>4, <2>1, OrderAcknowledged
  <2> QED BY <1>0, <1>4, <2>1, <2>2 DEF Drain!InOrder, Drain!Running
<1> QED BY <1>1, <1>2, <1>3, <1>4

\* A drain goes on, or leaves: at an idle session all that was to arm has.
LEMMA IdleHasHeard ==
  ASSUME DrainInv, Drain!Idle, starting # None PROVE Says(published, "done")
<1>1. Says(published, "start") \/ Refuses(published, starting)
  <2>1. ~Mailed(starting)
    BY DEF Drain!Idle, Mailed
  <2> QED BY <2>1 DEF DrainInv, StartIsAnswered
<1>2. PICK i \in 1 .. Len(published) : published[i].what \in Lifts
  BY <1>1 DEF Says, Refuses, Drain!Rejected, Lifts
<1>3. PICK j \in i + 1 .. Len(published) : published[j].what = "done"
  BY <1>2 DEF DrainInv, LiftsArm, Covered
<1>4. j \in 1 .. Len(published)
  BY <1>2, <1>3 DEF DrainInv, DrainTypes
<1> QED BY <1>3, <1>4 DEF Says

LEMMA DrainLaunches ==
  ASSUME DrainInv, agent.flight = None, Drain!Peek(agent) # None, Drain!Launches,
         UNCHANGED <<root, starting, waiting, failed, interrupted, stopped, accepted, acked>>
  PROVE  DrainInv'
<1>0. DrainTypes /\ agent \in Agents /\ published \in Seq(Notices) /\ mail \in Seq(Drain!Operations)
  BY DEF DrainInv, DrainTypes
<1>1. /\ agent.mem # <<>> /\ agent' = Drain!Begin(agent) /\ agent'.flight \in Msgs
      /\ Drain!Peek(agent) \in Msgs
  BY <1>0, AgentMoves DEF Drain!Launches
<1>2. Heard
  <2>1. Drain!Emits(<<Drain!Snapshot(Drain!Begin(agent)), "user">>)
    BY DEF Drain!Launches
  <2>2. <<Drain!Snapshot(Drain!Begin(agent)), "user">> \in Seq(Whats)
    BY DEF Drain!Snapshot, Whats
  <2> QED BY <2>1, <2>2, <1>0, SaidSome
<1>3. \E o \in Drain!Operations : mail' = Append(mail, o)
  BY <1>1, MailOf DEF Drain!Launches, Drain!Submits
<1>4. mail' \in Seq(Drain!Operations) /\ mail' # <<>>
  BY <1>0, <1>3, MailSent
<1>5. Drain!InOrder' /\ agent' \in Agents
  BY <1>0, <1>1, OrderMoves DEF DrainInv
<1>6. drain' = "runs"
  BY DEF Drain!Launches
<1>7. DrainTypes'
  BY <1>0, <1>2, <1>4, <1>5, <1>6 DEF DrainTypes, Heard
<1>8. OneInFlight'
  BY <1>1, <1>6, DrainAssumption DEF OneInFlight
<1>9. StartIsAnswered'
  BY <1>0, <1>2, <1>3, StartKept DEF DrainInv
<1>10. LiftsArm' /\ LeftIsArmed'
  BY <1>4, Busy
<1> QED BY <1>5, <1>7, <1>8, <1>9, <1>10 DEF DrainInv

LEMMA DrainSteps ==
  ASSUME DrainInv,
         \/ Drain!Locks \/ Drain!GivesUp \/ Drain!SeesIdle \/ Drain!HasCompacted \/ Drain!TurnOver
         \/ Drain!Settle
  PROVE  DrainInv'
<1>0. /\ DrainTypes /\ agent \in Agents /\ published \in Seq(Notices) /\ waiting \in Nat
      /\ mail \in Seq(Drain!Operations) /\ acked \in Seq(Msgs)
      /\ drain \in {"free", "polls", "compacts", "runs", "flushes"}
      /\ OneInFlight /\ LiftsArm /\ StartIsAnswered /\ LeftIsArmed /\ Drain!InOrder
  BY DEF DrainInv, DrainTypes
\* Only the agent, the drain and what it holds change.
<1>1. ASSUME UNCHANGED <<published, mail, root, starting, failed, interrupted, stopped, accepted>>,
             waiting' \in Nat, drain' \in {"free", "polls", "compacts", "runs", "flushes"},
             Drain!InOrder', agent' \in Agents, acked' \in Seq(Msgs), OneInFlight', LeftIsArmed'
      PROVE  DrainInv'
  <2>1. DrainTypes'
    BY <1>0, <1>1 DEF DrainTypes
  <2>2. LiftsArm' /\ StartIsAnswered'
    BY <1>0, <1>1 DEF LiftsArm, StartIsAnswered, Drain!Idle, Mailed
  <2> QED BY <2>1, <2>2, <1>1 DEF DrainInv
<1>2. ASSUME UNCHANGED <<agent, acked, accepted>>
      PROVE  Drain!InOrder' /\ agent' \in Agents /\ acked' \in Seq(Msgs)
  BY <1>0, <1>2 DEF Drain!InOrder, Drain!Running
<1>3. CASE Drain!Locks
  <2>1. /\ UNCHANGED <<published, mail, root, starting, failed, interrupted, stopped, accepted, agent, acked>>
        /\ drain = "free" /\ drain' = "polls" /\ waiting' \in Nat
    BY <1>3, <1>0 DEF Drain!Locks, Drain!actor, Drain!latches, Drain!history
  <2> QED BY <2>1, <1>0, <1>1, <1>2 DEF OneInFlight, LeftIsArmed
<1>4. CASE Drain!GivesUp
  <2>1. /\ UNCHANGED <<published, mail, root, starting, failed, interrupted, stopped, accepted, agent, acked>>
        /\ drain = "polls" /\ drain' = "free" /\ waiting' = waiting /\ ~Drain!Idle
    BY <1>4 DEF Drain!GivesUp, Drain!actor, Drain!latches, Drain!history
  <2>2. Armed'
    BY <2>1 DEF Armed, Drain!Idle
  <2> QED BY <2>1, <2>2, <1>0, <1>1, <1>2 DEF OneInFlight, LeftIsArmed
<1>5. CASE Drain!SeesIdle
  <2>1. /\ UNCHANGED <<root, starting, waiting, failed, interrupted, stopped, accepted, acked>>
        /\ drain = "polls" /\ Drain!Idle /\ agent.flight = None
    BY <1>5, <1>0 DEF Drain!SeesIdle, Drain!latches, Drain!history, OneInFlight
  <2>2. CASE ~Drain!MayRun /\ drain' = "free" /\ UNCHANGED <<agent, mail, published>>
    <3>1. agent.mem # <<>> => interrupted \/ starting # None
      BY <2>2, <1>0, AgentMoves DEF Drain!MayRun
    <3>2. agent.mem # <<>> => Armed'
      BY <2>1, <2>2, <3>1, IdleHasHeard DEF Armed
    <3>3. OneInFlight' /\ LeftIsArmed'
      BY <2>1, <2>2, <3>2 DEF OneInFlight, LeftIsArmed
    <3> QED BY <2>1, <2>2, <3>3, <1>0, <1>1, <1>2
  <2>3. CASE Drain!MayRun /\ Drain!Launches
    BY <2>1, <2>3, DrainLaunches DEF Drain!MayRun
  <2>4. CASE Drain!Submits(Drain!Compact(None)) /\ drain' = "compacts" /\ UNCHANGED <<agent, published>>
    <3>1. Drain!Compact(None) \in Drain!Operations
      BY DEF Drain!Operations
    <3>2. mail' = Append(mail, Drain!Compact(None)) /\ mail' \in Seq(Drain!Operations) /\ mail' # <<>>
      BY <2>4, <3>1, <1>0, MailSent DEF Drain!Submits
    <3>3. Heard
      BY <2>4, <1>0, NothingSaid
    <3>4. StartIsAnswered' /\ LiftsArm' /\ LeftIsArmed'
      BY <2>1, <3>1, <3>2, <3>3, <1>0, Busy, StartKept
    <3>5. DrainTypes' /\ Drain!InOrder'
      BY <2>1, <2>4, <3>2, <3>3, <1>0, <1>2 DEF DrainTypes, Heard
    <3>6. OneInFlight'
      BY <2>1, <2>4 DEF OneInFlight
    <3> QED BY <3>4, <3>5, <3>6 DEF DrainInv
  <2> QED BY <1>5, <2>2, <2>3, <2>4 DEF Drain!SeesIdle
<1>6. CASE Drain!HasCompacted
  <2>1. /\ UNCHANGED <<root, starting, waiting, failed, interrupted, stopped, accepted, acked>>
        /\ drain = "compacts" /\ agent.flight = None
    BY <1>6, <1>0 DEF Drain!HasCompacted, Drain!latches, Drain!history, OneInFlight
  <2>2. CASE (interrupted \/ Drain!Peek(agent) = None) /\ drain' = "free" /\ UNCHANGED <<agent, mail, published>>
    <3>1. agent.mem # <<>> => Armed'
      BY <2>1, <2>2, <1>0, AgentMoves DEF Armed
    <3>2. OneInFlight' /\ LeftIsArmed'
      BY <2>1, <2>2, <3>1 DEF OneInFlight, LeftIsArmed
    <3> QED BY <2>1, <2>2, <3>2, <1>0, <1>1, <1>2
  <2>3. CASE Drain!Peek(agent) # None /\ Drain!Launches
    BY <2>1, <2>3, DrainLaunches
  <2> QED BY <1>6, <2>2, <2>3 DEF Drain!HasCompacted
<1>7. CASE Drain!TurnOver
  <2>1. /\ UNCHANGED <<published, mail, root, starting, waiting, failed, interrupted, stopped, accepted, acked>>
        /\ drain = "runs" /\ agent.flight # None
        /\ \/ drain' = "free" /\ agent' = Drain!Abort(agent)
           \/ drain' = "flushes" /\ agent' = agent
    BY <1>7, <1>0 DEF Drain!TurnOver, Drain!latches, Drain!history, OneInFlight
  <2>2. Armed'
    BY <2>1, <1>0 DEF LeftIsArmed, Armed, Drain!Idle
  <2>3. Drain!InOrder' /\ agent' \in Agents /\ acked' \in Seq(Msgs)
    BY <2>1, <1>0, OrderMoves
  <2>4. OneInFlight' /\ LeftIsArmed'
    BY <2>1, <2>2, <1>0, AgentMoves DEF OneInFlight, LeftIsArmed
  <2> QED BY <2>1, <2>3, <2>4, <1>0, <1>1
<1>8. CASE Drain!Settle
  <2>1. /\ UNCHANGED <<published, mail, root, starting, waiting, failed, interrupted, stopped, accepted>>
        /\ drain = "flushes" /\ agent.flight # None
        /\ \/ failed /\ drain' = "free" /\ agent' = Drain!Abort(agent) /\ acked' = acked
           \/ /\ drain' = "polls" /\ agent' = Drain!Acknowledge(agent, agent.flight)
              /\ acked' = Append(acked, agent.flight)
    BY <1>8, <1>0 DEF Drain!Settle, Drain!latches, Drain!actor, OneInFlight, Drain!Running
  <2>2. drain' = "free" => Armed'
    BY <2>1 DEF Armed
  <2>3. Drain!InOrder' /\ agent' \in Agents /\ acked' \in Seq(Msgs)
    BY <2>1, <1>0, OrderMoves
  <2>4. OneInFlight' /\ LeftIsArmed'
    BY <2>1, <2>2, <1>0, AgentMoves DEF OneInFlight, LeftIsArmed
  <2> QED BY <2>1, <2>3, <2>4, <1>0, <1>1
<1> QED BY <1>3, <1>4, <1>5, <1>6, <1>7, <1>8

LEMMA ActorTakes ==
  ASSUME DrainInv, Drain!Take PROVE DrainInv'
<1> DEFINE o == Head(mail)
<1>0. /\ DrainTypes /\ agent \in Agents /\ published \in Seq(Notices)
      /\ mail \in Seq(Drain!Operations) /\ acked \in Seq(Msgs) /\ accepted \in Seq(Msgs)
      /\ agent.mem \in Seq(Msgs) /\ agent.flight \in Msgs \cup {None}
      /\ OneInFlight /\ LiftsArm /\ StartIsAnswered /\ LeftIsArmed /\ Drain!InOrder
  BY DEF DrainInv, DrainTypes, Agents
<1>1. /\ UNCHANGED <<failed, interrupted, stopped, starting, waiting, drain, acked>>
      /\ mail # <<>> /\ mail' = Tail(mail)
  BY DEF Drain!Take, Drain!latches
<1>2. /\ o \in Drain!Operations /\ mail' \in Seq(Drain!Operations) /\ o # None
      /\ o.kind \in {"turn", "follow"} => o.id \in Msgs
      /\ \A m : Mailed(m) => o = Drain!Turn(m) \/ Mailed(m)'
  BY <1>0, <1>1, MailTaken DEF Mailed
<1> HIDE DEF o
\* The turn that starts is told, or refused.
<1>3. ASSUME Heard, o = Drain!Turn(starting) => Says(published', "start") \/ Refuses(published', starting)
      PROVE  StartIsAnswered'
  <2> SUFFICES ASSUME starting # None
               PROVE  Mailed(starting)' \/ Says(published', "start") \/ Refuses(published', starting)
    BY <1>1 DEF StartIsAnswered, Mailed
  <2>1. PICK m : m = starting
    OBVIOUS
  <2>2. Mailed(m) \/ Says(published, "start") \/ Refuses(published, m)
    BY <2>1, <1>0 DEF StartIsAnswered
  <2>3. CASE Mailed(m)
    <3>1. o = Drain!Turn(m) \/ Mailed(m)'
      BY <2>3, <1>2
    <3>2. Mailed(m)' => Mailed(starting)'
      BY <2>1, <1>1 DEF Mailed
    <3> QED BY <3>1, <3>2, <2>1, <1>3
  <2>4. CASE Says(published, "start") \/ Refuses(published, m)
    BY <2>1, <2>4, <1>3 DEF Heard
  <2> QED BY <2>2, <2>3, <2>4
<1>4. CASE /\ o.kind = "follow" /\ agent' = Drain!FollowUp(agent, o.id) /\ accepted' = Append(accepted, o.id)
           /\ Drain!Emits(<<"done">>) /\ UNCHANGED root
  <2>1. <<"done">> \in Seq(Whats) /\ Len(<<"done">>) = 1 /\ <<"done">>[1] = "done" /\ <<"done">> # <<>>
        /\ 1 \in 1 .. 1
    BY DEF Whats
  <2>2. Heard /\ Says(published', "done") /\ Covered(published')
    BY <1>4, <2>1, <1>0, Emission DEF Heard
  <2>3. LiftsArm' /\ LeftIsArmed'
    BY <2>2 DEF LiftsArm, LeftIsArmed, Armed
  <2>4. o # Drain!Turn(starting)
    BY <1>4 DEF Drain!Turn
  <2>5. /\ agent' \in Agents /\ agent'.mem = Append(agent.mem, o.id) /\ agent'.flight = agent.flight
        /\ o.id \in Msgs
    BY <1>4, <1>2, <1>0, AgentMoves
  <2>6. Drain!InOrder' /\ accepted' \in Seq(Msgs)
    <3> DEFINE first == acked \o (IF agent.flight = None THEN <<>> ELSE <<agent.flight>>)
    <3>1. first \in Seq(Msgs)
      BY <1>0
    <3>2. accepted = first \o agent.mem
      BY <1>0 DEF Drain!InOrder, Drain!Running
    <3>3. (first \o Append(agent.mem, o.id)) = accepted' /\ accepted' \in Seq(Msgs)
      BY <3>1, <3>2, <2>5, <1>4, <1>0, OrderAccepted, ZenonT(60)
    <3> QED BY <3>3, <2>5, <1>1 DEF Drain!InOrder, Drain!Running
  <2>7. DrainTypes' /\ OneInFlight'
    BY <1>0, <1>1, <1>2, <1>4, <2>2, <2>5, <2>6 DEF DrainTypes, OneInFlight, Heard
  <2> QED BY <2>2, <2>3, <2>4, <2>6, <2>7, <1>3 DEF DrainInv
\* It was no follow-up.
<1>5. ASSUME UNCHANGED <<agent, accepted>>, root' \in Drain!Operations, Heard,
             o = Drain!Turn(starting) => Says(published', "start") \/ Refuses(published', starting)
      PROVE  DrainInv'
  <2>1. DrainTypes' /\ OneInFlight' /\ Drain!InOrder'
    BY <1>0, <1>1, <1>2, <1>5 DEF DrainTypes, Heard, OneInFlight, Drain!InOrder, Drain!Running
  <2>2. LiftsArm' /\ LeftIsArmed'
    BY <1>5, Busy, DrainAssumption
  <2> QED BY <2>1, <2>2, <1>3, <1>5 DEF DrainInv
<1>6. CASE /\ o.kind # "follow" /\ root # None /\ UNCHANGED <<agent, accepted, root>>
           /\ published' = Append(published, Drain!Rejected(IF o.kind = "turn" THEN o.id ELSE None))
  <2> DEFINE of == IF o.kind = "turn" THEN o.id ELSE None
             t == <<Drain!Rejected(of)>>
  <2>1. Drain!Rejected(of) \in Notices
    BY <1>2 DEF Notices, Whats, Drain!Rejected
  <2>2. t \in Seq(Notices) /\ Len(t) = 1 /\ t[1] = Drain!Rejected(of)
    BY <2>1
  <2>3. published' = published \o t
    BY <1>6, <1>0, <2>1
  <2>4. Refuses(t, of)
    BY <2>2 DEF Refuses
  <2> HIDE DEF t
  <2>5. Heard /\ Refuses(published', of)
    BY <2>2, <2>3, <2>4, <1>0, EventsGrow DEF Heard
  <2>6. o = Drain!Turn(starting) => of = starting
    BY DEF Drain!Turn
  <2>7. root \in Drain!Operations
    BY <1>6, <1>0 DEF DrainTypes
  <2> QED BY <2>5, <2>6, <2>7, <1>5, <1>6
<1>7. CASE /\ o.kind # "follow" /\ root' = o /\ UNCHANGED <<agent, accepted>>
           /\ Drain!Emits(IF o.kind = "turn" THEN <<"start">> ELSE <<>>)
  <2>1. CASE o.kind = "turn"
    <3>1. <<"start">> \in Seq(Whats) /\ Len(<<"start">>) = 1 /\ <<"start">>[1] = "start" /\ 1 \in 1 .. 1
      BY DEF Whats
    <3>2. Heard /\ Says(published', "start")
      BY <1>7, <2>1, <3>1, <1>0, Emission DEF Heard
    <3> QED BY <3>2, <1>2, <1>5, <1>7
  <2>2. CASE o.kind # "turn"
    <3>1. o # Drain!Turn(starting)
      BY <2>2 DEF Drain!Turn
    <3>2. <<>> \in Seq(Whats) /\ Drain!Emits(<<>>)
      BY <1>7, <2>2
    <3> QED BY <3>1, <3>2, <1>0, <1>2, <1>5, <1>7, SaidSome
  <2> QED BY <2>1, <2>2
<1> QED BY <1>4, <1>6, <1>7 DEF Drain!Take, o

LEMMA QueueKilled ==
  ASSUME DrainInv, Drain!Kill PROVE DrainInv'
<1>0. /\ DrainTypes /\ agent \in Agents /\ published \in Seq(Notices)
      /\ acked \in Seq(Msgs) /\ accepted \in Seq(Msgs)
      /\ agent.mem \in Seq(Msgs) /\ agent.flight \in Msgs \cup {None}
      /\ OneInFlight /\ LiftsArm /\ StartIsAnswered /\ LeftIsArmed /\ Drain!InOrder
  BY DEF DrainInv, DrainTypes, Agents
<1>1. /\ UNCHANGED <<mail, root, failed, interrupted, starting, waiting, drain, acked>>
      /\ agent' = Drain!PopAll(agent) /\ accepted' = SubSeq(accepted, 1, Len(accepted) - Len(agent.mem))
  BY DEF Drain!Kill
<1>2. agent' \in Agents /\ agent'.mem = <<>> /\ agent'.flight = agent.flight
  BY <1>0, <1>1, AgentMoves
<1>3. \/ Drain!Idle /\ UNCHANGED <<stopped, published>>
      \/ ~Drain!Idle /\ stopped' = TRUE /\ \E s \in Seq(Whats) : Drain!Emits(s)
  <2>1. <<"kill", "done">> \in Seq(Whats) /\ <<"kill", "finish", "done">> \in Seq(Whats)
    BY DEF Whats
  <2> QED BY <2>1 DEF Drain!Kill, Drain!Cancels
<1>4. Heard
  BY <1>3, <1>0, SaidSome, NothingSaid
<1>5. Drain!InOrder' /\ accepted' \in Seq(Msgs)
  <2> DEFINE first == acked \o (IF agent.flight = None THEN <<>> ELSE <<agent.flight>>)
  <2>1. first \in Seq(Msgs)
    BY <1>0
  <2>2. accepted = first \o agent.mem
    BY <1>0 DEF Drain!InOrder, Drain!Running
  <2>3. accepted' = first \o <<>> /\ accepted' \in Seq(Msgs)
    BY <2>1, <2>2, <1>0, <1>1, OrderKilled
  <2> QED BY <2>3, <1>1, <1>2 DEF Drain!InOrder, Drain!Running
<1>6. DrainTypes' /\ OneInFlight'
  BY <1>0, <1>1, <1>2, <1>3, <1>4, <1>5 DEF DrainTypes, OneInFlight, Heard
<1>7. StartIsAnswered'
  BY <1>0, <1>1, <1>4, StartKept
<1>8. LiftsArm'
  BY <1>0, <1>1, <1>3 DEF LiftsArm, Drain!Idle
<1>9. LeftIsArmed'
  BY <1>0, <1>1, <1>2, <1>3 DEF LeftIsArmed, Armed, Drain!Idle
<1> QED BY <1>5, <1>6, <1>7, <1>8, <1>9 DEF DrainInv

LEMMA EventConsumed ==
  ASSUME DrainInv, Drain!Consume PROVE DrainInv'
<1> DEFINE e == Head(published).what
<1>0. /\ DrainTypes /\ published \in Seq(Notices) /\ waiting \in Nat
      /\ failed \in BOOLEAN /\ interrupted \in BOOLEAN
      /\ OneInFlight /\ LiftsArm /\ StartIsAnswered /\ LeftIsArmed /\ Drain!InOrder
  BY DEF DrainInv, DrainTypes
<1>1. /\ UNCHANGED <<agent, mail, root, stopped, drain, accepted, acked>>
      /\ published # <<>> /\ published' = Tail(published)
  BY DEF Drain!Consume, Drain!actor, Drain!history
<1>2. /\ published' \in Seq(Notices)
      /\ \A w : Says(published, w) => e = w \/ Says(published', w)
      /\ \A m : Refuses(published, m) => Head(published) = Drain!Rejected(m) \/ Refuses(published', m)
      /\ Covered(published) => Covered(published') /\ (e \in Lifts => Says(published', "done"))
  BY <1>0, <1>1, EventRead
<1>3. /\ failed' = IF e = "error" THEN TRUE ELSE failed /\ e \notin {"start", "user", "finish"}
      /\ interrupted' = IF e = "kill" THEN TRUE ELSE interrupted /\ e \notin {"start", "user", "esc"}
      /\ starting' = IF e = "start" \/ (e = "rejected" /\ Head(published).of = starting) THEN None ELSE starting
      /\ waiting' = IF Drain!Arms(e) /\ ~stopped /\ ~failed' THEN waiting + 1 ELSE waiting
  BY DEF Drain!Consume
<1> HIDE DEF e
<1>4. failed' \in BOOLEAN /\ interrupted' \in BOOLEAN /\ waiting' \in Nat
  <2>1. failed' \in BOOLEAN
    BY <1>0, <1>3, Zenon
  <2>2. interrupted' \in BOOLEAN
    BY <1>0, <1>3, Zenon
  <2>3. waiting' = waiting + 1 \/ waiting' = waiting
    BY <1>3, Zenon
  <2>4. waiting' \in Nat
    BY <1>0, <2>3
  <2> QED BY <2>1, <2>2, <2>4
<1>5. DrainTypes' /\ OneInFlight' /\ Drain!InOrder'
  BY <1>0, <1>1, <1>2, <1>3, <1>4 DEF DrainTypes, OneInFlight, Drain!InOrder, Drain!Running
<1>6. LiftsArm'
  BY <1>0, <1>1, <1>2 DEF LiftsArm, Drain!Idle
<1>7. StartIsAnswered'
  <2> SUFFICES ASSUME starting' # None
               PROVE  Mailed(starting) \/ Says(published', "start") \/ Refuses(published', starting)
    BY <1>1, <1>3 DEF StartIsAnswered, Mailed
  <2>1. starting' = starting /\ e # "start" /\ ~(e = "rejected" /\ Head(published).of = starting)
    BY <1>3
  <2>2. Head(published) # Drain!Rejected(starting)
    BY <2>1 DEF e, Drain!Rejected
  <2> QED BY <2>1, <2>2, <1>0, <1>2 DEF StartIsAnswered
<1>8. LeftIsArmed'
  <2> SUFFICES ASSUME Armed PROVE Armed'
    BY <1>0, <1>1 DEF LeftIsArmed
  <2>1. CASE ~Drain!Idle
    BY <2>1, <1>1 DEF Armed, Drain!Idle
  <2>2. CASE Drain!Idle
    <3>1. e \in Lifts => Armed'
      BY <2>2, <1>0, <1>2 DEF LiftsArm, Armed
    <3>2. failed \/ interrupted => Armed'
      BY <3>1, <1>3 DEF Armed, Lifts
    <3>3. stopped \/ waiting > 0 => Armed'
      BY <1>0, <1>1, <1>3 DEF Armed
    <3>4. e = "done" => Armed'
      BY <1>0, <1>1, <1>3 DEF Armed, Drain!Arms
    <3>5. Says(published, "done") => Armed'
      BY <3>4, <1>2 DEF Armed
    <3> QED BY <2>2, <3>2, <3>3, <3>5 DEF Armed
  <2> QED BY <2>1, <2>2
<1> QED BY <1>5, <1>6, <1>7, <1>8 DEF DrainInv

LEMMA DrainsStart ==
  ASSUME Drain!Init PROVE DrainInv
<1>1. agent \in Agents /\ agent.mem = <<>> /\ agent.flight = None
  BY DEF Drain!Init, Drain!Loaded, Agents
<1>2. /\ <<>> \in Seq(Drain!Operations) /\ <<>> \in Seq(Notices) /\ <<>> \in Seq(Msgs)
      /\ Len(<<>>) = 0 /\ 1 .. 0 = {} /\ (<<>> \o <<>>) \o <<>> = <<>>
  OBVIOUS
<1>3. DrainTypes
  BY <1>1, <1>2 DEF Drain!Init, DrainTypes
<1>4. OneInFlight /\ LiftsArm /\ StartIsAnswered /\ LeftIsArmed
  BY <1>1, <1>2 DEF Drain!Init, OneInFlight, LiftsArm, StartIsAnswered, LeftIsArmed, Covered
<1>5. Drain!InOrder
  BY <1>1, <1>2 DEF Drain!Init, Drain!InOrder, Drain!Running
<1> QED BY <1>3, <1>4, <1>5 DEF DrainInv

LEMMA DrainsKept ==
  ASSUME DrainInv, [Drain!Next]_drainVars PROVE DrainInv'
<1>1. CASE Drain!Next
  BY <1>1, ActorTakes, QueueKilled, EventConsumed, ClientSteps, DrainSteps DEF Drain!Next, Drain!Step
<1>2. CASE UNCHANGED drainVars
  <2>1. UNCHANGED <<agent, mail, root, published, failed, interrupted, stopped, starting, waiting, drain,
                    accepted, acked>>
    BY <1>2 DEF drainVars
  <2>2. DrainTypes' /\ OneInFlight' /\ Drain!InOrder'
    BY <2>1 DEF DrainInv, DrainTypes, OneInFlight, Drain!InOrder, Drain!Running
  <2>3. LiftsArm' /\ StartIsAnswered'
    BY <2>1 DEF DrainInv, LiftsArm, StartIsAnswered, Mailed, Drain!Idle
  <2>4. LeftIsArmed'
    BY <2>1 DEF DrainInv, LeftIsArmed, Armed, Drain!Idle
  <2> QED BY <2>2, <2>3, <2>4 DEF DrainInv
<1> QED BY <1>1, <1>2

LEMMA NothingLeftOver ==
  ASSUME DrainInv PROVE Drain!NothingStranded
<1> SUFFICES ASSUME Drain!AtRest
             PROVE  starting = None /\ (agent.mem # <<>> => failed \/ interrupted \/ stopped)
  BY DEF Drain!NothingStranded
<1>1. Drain!Idle /\ mail = <<>> /\ published = <<>> /\ waiting = 0 /\ drain = "free"
  BY DEF Drain!AtRest, Drain!Idle
<1>2. (\A w : ~Says(published, w)) /\ (\A m : ~Refuses(published, m)) /\ (\A m : ~Mailed(m))
  BY <1>1 DEF Says, Refuses, Mailed
<1> QED BY <1>1, <1>2 DEF DrainInv, StartIsAnswered, LeftIsArmed, Armed

(* InteractiveDrain: a message that waits when nothing is left to happen      *)
(* waits for a reason a person was told, and the follow-ups leave the queue   *)
(* once and in the order they came, for any number of messages, whatever the  *)
(* clients do and however far behind the reader of the events is.             *)
THEOREM QueueAlwaysDrains == Spec => []QueueDrains
<1> DEFINE Inv == which = "drain" => DrainInv
<1>1. Init => Inv
  BY DrainsStart DEF Init
<1>2. Inv /\ [Next]_vars => Inv'
  <2>1. ASSUME Inv, [Next]_vars, which = "drain" PROVE DrainInv'
    BY <2>1, AboutOne, DrainsKept
  <2> QED BY <2>1, AboutOne
<1>3. Inv => QueueDrains
  BY NothingLeftOver DEF QueueDrains, DrainInv
<1> QED BY <1>1, <1>2, <1>3, PTL DEF Spec

-----------------------------------------------------------------------------
(* SocketClient: the swallows are the user messages on the way, in their      *)
(* order and with others between them; and who waits for an operation has     *)
(* something on the way to it.                                                *)

Frames == [kind : {"user"}, what : Texts] \cup [kind : {"op"}, what : Ops]

\* n is how often x is in s: a function counts along.
Hits(y, x) == IF y = x THEN 1 ELSE 0
Counts(f, s, x) ==
  /\ f \in [0 .. Len(s) -> Int] /\ f[0] = 0
  /\ \A i \in 1 .. Len(s) : f[i] = f[i - 1] + Hits(s[i], x)
Counted(s, x, n) == \E f : Counts(f, s, x) /\ f[Len(s)] = n

LEMMA CountNone ==
  ASSUME NEW x PROVE Counted(<<>>, x, 0) /\ \A n : Counted(<<>>, x, n) => n = 0
<1>1. Len(<<>>) = 0 /\ 1 .. 0 = {} /\ 0 .. 0 = {0}
  OBVIOUS
<1> DEFINE z == [i \in {0} |-> 0]
<1>2. Counts(z, <<>>, x) /\ z[0] = 0
  BY <1>1 DEF Counts
<1>3. Counted(<<>>, x, 0)
  BY <1>1, <1>2 DEF Counted
<1>4. ASSUME NEW n, Counted(<<>>, x, n) PROVE n = 0
  BY <1>1, <1>4 DEF Counted, Counts
<1> QED BY <1>3, <1>4

LEMMA CountMore ==
  ASSUME NEW S, NEW s \in Seq(S), NEW y \in S, NEW x, NEW n, Counted(s, x, n)
  PROVE  n \in Int /\ Counted(Append(s, y), x, n + Hits(y, x))
<1>1. PICK f : Counts(f, s, x) /\ f[Len(s)] = n
  BY DEF Counted
<1> DEFINE t == Append(s, y)
           g == [i \in 0 .. Len(s) + 1 |-> IF i = Len(s) + 1 THEN n + Hits(y, x) ELSE f[i]]
<1>2. /\ Len(s) \in Nat /\ Len(t) = Len(s) + 1 /\ t[Len(s) + 1] = y
      /\ \A i \in 1 .. Len(s) : t[i] = s[i]
  OBVIOUS
<1> HIDE DEF t
<1>3. n \in Int /\ Hits(y, x) \in Int
  BY <1>1, <1>2 DEF Counts, Hits
<1>4. g \in [0 .. Len(t) -> Int] /\ g[0] = 0
  BY <1>1, <1>2, <1>3 DEF Counts
<1>5. ASSUME NEW i \in 1 .. Len(t) PROVE g[i] = g[i - 1] + Hits(t[i], x)
  <2>1. CASE i = Len(s) + 1
    <3>1. g[i] = n + Hits(y, x) /\ g[i - 1] = f[Len(s)] /\ t[i] = y
      BY <2>1, <1>2
    <3> QED BY <3>1, <1>1
  <2>2. CASE i # Len(s) + 1
    <3>1. i \in 1 .. Len(s) /\ i - 1 # Len(s) + 1 /\ i - 1 \in 0 .. Len(s) + 1
      BY <2>2, <1>2
    <3>2. g[i] = f[i] /\ g[i - 1] = f[i - 1] /\ t[i] = s[i]
      BY <2>2, <3>1, <1>2
    <3> QED BY <3>1, <3>2, <1>1 DEF Counts
  <2> QED BY <2>1, <2>2
<1>6. g[Len(t)] = n + Hits(y, x)
  BY <1>2
<1> HIDE DEF g
<1>7. Counted(t, x, n + Hits(y, x))
  BY <1>4, <1>5, <1>6 DEF Counted, Counts
<1> QED BY <1>3, <1>7 DEF t

LEMMA CountLess ==
  ASSUME NEW S, NEW s \in Seq(S), s # <<>>, NEW x, NEW n, Counted(s, x, n)
  PROVE  n \in Int /\ Counted(Tail(s), x, n - Hits(Head(s), x))
<1>1. PICK f : Counts(f, s, x) /\ f[Len(s)] = n
  BY DEF Counted
<1> DEFINE t == Tail(s)
           h == Hits(Head(s), x)
           g == [i \in 0 .. Len(s) - 1 |-> f[i + 1] - h]
<1>2. /\ Len(s) \in Nat /\ Len(s) >= 1 /\ Len(t) = Len(s) - 1 /\ Head(s) = s[1]
      /\ \A i \in 1 .. Len(t) : t[i] = s[i + 1]
  OBVIOUS
<1> HIDE DEF t
<1>3. n \in Int /\ h \in Int /\ f[1] = h
  BY <1>1, <1>2 DEF Counts, Hits
<1> HIDE DEF h
<1>4. g \in [0 .. Len(t) -> Int] /\ g[0] = 0
  BY <1>1, <1>2, <1>3 DEF Counts
<1>5. ASSUME NEW i \in 1 .. Len(t) PROVE g[i] = g[i - 1] + Hits(t[i], x)
  <2>1. i + 1 \in 1 .. Len(s) /\ (i + 1) - 1 = i /\ i \in 0 .. Len(s) - 1 /\ i - 1 \in 0 .. Len(s) - 1
    BY <1>2
  <2>2. f[i + 1] = f[i] + Hits(t[i], x) /\ f[i] \in Int /\ Hits(t[i], x) \in Int
    BY <2>1, <1>1, <1>2 DEF Counts, Hits
  <2>3. g[i] = f[i + 1] - h /\ g[i - 1] = f[i] - h
    BY <2>1
  <2> QED BY <2>2, <2>3, <1>3
<1>6. g[Len(t)] = n - h
  BY <1>1, <1>2
<1> HIDE DEF g
<1>7. Counted(t, x, n - h)
  BY <1>4, <1>5, <1>6 DEF Counted, Counts
<1> QED BY <1>3, <1>7 DEF t, h

ClientTypes ==
  /\ link \in {"open", "lost"} /\ (link = "lost" => up = <<>> /\ down = <<>>)
  /\ up \in Seq(Frames) /\ down \in Seq(Frames) /\ swallows \in Seq(Texts)
  /\ shown \in [Texts -> Nat] /\ mine \in [Texts -> Nat] /\ theirs \in [Texts -> Nat]
  /\ op \in [Ops -> {"new", "sent", "waiting", "returned", "failed"}]
  /\ future \in [Ops -> {"none", "pending", "set"}]
  /\ server \in [Ops -> {"unknown", "runs", "over"}]
  /\ completed \subseteq Ops /\ cut \subseteq Ops

OnWay(s, o) == \E i \in 1 .. Len(s) : s[i] = Client!Operation(o)
OnceOn(s, o) ==
  \A i, j \in 1 .. Len(s) : s[i] = Client!Operation(o) /\ s[j] = Client!Operation(o) => i = j

\* Who told of its end is over; who waits will be told; and what is still on
\* its way to the server is unknown there.
Told(o) == OnWay(down, o) \/ o \in completed => server[o] = "over"
Waited(o) ==
  /\ op[o] = "returned" => server[o] = "over" \/ o \in cut
  /\ op[o] \in {"sent", "waiting"} /\ future[o] # "pending" => server[o] = "over" \/ o \in cut
  /\ op[o] \in {"sent", "waiting"} /\ future[o] = "pending" =>
       /\ link = "open"
       /\ (server[o] = "runs" /\ o \notin cut) \/ OnWay(up, o) \/ OnWay(down, o)
Unread(o) ==
  /\ OnceOn(up, o)
  /\ OnWay(up, o) => o \notin cut /\ server[o] = "unknown" /\ op[o] # "new"
  /\ op[o] = "new" => server[o] = "unknown" /\ o \notin cut

LEMMA FramesSent ==
  ASSUME NEW s \in Seq(Frames), NEW x \in Frames, NEW o \in Ops
  PROVE  /\ Append(s, x) \in Seq(Frames)
         /\ OnWay(Append(s, x), o) <=> OnWay(s, o) \/ x = Client!Operation(o)
         /\ OnceOn(s, o) /\ (x = Client!Operation(o) => ~OnWay(s, o)) => OnceOn(Append(s, x), o)
<1> DEFINE t == Append(s, x)
<1>1. /\ t \in Seq(Frames) /\ Len(s) \in Nat /\ Len(t) = Len(s) + 1
      /\ t[Len(s) + 1] = x /\ \A i \in 1 .. Len(s) : t[i] = s[i]
  OBVIOUS
<1> HIDE DEF t
<1>2. OnWay(t, o) <=> OnWay(s, o) \/ x = Client!Operation(o)
  BY <1>1 DEF OnWay
<1>3. ASSUME OnceOn(s, o), x = Client!Operation(o) => ~OnWay(s, o) PROVE OnceOn(t, o)
  BY <1>1, <1>3 DEF OnceOn, OnWay
<1> QED BY <1>1, <1>2, <1>3 DEF t

LEMMA FramesRead ==
  ASSUME NEW s \in Seq(Frames), s # <<>>, NEW o \in Ops
  PROVE  /\ Head(s) \in Frames /\ Tail(s) \in Seq(Frames)
         /\ OnWay(s, o) <=> OnWay(Tail(s), o) \/ Head(s) = Client!Operation(o)
         /\ OnceOn(s, o) => OnceOn(Tail(s), o)
         /\ OnceOn(s, o) /\ Head(s) = Client!Operation(o) => ~OnWay(Tail(s), o)
<1> DEFINE t == Tail(s)
<1>1. /\ t \in Seq(Frames) /\ Len(s) \in Nat /\ Len(s) >= 1 /\ Len(t) = Len(s) - 1
      /\ Head(s) = s[1] /\ Head(s) \in Frames
      /\ \A i \in 1 .. Len(t) : t[i] = s[i + 1] /\ i + 1 \in 1 .. Len(s)
      /\ \A i \in 1 .. Len(s) : i = 1 \/ (i - 1 \in 1 .. Len(t) /\ t[i - 1] = s[i])
      /\ 1 \in 1 .. Len(s)
  OBVIOUS
<1> HIDE DEF t
<1>2. OnWay(s, o) <=> OnWay(t, o) \/ Head(s) = Client!Operation(o)
  BY <1>1, ZenonT(60) DEF OnWay
<1>3. ASSUME OnceOn(s, o) PROVE OnceOn(t, o)
  <2>1. ASSUME NEW i \in 1 .. Len(t), NEW j \in 1 .. Len(t),
               t[i] = Client!Operation(o), t[j] = Client!Operation(o)
        PROVE  i = j
    <3>1. i + 1 = j + 1
      BY <1>1, <1>3, <2>1 DEF OnceOn
    <3> QED BY <3>1
  <2> QED BY <2>1 DEF OnceOn
<1>4. ASSUME OnceOn(s, o), Head(s) = Client!Operation(o), NEW i \in 1 .. Len(t),
             t[i] = Client!Operation(o)
      PROVE  FALSE
  <2>1. i + 1 = 1
    BY <1>1, <1>4 DEF OnceOn
  <2> QED BY <2>1
<1>5. OnceOn(s, o) /\ Head(s) = Client!Operation(o) => ~OnWay(t, o)
  BY <1>4 DEF OnWay
<1> QED BY <1>1, <1>2, <1>3, <1>5 DEF t

LEMMA FramesAre ==
  /\ \A t \in Texts : Client!User(t) \in Frames
  /\ \A o \in Ops : Client!Operation(o) \in Frames
  /\ \A t \in Texts, o \in Ops : Client!User(t) # Client!Operation(o)
  /\ \A t, u \in Texts : Client!User(t) = Client!User(u) => t = u
  /\ \A o, p \in Ops : Client!Operation(o) = Client!Operation(p) => o = p
  /\ \A x \in Frames : \/ x.kind = "user" /\ x.what \in Texts /\ x = Client!User(x.what)
                       \/ x.kind # "user" /\ x.what \in Ops /\ x = Client!Operation(x.what)
<1>1. \A t : Client!User(t).kind = "user" /\ Client!User(t).what = t
  BY DEF Client!User
<1>2. \A o : Client!Operation(o).kind = "op" /\ Client!Operation(o).what = o
  BY DEF Client!Operation
<1>3. ASSUME NEW x \in Frames
      PROVE  \/ x.kind = "user" /\ x.what \in Texts /\ x = Client!User(x.what)
             \/ x.kind # "user" /\ x.what \in Ops /\ x = Client!Operation(x.what)
  BY DEF Frames, Client!User, Client!Operation
<1>4. /\ \A t \in Texts : Client!User(t) \in Frames
      /\ \A o \in Ops : Client!Operation(o) \in Frames
  BY DEF Frames, Client!User, Client!Operation
<1>5. \A t \in Texts, o \in Ops : Client!User(t) # Client!Operation(o)
  BY DEF Client!User, Client!Operation
<1> QED BY <1>1, <1>2, <1>3, <1>4, <1>5

LEMMA ClientStarts ==
  Client!Init => /\ ClientTypes
                 /\ \A o \in Ops : Told(o) /\ Waited(o) /\ Unread(o)
<1> SUFFICES ASSUME Client!Init
             PROVE  ClientTypes /\ \A o \in Ops : Told(o) /\ Waited(o) /\ Unread(o)
  OBVIOUS
<1>1. ClientTypes
  BY DEF Client!Init, ClientTypes
<1>2. Len(<<>>) = 0 /\ 1 .. 0 = {}
  OBVIOUS
<1>3. ASSUME NEW o \in Ops PROVE ~OnWay(up, o) /\ ~OnWay(down, o) /\ OnceOn(up, o)
  BY <1>2 DEF Client!Init, OnWay, OnceOn
<1>4. ASSUME NEW o \in Ops PROVE op[o] = "new" /\ server[o] = "unknown" /\ o \notin completed \cup cut
  BY DEF Client!Init
<1> QED BY <1>1, <1>3, <1>4 DEF Told, Waited, Unread

LEMMA ClientTyped == ClientTypes /\ Client!Next => ClientTypes'
<1> SUFFICES ASSUME ClientTypes, Client!Next PROVE ClientTypes'
  OBVIOUS
<1> USE DEF ClientTypes, Client!echoVars, Client!opVars
<1>1. ASSUME NEW t \in Texts, Client!EmitUserMessage(t) PROVE ClientTypes'
  <2>1. Append(up, Client!User(t)) \in Seq(Frames) /\ Append(swallows, t) \in Seq(Texts)
    BY FramesAre
  <2>2. up' \in Seq(Frames) /\ (link = "lost" => up' = <<>>)
    BY <1>1, <2>1 DEF Client!EmitUserMessage
  <2>3. swallows' \in Seq(Texts)
    BY <1>1, <2>1 DEF Client!EmitUserMessage, Client!Armed
  <2>4. shown' \in [Texts -> Nat] /\ mine' \in [Texts -> Nat]
    BY <1>1 DEF Client!EmitUserMessage
  <2>5. UNCHANGED <<link, down, theirs, op, future, completed, server, cut>>
    BY <1>1 DEF Client!EmitUserMessage
  <2> QED BY <2>2, <2>3, <2>4, <2>5
<1>2. ASSUME NEW t \in Texts, Client!Foreign(t) PROVE ClientTypes'
  <2>1. Append(down, Client!User(t)) \in Seq(Frames)
    BY FramesAre
  <2> QED BY <1>2, <2>1 DEF Client!Foreign
<1>3. ASSUME Client!Expire PROVE ClientTypes'
  BY <1>3 DEF Client!Expire
<1>4. ASSUME Client!Receive PROVE ClientTypes'
  <2>1. down # <<>> /\ Head(down) \in Frames /\ Tail(down) \in Seq(Frames)
    BY <1>4 DEF Client!Receive
  <2>2. CASE Head(down).kind = "user"
    <3> DEFINE t == Head(down).what
    <3>1. t \in Texts
      BY <2>1, <2>2, FramesAre
    <3>2. swallows # <<>> => Tail(swallows) \in Seq(Texts)
      OBVIOUS
    <3>3. Client!ReceiveUser(t)
      BY <1>4, <2>2 DEF Client!Receive
    <3> HIDE DEF t
    <3>4. shown' \in [Texts -> Nat] /\ swallows' \in Seq(Texts)
      <4>1. CASE Client!Swallows(t)
        BY <3>2, <3>3, <4>1 DEF Client!ReceiveUser, Client!Swallows
      <4>2. CASE ~Client!Swallows(t)
        BY <3>1, <3>3, <4>2 DEF Client!ReceiveUser
      <4> QED BY <4>1, <4>2
    <3>5. UNCHANGED <<link, up, mine, theirs, op, future, completed, server, cut>> /\ link = "open"
      BY <1>4, <3>3 DEF Client!Receive, Client!ReceiveUser
    <3> QED BY <1>4, <2>1, <3>4, <3>5 DEF Client!Receive
  <2>3. CASE Head(down).kind # "user"
    <3> DEFINE o == Head(down).what
    <3>1. o \in Ops
      BY <2>1, <2>3, FramesAre
    <3>2. Client!ReceiveFinished(o)
      BY <1>4, <2>3 DEF Client!Receive
    <3> HIDE DEF o
    <3> QED BY <1>4, <2>1, <3>1, <3>2 DEF Client!Receive, Client!ReceiveFinished, Client!Remembered
  <2> QED BY <2>2, <2>3
<1>5. ASSUME Client!ServerReads PROVE ClientTypes'
  <2>1. up # <<>> /\ Head(up) \in Frames /\ Tail(up) \in Seq(Frames)
    BY <1>5 DEF Client!ServerReads
  <2>2. Append(down, Head(up)) \in Seq(Frames)
    BY <2>1
  <2>3. Head(up).kind # "user" => Head(up).what \in Ops
    BY <2>1, FramesAre
  <2> QED BY <1>5, <2>1, <2>2, <2>3 DEF Client!ServerReads
<1>6. ASSUME Client!Lose PROVE ClientTypes'
  BY <1>6 DEF Client!Lose, Client!Released, Client!InFlight
<1>7. ASSUME Client!Reattach PROVE ClientTypes'
  BY <1>7 DEF Client!Reattach, Client!InFlight
<1>8. ASSUME NEW o \in Ops, Client!Submit(o) PROVE ClientTypes'
  <2>1. Append(up, Client!Operation(o)) \in Seq(Frames)
    BY FramesAre
  <2> QED BY <1>8, <2>1 DEF Client!Submit
<1>9. ASSUME NEW o \in Ops, Client!WaitFor(o) PROVE ClientTypes'
  BY <1>9 DEF Client!WaitFor, Client!Returns
<1>10. ASSUME NEW o \in Ops, Client!Woken(o) PROVE ClientTypes'
  BY <1>10 DEF Client!Woken, Client!Returns
<1>11. ASSUME NEW o \in Ops, Client!ServerFinishes(o) PROVE ClientTypes'
  <2>1. Append(down, Client!Operation(o)) \in Seq(Frames)
    BY FramesAre
  <2> QED BY <1>11, <2>1 DEF Client!ServerFinishes
<1> QED BY <1>1, <1>2, <1>3, <1>4, <1>5, <1>6, <1>7, <1>8, <1>9, <1>10, <1>11 DEF Client!Next

LEMMA ClientOps ==
  ASSUME SwitchWhileWaiting = FALSE, ClientTypes, Client!Next,
         \A o \in Ops : Told(o) /\ Waited(o) /\ Unread(o), NEW o \in Ops
  PROVE  Told(o)' /\ Waited(o)' /\ Unread(o)'
<1> USE DEF Client!echoVars, Client!opVars
<1>1. Told(o) /\ Waited(o) /\ Unread(o)
  OBVIOUS
<1>2. op[o] \in {"new", "sent", "waiting", "returned", "failed"} /\ link \in {"open", "lost"}
  BY DEF ClientTypes
<1>3. up \in Seq(Frames) /\ down \in Seq(Frames)
  BY DEF ClientTypes
<1>4. ASSUME UNCHANGED <<link, op, future, completed, server, cut>>,
             OnWay(up, o)' <=> OnWay(up, o), OnWay(down, o)' <=> OnWay(down, o), OnceOn(up, o)'
      PROVE  Told(o)' /\ Waited(o)' /\ Unread(o)'
  BY <1>1, <1>4 DEF Told, Waited, Unread
<1>5. ASSUME NEW t \in Texts, Client!EmitUserMessage(t) PROVE Told(o)' /\ Waited(o)' /\ Unread(o)'
  <2>1. up' = Append(up, Client!User(t)) \/ up' = up
    BY <1>5 DEF Client!EmitUserMessage
  <2>2. UNCHANGED <<link, down, op, future, completed, server, cut>>
    BY <1>5 DEF Client!EmitUserMessage
  <2>3. (OnWay(up, o)' <=> OnWay(up, o)) /\ OnceOn(up, o)'
    <3>1. CASE up' = up
      BY <1>1, <3>1 DEF OnWay, OnceOn, Unread
    <3>2. CASE up' = Append(up, Client!User(t))
      <4>1. Client!User(t) \in Frames /\ Client!User(t) # Client!Operation(o) /\ OnceOn(up, o)
        BY <1>1, FramesAre DEF Unread
      <4> QED BY <1>3, <3>2, <4>1, FramesSent
    <3> QED BY <2>1, <3>1, <3>2
  <2>4. OnWay(down, o)' <=> OnWay(down, o)
    BY <2>2 DEF OnWay
  <2> QED BY <1>4, <2>2, <2>3, <2>4
<1>6. ASSUME NEW t \in Texts, Client!Foreign(t) PROVE Told(o)' /\ Waited(o)' /\ Unread(o)'
  <2>1. UNCHANGED <<link, up, op, future, completed, server, cut>>
    BY <1>6 DEF Client!Foreign
  <2>2. (OnWay(up, o)' <=> OnWay(up, o)) /\ OnceOn(up, o)'
    BY <1>1, <2>1 DEF OnWay, OnceOn, Unread
  <2>3. down' = Append(down, Client!User(t))
    BY <1>6 DEF Client!Foreign
  <2>4. Client!User(t) \in Frames /\ Client!User(t) # Client!Operation(o)
    BY FramesAre
  <2>5. OnWay(down, o)' <=> OnWay(down, o)
    BY <1>3, <2>3, <2>4, FramesSent
  <2> QED BY <1>4, <2>1, <2>2, <2>5
<1>7. ASSUME Client!Expire PROVE Told(o)' /\ Waited(o)' /\ Unread(o)'
  <2>1. UNCHANGED <<link, up, down, op, future, completed, server, cut>>
    BY <1>7 DEF Client!Expire
  <2> QED BY <1>1, <2>1 DEF Told, Waited, Unread, OnWay, OnceOn
<1>8. ASSUME Client!Receive PROVE Told(o)' /\ Waited(o)' /\ Unread(o)'
  <2>1. /\ down # <<>> /\ down' = Tail(down) /\ Head(down) \in Frames
        /\ OnWay(down, o) <=> OnWay(down, o)' \/ Head(down) = Client!Operation(o)
    BY <1>3, <1>8, FramesRead DEF Client!Receive
  <2>2. UNCHANGED <<link, up, op, server, cut>>
    BY <1>8 DEF Client!Receive, Client!ReceiveUser, Client!ReceiveFinished
  <2>3. (OnWay(up, o)' <=> OnWay(up, o)) /\ OnceOn(up, o)'
    BY <1>1, <2>2 DEF OnWay, OnceOn, Unread
  <2>4. CASE Head(down).kind = "user"
    <3>1. OnWay(down, o)' <=> OnWay(down, o)
      BY <2>1, <2>4, FramesAre
    <3>2. UNCHANGED <<future, completed>>
      BY <1>8, <2>4 DEF Client!Receive, Client!ReceiveUser
    <3> QED BY <1>4, <2>2, <2>3, <3>1, <3>2
  <2>5. CASE Head(down).kind # "user"
    <3> DEFINE p == Head(down).what
    <3>1. p \in Ops /\ Head(down) = Client!Operation(p)
      BY <2>1, <2>5, FramesAre
    <3>2. Client!ReceiveFinished(p)
      BY <1>8, <2>5 DEF Client!Receive
    <3> HIDE DEF p
    <3>3. /\ completed' = completed \cup {p}
          /\ future' = [future EXCEPT ![p] = IF op[p] = "waiting" THEN "set" ELSE "none"]
          /\ future \in [Ops -> {"none", "pending", "set"}]
      BY <3>2 DEF Client!ReceiveFinished, Client!Remembered, ClientTypes
    <3>4. CASE p = o
      <4>1. server[o] = "over"
        BY <1>1, <2>1, <3>1, <3>4 DEF Told
      <4>2. future'[o] # "pending"
        BY <3>3, <3>4
      <4> QED BY <1>1, <2>2, <2>3, <4>1, <4>2 DEF Told, Waited, Unread
    <3>5. CASE p # o
      <4>1. OnWay(down, o)' <=> OnWay(down, o)
        BY <2>1, <3>1, <3>5, FramesAre
      <4>2. future'[o] = future[o] /\ (o \in completed' <=> o \in completed)
        BY <3>3, <3>5
      <4> QED BY <1>1, <2>2, <2>3, <4>1, <4>2 DEF Told, Waited, Unread
    <3> QED BY <3>4, <3>5
  <2> QED BY <2>4, <2>5
<1>9. ASSUME Client!ServerReads PROVE Told(o)' /\ Waited(o)' /\ Unread(o)'
  <2>1. /\ up # <<>> /\ up' = Tail(up) /\ Head(up) \in Frames
        /\ OnWay(up, o) <=> OnWay(up, o)' \/ Head(up) = Client!Operation(o)
        /\ OnceOn(up, o)'
        /\ Head(up) = Client!Operation(o) => ~OnWay(up, o)'
    BY <1>1, <1>3, <1>9, FramesRead DEF Client!ServerReads, Unread
  <2>2. UNCHANGED <<link, op, future, completed, cut>>
    BY <1>9 DEF Client!ServerReads
  <2>3. CASE Head(up).kind = "user"
    <3>1. OnWay(up, o)' <=> OnWay(up, o)
      BY <2>1, <2>3, FramesAre
    <3>2. down' = Append(down, Head(up)) /\ UNCHANGED server
      BY <1>9, <2>3 DEF Client!ServerReads
    <3>3. Head(up) # Client!Operation(o)
      BY <2>1, <2>3, FramesAre
    <3>4. OnWay(down, o)' <=> OnWay(down, o)
      BY <1>3, <2>1, <3>2, <3>3, FramesSent
    <3> QED BY <1>4, <2>1, <2>2, <3>1, <3>2, <3>4
  <2>4. CASE Head(up).kind # "user"
    <3> DEFINE p == Head(up).what
    <3>1. p \in Ops /\ Head(up) = Client!Operation(p)
      BY <2>1, <2>4, FramesAre
    <3>2. server' = [server EXCEPT ![p] = "runs"] /\ UNCHANGED down
      BY <1>9, <2>4 DEF Client!ServerReads
    <3>3. server \in [Ops -> {"unknown", "runs", "over"}]
      BY DEF ClientTypes
    <3>4. OnWay(down, o)' <=> OnWay(down, o)
      BY <3>2 DEF OnWay
    <3> HIDE DEF p
    <3>5. CASE p = o
      <4>1. OnWay(up, o) /\ ~OnWay(up, o)' /\ server'[o] = "runs"
        BY <2>1, <3>1, <3>2, <3>3, <3>5
      <4>2. server[o] = "unknown" /\ o \notin cut /\ op[o] # "new"
        BY <1>1, <4>1 DEF Unread
      <4> QED BY <1>1, <2>1, <2>2, <3>4, <4>1, <4>2 DEF Told, Waited, Unread
    <3>6. CASE p # o
      <4>1. (OnWay(up, o)' <=> OnWay(up, o)) /\ server'[o] = server[o]
        BY <2>1, <3>1, <3>2, <3>3, <3>6, FramesAre
      <4> QED BY <1>1, <2>1, <2>2, <3>4, <4>1 DEF Told, Waited, Unread
    <3> QED BY <3>5, <3>6
  <2> QED BY <2>3, <2>4
<1>10. Len(<<>>) = 0 /\ 1 .. 0 = {}
  OBVIOUS
<1>11. ASSUME Client!Lose PROVE Told(o)' /\ Waited(o)' /\ Unread(o)'
  <2>1. ~OnWay(up, o)' /\ ~OnWay(down, o)' /\ OnceOn(up, o)'
    BY <1>10, <1>11 DEF Client!Lose, OnWay, OnceOn
  <2>2. UNCHANGED <<op, completed, server>> /\ future'[o] # "pending"
    BY <1>11 DEF Client!Lose, Client!Released
  <2>3. o \in cut' <=> o \in cut \/ op[o] \in {"sent", "waiting"}
    BY <1>11 DEF Client!Lose, Client!InFlight
  <2> QED BY <1>1, <1>2, <2>1, <2>2, <2>3 DEF Told, Waited, Unread
<1>12. ASSUME Client!Reattach PROVE Told(o)' /\ Waited(o)' /\ Unread(o)'
  <2>1. ~OnWay(up, o)' /\ ~OnWay(down, o)' /\ OnceOn(up, o)'
    BY <1>10, <1>12 DEF Client!Reattach, OnWay, OnceOn
  <2>2. UNCHANGED <<op, completed, server, future>>
    BY <1>12 DEF Client!Reattach
  <2>3. op[o] \in {"sent", "waiting"} => future[o] # "pending"
    BY <1>12 DEF Client!Reattach, Client!InFlight
  <2>4. o \in cut' <=> o \in cut \/ op[o] \in {"sent", "waiting"}
    BY <1>12 DEF Client!Reattach, Client!InFlight
  <2> QED BY <1>1, <1>2, <2>1, <2>2, <2>3, <2>4 DEF Told, Waited, Unread
<1>13. ASSUME NEW p \in Ops, Client!Submit(p) PROVE Told(o)' /\ Waited(o)' /\ Unread(o)'
  <2>1. UNCHANGED <<link, down, completed, server, cut>> /\ op[p] = "new"
    BY <1>13 DEF Client!Submit
  <2>2. OnWay(down, o)' <=> OnWay(down, o)
    BY <2>1 DEF OnWay
  <2>3. /\ future \in [Ops -> {"none", "pending", "set"}]
        /\ op \in [Ops -> {"new", "sent", "waiting", "returned", "failed"}]
        /\ future' = [future EXCEPT ![p] = "pending"]
    BY <1>13 DEF ClientTypes, Client!Submit
  <2>4. p # o => op'[o] = op[o] /\ future'[o] = future[o]
    BY <1>13, <2>3 DEF Client!Submit
  <2>5. CASE link = "open"
    <3>1. up' = Append(up, Client!Operation(p)) /\ op'[p] = "sent"
      BY <1>13, <2>3, <2>5 DEF Client!Submit
    <3>2. OnWay(up, o)' <=> OnWay(up, o) \/ p = o
      BY <1>3, <3>1, FramesAre, FramesSent
    <3>3. p = o => ~OnWay(up, o) /\ server[o] = "unknown" /\ o \notin cut
      BY <1>1, <2>1 DEF Unread
    <3>4. OnceOn(up, o)'
      BY <1>1, <1>3, <3>1, <3>3, FramesAre, FramesSent DEF Unread
    <3>5. CASE p = o
      <4>1. op'[o] = "sent" /\ OnWay(up, o)' /\ link' = "open"
        BY <2>1, <2>5, <3>1, <3>2, <3>5
      <4>2. server'[o] = "unknown" /\ o \notin cut' /\ future'[o] = "pending"
        BY <2>1, <2>3, <3>3, <3>5
      <4> QED BY <1>1, <2>1, <2>2, <3>4, <4>1, <4>2 DEF Told, Waited, Unread
    <3>6. CASE p # o
      BY <1>1, <2>1, <2>2, <2>4, <3>2, <3>4, <3>6 DEF Told, Waited, Unread
    <3> QED BY <3>5, <3>6
  <2>6. CASE link # "open"
    <3>1. UNCHANGED up /\ op'[p] = "failed"
      BY <1>13, <2>3, <2>6 DEF Client!Submit
    <3>2. (OnWay(up, o)' <=> OnWay(up, o)) /\ OnceOn(up, o)'
      BY <1>1, <3>1 DEF OnWay, OnceOn, Unread
    <3> QED BY <1>1, <2>1, <2>2, <2>4, <3>1, <3>2 DEF Told, Waited, Unread
  <2> QED BY <2>5, <2>6
<1>14. ASSUME NEW p \in Ops, Client!WaitFor(p) \/ Client!Woken(p)
       PROVE  Told(o)' /\ Waited(o)' /\ Unread(o)'
  <2>1. UNCHANGED <<link, up, down, server, cut>> /\ op[p] \in {"sent", "waiting"}
    BY <1>14 DEF Client!WaitFor, Client!Woken
  <2>2. (OnWay(up, o)' <=> OnWay(up, o)) /\ OnceOn(up, o)' /\ (OnWay(down, o)' <=> OnWay(down, o))
    BY <1>1, <2>1 DEF OnWay, OnceOn, Unread
  <2>3. /\ future \in [Ops -> {"none", "pending", "set"}]
        /\ op \in [Ops -> {"new", "sent", "waiting", "returned", "failed"}]
    BY DEF ClientTypes
  <2>4. p # o => op'[o] = op[o] /\ future'[o] = future[o] /\ (o \in completed' => o \in completed)
    BY <1>14, <2>3 DEF Client!WaitFor, Client!Woken, Client!Returns
  <2>5. CASE p # o
    BY <1>1, <2>1, <2>2, <2>4, <2>5 DEF Told, Waited, Unread
  <2>6. CASE p = o
    <3>1. \/ /\ op'[o] = "returned" /\ o \notin completed'
             /\ o \in completed \/ future[o] # "pending"
          \/ op'[o] = "waiting" /\ UNCHANGED <<future, completed>>
      BY <1>14, <2>3, <2>6 DEF Client!WaitFor, Client!Woken, Client!Returns
    <3> QED BY <1>1, <2>1, <2>2, <2>6, <3>1 DEF Told, Waited, Unread
  <2> QED BY <2>5, <2>6
<1>15. ASSUME NEW p \in Ops, Client!ServerFinishes(p) PROVE Told(o)' /\ Waited(o)' /\ Unread(o)'
  <2>1. UNCHANGED <<link, up, op, future, completed, cut>> /\ server[p] = "runs"
    BY <1>15 DEF Client!ServerFinishes
  <2>2. (OnWay(up, o)' <=> OnWay(up, o)) /\ OnceOn(up, o)'
    BY <1>1, <2>1 DEF OnWay, OnceOn, Unread
  <2>3. server' = [server EXCEPT ![p] = "over"] /\ server \in [Ops -> {"unknown", "runs", "over"}]
    BY <1>15 DEF Client!ServerFinishes, ClientTypes
  <2>4. OnWay(down, o)' <=> OnWay(down, o) \/ (p = o /\ link = "open" /\ o \notin cut)
    <3>1. CASE link = "open" /\ p \notin cut
      <4>1. down' = Append(down, Client!Operation(p))
        BY <1>15, <3>1 DEF Client!ServerFinishes
      <4> QED BY <1>3, <3>1, <4>1, FramesAre, FramesSent
    <3>2. CASE ~(link = "open" /\ p \notin cut)
      <4>1. down' = down
        BY <1>15, <3>2 DEF Client!ServerFinishes
      <4> QED BY <3>2, <4>1 DEF OnWay
    <3> QED BY <3>1, <3>2
  <2>5. CASE p = o
    <3>1. server'[o] = "over" /\ server[o] = "runs"
      BY <2>1, <2>3, <2>5
    <3> QED BY <1>1, <2>1, <2>2, <2>4, <2>5, <3>1 DEF Told, Waited, Unread
  <2>6. CASE p # o
    <3>1. server'[o] = server[o]
      BY <2>3, <2>6
    <3> QED BY <1>1, <2>1, <2>2, <2>4, <2>6, <3>1 DEF Told, Waited, Unread
  <2> QED BY <2>5, <2>6
<1> QED BY <1>5, <1>6, <1>7, <1>8, <1>9, <1>11, <1>12, <1>13, <1>14, <1>15 DEF Client!Next

\* The echoes still to be swallowed are on their way, in their order.
Fits(s, q) ==
  \E f \in [1 .. Len(s) -> 1 .. Len(q)] :
    /\ \A i, j \in 1 .. Len(s) : i < j => f[i] < f[j]
    /\ \A i \in 1 .. Len(s) : q[f[i]] = Client!User(s[i])

LEMMA FitsMoved ==
  ASSUME NEW s \in Seq(Texts), NEW q \in Seq(Frames), NEW r \in Seq(Frames), Fits(s, q),
         NEW g \in [1 .. Len(q) -> Int],
         \A i \in 1 .. Len(q) : q[i].kind = "user" => g[i] \in 1 .. Len(r) /\ r[g[i]] = q[i],
         \A i, j \in 1 .. Len(q) : i < j /\ q[i].kind = "user" /\ q[j].kind = "user" => g[i] < g[j]
  PROVE  Fits(s, r)
<1>1. PICK f \in [1 .. Len(s) -> 1 .. Len(q)] :
        /\ \A i, j \in 1 .. Len(s) : i < j => f[i] < f[j]
        /\ \A i \in 1 .. Len(s) : q[f[i]] = Client!User(s[i])
  BY DEF Fits
<1>0. \A t : Client!User(t).kind = "user"
  BY DEF Client!User
<1>2. \A i \in 1 .. Len(s) : f[i] \in 1 .. Len(q) /\ q[f[i]].kind = "user"
  BY <1>0, <1>1
<1> DEFINE h == [i \in 1 .. Len(s) |-> g[f[i]]]
<1>3. \A i \in 1 .. Len(s) : h[i] = g[f[i]] /\ h[i] \in 1 .. Len(r) /\ r[h[i]] = q[f[i]]
  BY <1>2
<1>4. h \in [1 .. Len(s) -> 1 .. Len(r)]
  BY <1>3
<1> HIDE DEF h
<1>5. \A i, j \in 1 .. Len(s) : i < j => h[i] < h[j]
  BY <1>1, <1>2, <1>3
<1>6. \A i \in 1 .. Len(s) : r[h[i]] = Client!User(s[i])
  BY <1>1, <1>3
<1> QED BY <1>4, <1>5, <1>6 DEF Fits

LEMMA FitsMore ==
  ASSUME NEW s \in Seq(Texts), NEW q \in Seq(Frames), Fits(s, q), NEW t \in Texts
  PROVE  Fits(Append(s, t), Append(q, Client!User(t)))
<1>1. PICK f \in [1 .. Len(s) -> 1 .. Len(q)] :
        /\ \A i, j \in 1 .. Len(s) : i < j => f[i] < f[j]
        /\ \A i \in 1 .. Len(s) : q[f[i]] = Client!User(s[i])
  BY DEF Fits
<1> DEFINE v == Append(s, t)
           r == Append(q, Client!User(t))
           h == [i \in 1 .. Len(s) + 1 |-> IF i = Len(s) + 1 THEN Len(q) + 1 ELSE f[i]]
<1>2. /\ Len(s) \in Nat /\ Len(v) = Len(s) + 1 /\ v[Len(s) + 1] = t
      /\ \A i \in 1 .. Len(s) : v[i] = s[i]
  OBVIOUS
<1>3. /\ Len(q) \in Nat /\ Len(r) = Len(q) + 1 /\ r[Len(q) + 1] = Client!User(t)
      /\ \A i \in 1 .. Len(q) : r[i] = q[i]
  OBVIOUS
<1> HIDE DEF v, r
<1>4. h \in [1 .. Len(v) -> 1 .. Len(r)]
  BY <1>1, <1>2, <1>3
<1>5. \A i \in 1 .. Len(s) : h[i] = f[i] /\ f[i] \in 1 .. Len(q)
  BY <1>1, <1>2
<1>6. h[Len(s) + 1] = Len(q) + 1
  BY <1>2
<1> HIDE DEF h
<1>7. ASSUME NEW i \in 1 .. Len(v) PROVE r[h[i]] = Client!User(v[i])
  <2>1. CASE i = Len(s) + 1
    BY <1>2, <1>3, <1>6, <2>1
  <2>2. CASE i \in 1 .. Len(s)
    <3>1. r[h[i]] = q[f[i]]
      BY <1>3, <1>5, <2>2
    <3>2. q[f[i]] = Client!User(s[i]) /\ v[i] = s[i]
      BY <1>1, <1>2, <2>2
    <3> QED BY <3>1, <3>2
  <2> QED BY <1>2, <2>1, <2>2
<1>8. ASSUME NEW i \in 1 .. Len(v), NEW j \in 1 .. Len(v), i < j PROVE h[i] < h[j]
  BY <1>1, <1>2, <1>3, <1>5, <1>6, <1>8, SMTT(30)
<1>9. Fits(v, r)
  BY <1>4, <1>7, <1>8 DEF Fits
<1> QED BY <1>9 DEF v, r

LEMMA FitsPassed ==
  ASSUME NEW s \in Seq(Texts), NEW q \in Seq(Frames), q # <<>>, Fits(s, q),
         s # <<>> => Head(q) # Client!User(Head(s))
  PROVE  Fits(s, Tail(q))
<1>1. PICK f \in [1 .. Len(s) -> 1 .. Len(q)] :
        /\ \A i, j \in 1 .. Len(s) : i < j => f[i] < f[j]
        /\ \A i \in 1 .. Len(s) : q[f[i]] = Client!User(s[i])
  BY DEF Fits
<1> DEFINE r == Tail(q)
           h == [i \in 1 .. Len(s) |-> f[i] - 1]
<1>2. /\ Len(q) \in Nat /\ Len(r) = Len(q) - 1 /\ Head(q) = q[1]
      /\ \A i \in 1 .. Len(r) : r[i] = q[i + 1]
  OBVIOUS
<1>3. Len(s) \in Nat /\ (s # <<>> => Head(s) = s[1]) /\ (1 \in 1 .. Len(s) => s # <<>>)
  OBVIOUS
<1> HIDE DEF r
<1>4. ASSUME NEW i \in 1 .. Len(s) PROVE f[i] \in 2 .. Len(q)
  <2>1. 1 \in 1 .. Len(s) /\ f[1] \in 1 .. Len(q) /\ f[1] # 1
    BY <1>1, <1>2, <1>3
  <2>2. i = 1 \/ f[1] < f[i]
    BY <1>1, <1>3, <2>1
  <2> QED BY <1>1, <1>2, <2>1, <2>2
<1>5. \A i \in 1 .. Len(s) : h[i] = f[i] - 1 /\ h[i] \in 1 .. Len(r)
  BY <1>2, <1>4
<1>6. h \in [1 .. Len(s) -> 1 .. Len(r)]
  BY <1>5
<1> HIDE DEF h
<1>7. ASSUME NEW i \in 1 .. Len(s) PROVE r[h[i]] = Client!User(s[i])
  <2>1. h[i] + 1 = f[i]
    BY <1>4, <1>5
  <2> QED BY <1>1, <1>2, <1>5, <2>1
<1>8. \A i, j \in 1 .. Len(s) : i < j => h[i] < h[j]
  BY <1>1, <1>4, <1>5
<1>9. Fits(s, r)
  BY <1>6, <1>7, <1>8 DEF Fits
<1> QED BY <1>9 DEF r

LEMMA FitsSwallowed ==
  ASSUME NEW s \in Seq(Texts), NEW q \in Seq(Frames), q # <<>>, Fits(s, q), s # <<>>
  PROVE  Fits(Tail(s), Tail(q))
<1>1. PICK f \in [1 .. Len(s) -> 1 .. Len(q)] :
        /\ \A i, j \in 1 .. Len(s) : i < j => f[i] < f[j]
        /\ \A i \in 1 .. Len(s) : q[f[i]] = Client!User(s[i])
  BY DEF Fits
<1> DEFINE r == Tail(q)
           v == Tail(s)
           h == [i \in 1 .. Len(s) - 1 |-> f[i + 1] - 1]
<1>2. /\ Len(q) \in Nat /\ Len(r) = Len(q) - 1
      /\ \A i \in 1 .. Len(r) : r[i] = q[i + 1]
  OBVIOUS
<1>3. /\ Len(s) \in Nat /\ Len(v) = Len(s) - 1
      /\ \A i \in 1 .. Len(v) : v[i] = s[i + 1]
  OBVIOUS
<1> HIDE DEF r, v
<1>4. ASSUME NEW i \in 1 .. Len(v) PROVE i + 1 \in 1 .. Len(s) /\ f[i + 1] \in 2 .. Len(q)
  <2>1. 1 \in 1 .. Len(s) /\ i + 1 \in 1 .. Len(s) /\ 1 < i + 1
    BY <1>3
  <2>2. f[1] \in 1 .. Len(q) /\ f[i + 1] \in 1 .. Len(q) /\ f[1] < f[i + 1]
    BY <1>1, <2>1
  <2> QED BY <1>2, <2>1, <2>2
<1>5. \A i \in 1 .. Len(v) : h[i] = f[i + 1] - 1 /\ h[i] \in 1 .. Len(r)
  BY <1>2, <1>3, <1>4
<1>6. h \in [1 .. Len(v) -> 1 .. Len(r)]
  BY <1>3, <1>5
<1> HIDE DEF h
<1>7. ASSUME NEW i \in 1 .. Len(v) PROVE r[h[i]] = Client!User(v[i])
  <2>1. h[i] + 1 = f[i + 1] /\ i + 1 \in 1 .. Len(s) /\ v[i] = s[i + 1]
    BY <1>3, <1>4, <1>5
  <2> QED BY <1>1, <1>2, <1>5, <2>1
<1>8. ASSUME NEW i \in 1 .. Len(v), NEW j \in 1 .. Len(v), i < j PROVE h[i] < h[j]
  <2>1. i + 1 \in 1 .. Len(s) /\ j + 1 \in 1 .. Len(s) /\ i + 1 < j + 1
    BY <1>4, <1>8
  <2>2. f[i + 1] < f[j + 1]
    BY <1>1, <2>1
  <2> QED BY <1>4, <1>5, <2>2
<1>9. Fits(v, r)
  BY <1>6, <1>7, <1>8 DEF Fits
<1> QED BY <1>9 DEF r, v

LEMMA Joined ==
  ASSUME NEW a \in Seq(Frames), NEW b \in Seq(Frames)
  PROVE  /\ a \o b \in Seq(Frames) /\ Len(a \o b) = Len(a) + Len(b)
         /\ \A i \in 1 .. Len(a) : (a \o b)[i] = a[i]
         /\ \A i \in 1 .. Len(a) + Len(b) : i > Len(a) => (a \o b)[i] = b[i - Len(a)]
OBVIOUS

\* Every message said is on the screen once, but for those on the way and the
\* echoes that will not be shown.
Balanced(t) ==
  \E d, u, w \in Int :
    /\ Counted(down, Client!User(t), d) /\ Counted(up, Client!User(t), u) /\ Counted(swallows, t, w)
    /\ shown[t] + d + u = mine[t] + theirs[t] + w

Echoing ==
  link = "open" /\ ~expired => Fits(swallows, down \o up) /\ \A t \in Texts : Balanced(t)

LEMMA UserHits ==
  /\ \A t, v \in Texts : Hits(Client!User(t), Client!User(v)) = Hits(t, v) /\ Hits(t, v) \in {0, 1}
  /\ \A o \in Ops, v \in Texts : Hits(Client!Operation(o), Client!User(v)) = 0
BY FramesAre DEF Hits

LEMMA EchoStarts == Client!Init => Echoing
<1> SUFFICES ASSUME Client!Init PROVE Fits(swallows, down \o up) /\ \A t \in Texts : Balanced(t)
  BY DEF Echoing
<1>1. /\ up = <<>> /\ down = <<>> /\ swallows = <<>>
      /\ \A t \in Texts : shown[t] = 0 /\ mine[t] = 0 /\ theirs[t] = 0
  BY DEF Client!Init
<1>2. Fits(<<>>, <<>> \o <<>>)
  <2>1. Len(<<>>) = 0 /\ 1 .. 0 = {} /\ <<>> \o <<>> = <<>>
    OBVIOUS
  <2>2. [i \in {} |-> 1] \in [{} -> {}]
    OBVIOUS
  <2> QED BY <2>1, <2>2 DEF Fits
<1>3. ASSUME NEW t \in Texts PROVE Balanced(t)
  <2>1. Counted(<<>>, Client!User(t), 0) /\ Counted(<<>>, t, 0)
    BY CountNone
  <2>2. Counted(down, Client!User(t), 0) /\ Counted(up, Client!User(t), 0) /\ Counted(swallows, t, 0)
    BY <1>1, <2>1
  <2>3. 0 \in Int /\ shown[t] + 0 + 0 = mine[t] + theirs[t] + 0
    BY <1>1
  <2> QED BY <2>2, <2>3 DEF Balanced
<1> QED BY <1>1, <1>2, <1>3

\* s became r, with n more of x.
Gains(s, r, x, n) == \A k : Counted(s, x, k) => Counted(r, x, k + n)

LEMMA AddsUp ==
  ASSUME NEW s \in Int, NEW m \in Int, NEW h \in Int, NEW v \in Int, NEW n \in Int, NEW k \in Int,
         NEW d \in Int, NEW u \in Int, NEW w \in Int, NEW a \in Int, NEW b \in Int, NEW c \in Int,
         s + d + u = m + h + w, v - n - k + a + b = s - m - h + c
  PROVE  v + (d + a) + (u + b) = n + k + (w + c)
OBVIOUS

\* What a step adds to the three sequences and to the counts of a text.
LEMMA StaysBalanced ==
  ASSUME NEW t \in Texts, ClientTypes, Balanced(t), NEW a \in Int, NEW b \in Int, NEW c \in Int,
         Gains(down, down', Client!User(t), a),
         Gains(up, up', Client!User(t), b),
         Gains(swallows, swallows', t, c),
         shown'[t] - mine'[t] - theirs'[t] + a + b = shown[t] - mine[t] - theirs[t] + c,
         shown'[t] \in Int, mine'[t] \in Int, theirs'[t] \in Int
  PROVE  Balanced(t)'
<1>1. PICK d \in Int, u \in Int, w \in Int :
        /\ Counted(down, Client!User(t), d) /\ Counted(up, Client!User(t), u) /\ Counted(swallows, t, w)
        /\ shown[t] + d + u = mine[t] + theirs[t] + w
  BY DEF Balanced
<1>2. Counted(down', Client!User(t), d + a) /\ Counted(up', Client!User(t), u + b) /\ Counted(swallows', t, w + c)
  BY <1>1 DEF Gains
<1> DEFINE S == shown[t]  M == mine[t]  H == theirs[t]
           V == shown'[t]  N == mine'[t]  K == theirs'[t]
<1>3. /\ S \in Int /\ M \in Int /\ H \in Int /\ V \in Int /\ N \in Int /\ K \in Int
      /\ S + d + u = M + H + w /\ V - N - K + a + b = S - M - H + c
  BY <1>1 DEF ClientTypes
<1> HIDE DEF S, M, H, V, N, K
<1>4. V + (d + a) + (u + b) = N + K + (w + c)
  BY <1>3, AddsUp
<1>5. shown'[t] + (d + a) + (u + b) = mine'[t] + theirs'[t] + (w + c)
  BY <1>4 DEF V, N, K
<1>6. d + a \in Int /\ u + b \in Int /\ w + c \in Int
  OBVIOUS
<1> QED BY <1>2, <1>5, <1>6 DEF Balanced

LEMMA GainsNone ==
  ASSUME NEW S, NEW s \in Seq(S), NEW x PROVE Gains(s, s, x, 0)
<1>1. ASSUME NEW k, Counted(s, x, k) PROVE k \in Int
  BY <1>1 DEF Counted, Counts
<1>2. ASSUME NEW k, Counted(s, x, k) PROVE Counted(s, x, k + 0)
  <2>1. k + 0 = k
    BY <1>1, <1>2
  <2> QED BY <1>2, <2>1
<1> QED BY <1>2 DEF Gains

LEMMA GainsOne ==
  ASSUME NEW S, NEW s \in Seq(S), NEW y \in S, NEW x PROVE Gains(s, Append(s, y), x, Hits(y, x))
BY CountMore DEF Gains

LEMMA GainsLess ==
  ASSUME NEW S, NEW s \in Seq(S), s # <<>>, NEW x PROVE Gains(s, Tail(s), x, 0 - Hits(Head(s), x))
<1>1. ASSUME NEW k, Counted(s, x, k) PROVE Counted(Tail(s), x, k + (0 - Hits(Head(s), x)))
  <2>1. k \in Int /\ Counted(Tail(s), x, k - Hits(Head(s), x))
    BY <1>1, CountLess
  <2>2. k - Hits(Head(s), x) = k + (0 - Hits(Head(s), x))
    BY <2>1 DEF Hits
  <2> QED BY <2>1, <2>2
<1> QED BY <1>1 DEF Gains

LEMMA FitsSame ==
  ASSUME NEW s, NEW q, NEW r, Fits(s, q), Len(q) = Len(r), \A i \in 1 .. Len(q) : q[i] = r[i]
  PROVE  Fits(s, r)
<1>1. PICK f \in [1 .. Len(s) -> 1 .. Len(q)] :
        /\ \A i, j \in 1 .. Len(s) : i < j => f[i] < f[j]
        /\ \A i \in 1 .. Len(s) : q[f[i]] = Client!User(s[i])
  BY DEF Fits
<1>2. \A i \in 1 .. Len(s) : r[f[i]] = Client!User(s[i])
  BY <1>1
<1> QED BY <1>1, <1>2 DEF Fits

LEMMA FitsLonger ==
  ASSUME NEW s, NEW q \in Seq(Frames), NEW x \in Frames, Fits(s, q) PROVE Fits(s, Append(q, x))
<1> DEFINE r == Append(q, x)
<1>1. Len(q) \in Nat /\ Len(r) = Len(q) + 1 /\ \A i \in 1 .. Len(q) : r[i] = q[i] /\ i \in 1 .. Len(r)
  OBVIOUS
<1> HIDE DEF r
<1>2. PICK f \in [1 .. Len(s) -> 1 .. Len(q)] :
        /\ \A i, j \in 1 .. Len(s) : i < j => f[i] < f[j]
        /\ \A i \in 1 .. Len(s) : q[f[i]] = Client!User(s[i])
  BY DEF Fits
<1>3. \A i \in 1 .. Len(s) : r[f[i]] = Client!User(s[i])
  BY <1>1, <1>2
<1>4. f \in [1 .. Len(s) -> 1 .. Len(r)]
  BY <1>1, <1>2
<1>5. Fits(s, r)
  BY <1>2, <1>3, <1>4 DEF Fits
<1> QED BY <1>5 DEF r

\* A frame that comes between, or between there and leaves that is no message,
\* moves the others.
LEMMA FitsBetween ==
  ASSUME NEW s \in Seq(Texts), NEW a \in Seq(Frames), NEW b \in Seq(Frames), Fits(s, a \o b),
         NEW x \in Frames
  PROVE  Fits(s, Append(a, x) \o b)
<1> DEFINE q == a \o b
           r == Append(a, x) \o b
           g == [i \in 1 .. Len(q) |-> IF i <= Len(a) THEN i ELSE i + 1]
<1>1. /\ Append(a, x) \in Seq(Frames) /\ Len(Append(a, x)) = Len(a) + 1 /\ Len(a) \in Nat /\ Len(b) \in Nat
      /\ \A i \in 1 .. Len(a) : Append(a, x)[i] = a[i]
  OBVIOUS
<1>2. /\ q \in Seq(Frames) /\ Len(q) = Len(a) + Len(b)
      /\ \A i \in 1 .. Len(a) : q[i] = a[i]
      /\ \A i \in 1 .. Len(a) + Len(b) : i > Len(a) => q[i] = b[i - Len(a)]
  BY Joined
<1>3. /\ r \in Seq(Frames) /\ Len(r) = Len(a) + 1 + Len(b)
      /\ \A i \in 1 .. Len(a) + 1 : r[i] = Append(a, x)[i]
      /\ \A i \in 1 .. Len(a) + 1 + Len(b) : i > Len(a) + 1 => r[i] = b[i - (Len(a) + 1)]
  BY <1>1, Joined
<1> HIDE DEF q, r
<1>4. g \in [1 .. Len(q) -> Int] /\ \A i \in 1 .. Len(q) : g[i] = IF i <= Len(a) THEN i ELSE i + 1
  BY <1>1, <1>2
<1> HIDE DEF g
<1>5. ASSUME NEW i \in 1 .. Len(q) PROVE g[i] \in 1 .. Len(r) /\ r[g[i]] = q[i]
  <2>1. CASE i <= Len(a)
    <3>1. i \in 1 .. Len(a) /\ i \in 1 .. Len(a) + 1 /\ i \in 1 .. Len(r) /\ g[i] = i
      BY <1>1, <1>2, <1>3, <1>4, <2>1
    <3>2. q[i] = a[i] /\ r[i] = Append(a, x)[i] /\ Append(a, x)[i] = a[i]
      BY <1>1, <1>2, <1>3, <3>1
    <3> QED BY <3>1, <3>2
  <2>2. CASE i > Len(a)
    <3>1. g[i] = i + 1 /\ (i + 1) - (Len(a) + 1) = i - Len(a) /\ i + 1 \in 1 .. Len(a) + 1 + Len(b)
      BY <1>1, <1>2, <1>4, <2>2
    <3>2. r[i + 1] = b[(i + 1) - (Len(a) + 1)] /\ q[i] = b[i - Len(a)]
      BY <1>1, <1>2, <1>3, <2>2, <3>1
    <3> QED BY <1>3, <3>1, <3>2
  <2> QED BY <1>1, <1>2, <2>1, <2>2
<1>6. \A i, j \in 1 .. Len(q) : i < j => g[i] < g[j]
  BY <1>1, <1>2, <1>4
<1>7. Fits(s, q)
  BY DEF q
<1>8. Fits(s, r)
  BY <1>2, <1>3, <1>4, <1>5, <1>6, <1>7, FitsMoved, ZenonT(60)
<1> QED BY <1>8 DEF r

LEMMA FitsWithout ==
  ASSUME NEW s \in Seq(Texts), NEW a \in Seq(Frames), NEW b \in Seq(Frames), Fits(s, a \o b),
         b # <<>>, Head(b).kind # "user"
  PROVE  Fits(s, a \o Tail(b))
<1> DEFINE c == Tail(b)
           q == a \o b
           r == a \o c
           g == [i \in 1 .. Len(q) |-> IF i <= Len(a) THEN i ELSE i - 1]
<1>1. /\ c \in Seq(Frames) /\ Len(c) = Len(b) - 1 /\ Len(a) \in Nat /\ Len(b) \in Nat /\ Len(b) >= 1
      /\ b[1] = Head(b) /\ \A i \in 1 .. Len(c) : c[i] = b[i + 1]
  OBVIOUS
<1>2. /\ q \in Seq(Frames) /\ Len(q) = Len(a) + Len(b)
      /\ \A i \in 1 .. Len(a) : q[i] = a[i]
      /\ \A i \in 1 .. Len(a) + Len(b) : i > Len(a) => q[i] = b[i - Len(a)]
  BY Joined
<1>3. /\ r \in Seq(Frames) /\ Len(r) = Len(a) + Len(c)
      /\ \A i \in 1 .. Len(a) : r[i] = a[i]
      /\ \A i \in 1 .. Len(a) + Len(c) : i > Len(a) => r[i] = c[i - Len(a)]
  BY <1>1, Joined
<1> HIDE DEF q, r, c
<1>4. g \in [1 .. Len(q) -> Int] /\ \A i \in 1 .. Len(q) : g[i] = IF i <= Len(a) THEN i ELSE i - 1
  BY <1>1, <1>2
<1> HIDE DEF g
<1>5. ASSUME NEW i \in 1 .. Len(q), q[i].kind = "user" PROVE i # Len(a) + 1
  <2> SUFFICES ASSUME i = Len(a) + 1 PROVE FALSE
    OBVIOUS
  <2>1. i - Len(a) = 1 /\ i \in 1 .. Len(a) + Len(b) /\ i > Len(a)
    BY <1>1
  <2>2. q[i] = b[i - Len(a)]
    BY <1>2, <2>1
  <2> QED BY <1>1, <1>5, <2>1, <2>2
<1>6. ASSUME NEW i \in 1 .. Len(q), q[i].kind = "user" PROVE g[i] \in 1 .. Len(r) /\ r[g[i]] = q[i]
  <2>1. CASE i <= Len(a)
    BY <1>1, <1>2, <1>3, <1>4, <2>1
  <2>2. CASE i > Len(a)
    <3>1. /\ i > Len(a) + 1 /\ g[i] = i - 1 /\ i - 1 \in 1 .. Len(a) + Len(c)
          /\ (i - 1) - Len(a) \in 1 .. Len(c) /\ ((i - 1) - Len(a)) + 1 = i - Len(a)
      BY <1>1, <1>2, <1>4, <1>5, <1>6, <2>2
    <3>2. r[i - 1] = c[(i - 1) - Len(a)] /\ q[i] = b[i - Len(a)]
      BY <1>1, <1>2, <1>3, <2>2, <3>1
    <3>3. c[(i - 1) - Len(a)] = b[i - Len(a)]
      BY <1>1, <3>1
    <3> QED BY <1>3, <3>1, <3>2, <3>3
  <2> QED BY <1>1, <1>2, <2>1, <2>2
<1>7. ASSUME NEW i \in 1 .. Len(q), NEW j \in 1 .. Len(q), i < j,
             q[i].kind = "user", q[j].kind = "user"
      PROVE  g[i] < g[j]
  BY <1>1, <1>2, <1>4, <1>5, <1>7
<1>8. Fits(s, q)
  BY DEF q
<1>9. Fits(s, r)
  BY <1>2, <1>3, <1>4, <1>6, <1>7, <1>8, FitsMoved
<1> QED BY <1>9 DEF r, c

\* What is added at the end, taken at the front, or moved from one queue to
\* the other.
LEMMA FitsQueues ==
  ASSUME NEW a \in Seq(Frames), NEW b \in Seq(Frames)
  PROVE  /\ \A x \in Frames : \A s : Fits(s, Append(a \o b, x)) => Fits(s, a \o Append(b, x))
         /\ a # <<>> => /\ a \o b # <<>> /\ Head(a \o b) = Head(a)
                        /\ \A s : Fits(s, Tail(a \o b)) => Fits(s, Tail(a) \o b)
         /\ b # <<>> => \A s : Fits(s, a \o b) => Fits(s, Append(a, Head(b)) \o Tail(b))
<1> DEFINE q == a \o b
<1>1. /\ q \in Seq(Frames) /\ Len(q) = Len(a) + Len(b) /\ Len(a) \in Nat /\ Len(b) \in Nat
      /\ \A i \in 1 .. Len(a) : q[i] = a[i]
      /\ \A i \in 1 .. Len(a) + Len(b) : i > Len(a) => q[i] = b[i - Len(a)]
  BY Joined
<1> HIDE DEF q
<1>2. ASSUME NEW x \in Frames, NEW s, Fits(s, Append(q, x)) PROVE Fits(s, a \o Append(b, x))
  <2> DEFINE r == a \o Append(b, x)
             v == Append(q, x)
  <2>1. /\ Append(b, x) \in Seq(Frames) /\ Len(Append(b, x)) = Len(b) + 1 /\ Append(b, x)[Len(b) + 1] = x
        /\ \A i \in 1 .. Len(b) : Append(b, x)[i] = b[i]
    OBVIOUS
  <2>2. Len(v) = Len(q) + 1 /\ v[Len(q) + 1] = x /\ \A i \in 1 .. Len(q) : v[i] = q[i]
    BY <1>1
  <2>3. /\ Len(r) = Len(a) + Len(b) + 1
        /\ \A i \in 1 .. Len(a) : r[i] = a[i]
        /\ \A i \in 1 .. Len(a) + Len(b) + 1 : i > Len(a) => r[i] = Append(b, x)[i - Len(a)]
    BY <1>1, <2>1, Joined
  <2> HIDE DEF r, v
  <2>4. ASSUME NEW i \in 1 .. Len(v) PROVE v[i] = r[i]
    <3>1. CASE i <= Len(a)
      BY <1>1, <2>2, <2>3, <3>1
    <3>2. CASE i > Len(a) /\ i <= Len(a) + Len(b)
      <4>1. i - Len(a) \in 1 .. Len(b) /\ i \in 1 .. Len(q)
        BY <1>1, <3>2
      <4> QED BY <1>1, <2>1, <2>2, <2>3, <3>2, <4>1
    <3>3. CASE i = Len(a) + Len(b) + 1
      <4>1. i - Len(a) = Len(b) + 1
        BY <1>1, <3>3
      <4> QED BY <1>1, <2>1, <2>2, <2>3, <3>3, <4>1
    <3> QED BY <1>1, <2>2, <3>1, <3>2, <3>3
  <2>5. Fits(s, v) /\ Len(v) = Len(r)
    BY <1>1, <1>2, <2>2, <2>3 DEF v
  <2>6. Fits(s, r)
    BY <2>4, <2>5, FitsSame
  <2> QED BY <2>6 DEF r
<1>3. ASSUME a # <<>>
      PROVE  /\ q # <<>> /\ Head(q) = Head(a)
             /\ \A s : Fits(s, Tail(q)) => Fits(s, Tail(a) \o b)
  <2> DEFINE c == Tail(a)
             v == Tail(q)
             r == c \o b
  <2>1. /\ c \in Seq(Frames) /\ Len(c) = Len(a) - 1 /\ Len(a) >= 1 /\ Head(a) = a[1]
        /\ \A i \in 1 .. Len(c) : c[i] = a[i + 1]
    BY <1>3
  <2>0. Len(q) >= 1 /\ Len(<<>>) = 0
    BY <1>1, <2>1
  <2>2. q # <<>> /\ Head(q) = q[1] /\ Len(v) = Len(q) - 1 /\ \A i \in 1 .. Len(v) : v[i] = q[i + 1]
    <3>1. q # <<>>
      BY <2>0
    <3>2. q \in Seq(Frames) /\ Len(q) \in Nat
      BY <1>1
    <3> QED BY <3>1, <3>2
  <2>3. /\ Len(r) = Len(c) + Len(b)
        /\ \A i \in 1 .. Len(c) : r[i] = c[i]
        /\ \A i \in 1 .. Len(c) + Len(b) : i > Len(c) => r[i] = b[i - Len(c)]
    BY <2>1, Joined
  <2> HIDE DEF c, v, r
  <2>4. ASSUME NEW i \in 1 .. Len(v) PROVE v[i] = r[i]
    <3>1. CASE i <= Len(c)
      <4>1. i + 1 \in 1 .. Len(a)
        BY <1>1, <2>1, <3>1
      <4> QED BY <1>1, <2>1, <2>2, <2>3, <3>1, <4>1
    <3>2. CASE i > Len(c)
      <4>1. (i + 1) - Len(a) = i - Len(c) /\ i + 1 > Len(a) /\ i + 1 \in 1 .. Len(a) + Len(b)
        BY <1>1, <2>1, <2>2, <3>2
      <4>2. q[i + 1] = b[(i + 1) - Len(a)] /\ r[i] = b[i - Len(c)]
        BY <1>1, <2>1, <2>2, <2>3, <3>2, <4>1
      <4> QED BY <2>2, <4>1, <4>2
    <3> QED BY <2>1, <3>1, <3>2
  <2>5. Len(v) = Len(r)
    BY <1>1, <2>1, <2>2, <2>3
  <2>6. \A s : Fits(s, v) => Fits(s, r)
    BY <2>4, <2>5, FitsSame
  <2>7. Head(q) = Head(a)
    BY <1>1, <2>1, <2>2
  <2> QED BY <2>2, <2>6, <2>7 DEF v, r, c
<1>4. ASSUME b # <<>>, NEW s, Fits(s, q) PROVE Fits(s, Append(a, Head(b)) \o Tail(b))
  <2> DEFINE c == Tail(b)
             d == Append(a, Head(b))
             r == d \o c
  <2>1. /\ c \in Seq(Frames) /\ Len(c) = Len(b) - 1 /\ Len(b) >= 1 /\ Head(b) = b[1] /\ Head(b) \in Frames
        /\ \A i \in 1 .. Len(c) : c[i] = b[i + 1]
    BY <1>4
  <2>2. /\ d \in Seq(Frames) /\ Len(d) = Len(a) + 1 /\ d[Len(a) + 1] = Head(b)
        /\ \A i \in 1 .. Len(a) : d[i] = a[i]
    BY <2>1
  <2>3. /\ Len(r) = Len(d) + Len(c)
        /\ \A i \in 1 .. Len(d) : r[i] = d[i]
        /\ \A i \in 1 .. Len(d) + Len(c) : i > Len(d) => r[i] = c[i - Len(d)]
    BY <2>1, <2>2, Joined
  <2> HIDE DEF c, d, r
  <2>4. ASSUME NEW i \in 1 .. Len(q) PROVE q[i] = r[i]
    <3>1. CASE i <= Len(a)
      BY <1>1, <2>1, <2>2, <2>3, <3>1
    <3>2. CASE i = Len(a) + 1
      <4>1. i - Len(a) = 1 /\ i \in 1 .. Len(d) /\ i > Len(a) /\ i \in 1 .. Len(a) + Len(b)
        BY <1>1, <2>1, <2>2, <3>2
      <4>2. q[i] = b[i - Len(a)] /\ r[i] = d[i]
        BY <1>1, <2>3, <4>1
      <4> QED BY <2>1, <2>2, <3>2, <4>1, <4>2
    <3>3. CASE i > Len(a) + 1
      <4>1. /\ i - Len(d) \in 1 .. Len(c) /\ (i - Len(d)) + 1 = i - Len(a)
            /\ i > Len(d) /\ i \in 1 .. Len(d) + Len(c)
        BY <1>1, <2>1, <2>2, <3>3
      <4>2. r[i] = c[i - Len(d)]
        BY <2>3, <4>1
      <4>3. c[i - Len(d)] = b[i - Len(a)]
        BY <2>1, <4>1
      <4>4. q[i] = b[i - Len(a)]
        <5>1. i > Len(a) /\ i \in 1 .. Len(a) + Len(b)
          BY <1>1, <3>3
        <5> QED BY <1>1, <5>1
      <4> QED BY <4>2, <4>3, <4>4
    <3> QED BY <1>1, <3>1, <3>2, <3>3
  <2>5. Len(q) = Len(r)
    BY <1>1, <2>1, <2>2, <2>3
  <2>6. Fits(s, r)
    BY <1>4, <2>4, <2>5, FitsSame
  <2> QED BY <2>6 DEF r, d, c
<1> QED BY <1>2, <1>3, <1>4 DEF q

LEMMA EchoKept ==
  ASSUME ClientTypes, Client!Next, Echoing PROVE Echoing'
<1> USE DEF Client!echoVars, Client!opVars
<1> SUFFICES ASSUME link' = "open", ~expired'
             PROVE  Fits(swallows', down' \o up') /\ \A v \in Texts : Balanced(v)'
  BY DEF Echoing
<1> DEFINE Goal == Fits(swallows', down' \o up') /\ \A v \in Texts : Balanced(v)'
           q == down \o up
<1>1. /\ up \in Seq(Frames) /\ down \in Seq(Frames) /\ swallows \in Seq(Texts)
      /\ shown \in [Texts -> Nat] /\ mine \in [Texts -> Nat] /\ theirs \in [Texts -> Nat]
  BY DEF ClientTypes
<1>2. link = "open" /\ ~expired => Fits(swallows, q) /\ \A v \in Texts : Balanced(v)
  BY DEF Echoing
<1>3. ASSUME NEW v \in Texts
      PROVE  /\ Gains(down, down, Client!User(v), 0) /\ Gains(up, up, Client!User(v), 0)
             /\ Gains(swallows, swallows, v, 0)
             /\ shown[v] \in Int /\ mine[v] \in Int /\ theirs[v] \in Int
  BY <1>1, GainsNone
<1>4. q \in Seq(Frames)
  BY <1>1, Joined
<1> HIDE DEF q
<1>5. ASSUME NEW t \in Texts, Client!EmitUserMessage(t) PROVE Goal
  <2>1. /\ link = "open" /\ ~expired /\ UNCHANGED <<down, theirs>>
        /\ shown' = [shown EXCEPT ![t] = @ + 1] /\ mine' = [mine EXCEPT ![t] = @ + 1]
        /\ up' = Append(up, Client!User(t)) /\ swallows' = Append(swallows, t)
    BY <1>5 DEF Client!EmitUserMessage, Client!Armed
  <2>2. Client!User(t) \in Frames
    BY FramesAre
  <2>3. Fits(swallows', down' \o up')
    <3>1. Fits(Append(swallows, t), Append(q, Client!User(t)))
      BY <1>1, <1>2, <1>4, <2>1, FitsMore
    <3> QED BY <1>1, <2>1, <2>2, <3>1, FitsQueues DEF q
  <2>4. ASSUME NEW v \in Texts PROVE Balanced(v)'
    <3> DEFINE n == Hits(t, v)
    <3>1. n \in Int /\ Hits(Client!User(t), Client!User(v)) = n /\ (t = v => n = 1) /\ (t # v => n = 0)
      BY UserHits DEF Hits
    <3>2. Gains(up, up', Client!User(v), n) /\ Gains(swallows, swallows', v, n)
      BY <1>1, <2>1, <2>2, <3>1, GainsOne
    <3> HIDE DEF n
    <3>3. shown'[v] = shown[v] + n /\ mine'[v] = mine[v] + n /\ theirs'[v] = theirs[v]
      BY <1>1, <2>1, <3>1
    <3>4. /\ shown'[v] - mine'[v] - theirs'[v] + 0 + n = shown[v] - mine[v] - theirs[v] + n
          /\ shown'[v] \in Int /\ mine'[v] \in Int /\ theirs'[v] \in Int
      BY <1>3, <3>1, <3>3
    <3>5. Gains(down, down', Client!User(v), 0)
      BY <1>3, <2>1
    <3> QED BY <1>2, <2>1, <3>1, <3>2, <3>4, <3>5, StaysBalanced
  <2> QED BY <2>3, <2>4
<1>6. ASSUME NEW t \in Texts, Client!Foreign(t) PROVE Goal
  <2>1. /\ link = "open" /\ ~expired /\ UNCHANGED <<up, shown, mine, swallows>>
        /\ theirs' = [theirs EXCEPT ![t] = @ + 1] /\ down' = Append(down, Client!User(t))
    BY <1>6 DEF Client!Foreign
  <2>2. Client!User(t) \in Frames
    BY FramesAre
  <2>3. Fits(swallows', down' \o up')
    BY <1>1, <1>2, <2>1, <2>2, FitsBetween DEF q
  <2>4. ASSUME NEW v \in Texts PROVE Balanced(v)'
    <3> DEFINE n == Hits(t, v)
    <3>1. n \in Int /\ Hits(Client!User(t), Client!User(v)) = n /\ (t = v => n = 1) /\ (t # v => n = 0)
      BY UserHits DEF Hits
    <3>2. Gains(down, down', Client!User(v), n)
      BY <1>1, <2>1, <2>2, <3>1, GainsOne
    <3> HIDE DEF n
    <3>3. shown'[v] = shown[v] /\ mine'[v] = mine[v] /\ theirs'[v] = theirs[v] + n
      BY <1>1, <2>1, <3>1
    <3>4. /\ shown'[v] - mine'[v] - theirs'[v] + n + 0 = shown[v] - mine[v] - theirs[v] + 0
          /\ shown'[v] \in Int /\ mine'[v] \in Int /\ theirs'[v] \in Int
      BY <1>3, <3>1, <3>3
    <3>5. Gains(up, up', Client!User(v), 0) /\ Gains(swallows, swallows', v, 0)
      BY <1>3, <2>1
    <3> QED BY <1>2, <2>1, <3>1, <3>2, <3>4, <3>5, StaysBalanced
  <2> QED BY <2>3, <2>4
<1>7. ASSUME Client!Receive PROVE Goal
  <2>1. link = "open" /\ down # <<>> /\ down' = Tail(down) /\ Head(down) \in Frames /\ UNCHANGED up
    BY <1>1, <1>7 DEF Client!Receive
  <2>2. UNCHANGED <<mine, theirs, expired>>
    BY <1>7 DEF Client!Receive, Client!ReceiveUser, Client!ReceiveFinished
  <2>3. Fits(swallows, q) /\ \A v \in Texts : Balanced(v)
    BY <1>2, <2>1, <2>2
  <2>4. /\ q # <<>> /\ Head(q) = Head(down)
        /\ \A s : Fits(s, Tail(q)) => Fits(s, down' \o up')
    BY <1>1, <2>1, FitsQueues DEF q
  <2>5. CASE Head(down).kind = "user"
    <3> DEFINE t == Head(down).what
    <3>1. t \in Texts /\ Head(down) = Client!User(t)
      BY <2>1, <2>5, FramesAre
    <3>2. Client!ReceiveUser(t)
      BY <1>7, <2>5 DEF Client!Receive
    <3> HIDE DEF t
    <3>3. ASSUME NEW v \in Texts
          PROVE  LET n == Hits(t, v)
                 IN  n \in Int /\ Gains(down, down', Client!User(v), 0 - n) /\ (t = v => n = 1) /\ (t # v => n = 0)
      <4> DEFINE n == Hits(t, v)
      <4>1. n \in Int /\ Hits(Client!User(t), Client!User(v)) = n /\ (t = v => n = 1) /\ (t # v => n = 0)
        BY <3>1, UserHits DEF Hits
      <4>2. Gains(down, down', Client!User(v), 0 - n)
        BY <1>1, <2>1, <3>1, <4>1, GainsLess
      <4> QED BY <4>1, <4>2
    <3>4. CASE Client!Swallows(t)
      <4>1. /\ swallows # <<>> /\ Head(swallows) = t /\ swallows' = Tail(swallows) /\ shown' = shown
        BY <3>2, <3>4 DEF Client!ReceiveUser, Client!Swallows
      <4>2. Fits(Tail(swallows), Tail(q))
        BY <1>1, <1>4, <2>3, <2>4, <4>1, FitsSwallowed
      <4>3. Fits(swallows', down' \o up')
        BY <2>4, <4>1, <4>2
      <4>4. ASSUME NEW v \in Texts PROVE Balanced(v)'
        <5> DEFINE n == Hits(t, v)
        <5>1. n \in Int /\ Gains(down, down', Client!User(v), 0 - n) /\ 0 - n \in Int
          BY <3>3
        <5>2. Gains(swallows, swallows', v, 0 - n)
          BY <1>1, <4>1, GainsLess
        <5> HIDE DEF n
        <5>3. shown'[v] = shown[v] /\ mine'[v] = mine[v] /\ theirs'[v] = theirs[v]
          BY <2>2, <4>1
        <5>4. /\ shown'[v] - mine'[v] - theirs'[v] + (0 - n) + 0 = shown[v] - mine[v] - theirs[v] + (0 - n)
              /\ shown'[v] \in Int /\ mine'[v] \in Int /\ theirs'[v] \in Int
          BY <1>3, <5>1, <5>3
        <5>5. Gains(up, up', Client!User(v), 0)
          BY <1>3, <2>1
        <5> QED BY <2>3, <5>1, <5>2, <5>4, <5>5, StaysBalanced
      <4> QED BY <4>3, <4>4
    <3>5. CASE ~Client!Swallows(t)
      <4>1. /\ swallows # <<>> => Head(swallows) # t
            /\ swallows' = swallows /\ shown' = [shown EXCEPT ![t] = @ + 1]
        BY <3>2, <3>5 DEF Client!ReceiveUser, Client!Swallows
      <4>2. swallows # <<>> => Head(q) # Client!User(Head(swallows))
        <5>1. swallows # <<>> => Head(swallows) \in Texts
          BY <1>1
        <5> QED BY <2>4, <3>1, <4>1, <5>1, FramesAre
      <4>3. Fits(swallows, Tail(q))
        BY <1>1, <1>4, <2>3, <2>4, <4>2, FitsPassed
      <4>4. Fits(swallows', down' \o up')
        BY <2>4, <4>1, <4>3
      <4>5. ASSUME NEW v \in Texts PROVE Balanced(v)'
        <5> DEFINE n == Hits(t, v)
        <5>1. n \in Int /\ Gains(down, down', Client!User(v), 0 - n) /\ 0 - n \in Int
              /\ (t = v => n = 1) /\ (t # v => n = 0)
          BY <3>3
        <5> HIDE DEF n
        <5>2. shown'[v] = shown[v] + n /\ mine'[v] = mine[v] /\ theirs'[v] = theirs[v]
          BY <1>1, <2>2, <4>1, <5>1
        <5>3. /\ shown'[v] - mine'[v] - theirs'[v] + (0 - n) + 0 = shown[v] - mine[v] - theirs[v] + 0
              /\ shown'[v] \in Int /\ mine'[v] \in Int /\ theirs'[v] \in Int
          BY <1>3, <5>1, <5>2
        <5>4. Gains(up, up', Client!User(v), 0) /\ Gains(swallows, swallows', v, 0)
          BY <1>3, <2>1, <4>1
        <5> QED BY <2>3, <5>1, <5>3, <5>4, StaysBalanced
      <4> QED BY <4>4, <4>5
    <3> QED BY <3>4, <3>5
  <2>6. CASE Head(down).kind # "user"
    <3>1. PICK o \in Ops : Head(down) = Client!Operation(o)
      BY <2>1, <2>6, FramesAre
    <3>2. UNCHANGED <<shown, swallows>>
      BY <1>7, <2>6 DEF Client!Receive, Client!ReceiveFinished
    <3>3. swallows # <<>> => Head(q) # Client!User(Head(swallows))
      <4>1. swallows # <<>> => Head(swallows) \in Texts
        BY <1>1
      <4> QED BY <2>4, <3>1, <4>1, FramesAre
    <3>4. Fits(swallows, Tail(q))
      BY <1>1, <1>4, <2>3, <2>4, <3>3, FitsPassed
    <3>5. Fits(swallows', down' \o up')
      BY <2>4, <3>2, <3>4
    <3>6. ASSUME NEW v \in Texts PROVE Balanced(v)'
      <4>1. Hits(Head(down), Client!User(v)) = 0
        BY <3>1, UserHits
      <4>2. Gains(down, down', Client!User(v), 0)
        <5>1. Gains(down, down', Client!User(v), 0 - Hits(Head(down), Client!User(v)))
          BY <1>1, <2>1, GainsLess
        <5>2. 0 - 0 = 0
          OBVIOUS
        <5> QED BY <4>1, <5>1, <5>2
      <4>3. /\ shown'[v] - mine'[v] - theirs'[v] + 0 + 0 = shown[v] - mine[v] - theirs[v] + 0
            /\ shown'[v] \in Int /\ mine'[v] \in Int /\ theirs'[v] \in Int
        BY <1>3, <2>2, <3>2
      <4>4. Gains(up, up', Client!User(v), 0) /\ Gains(swallows, swallows', v, 0)
        BY <1>3, <2>1, <3>2
      <4> QED BY <2>3, <4>2, <4>3, <4>4, StaysBalanced
    <3> QED BY <3>5, <3>6
  <2> QED BY <2>5, <2>6
<1>8. ASSUME Client!ServerReads PROVE Goal
  <2>1. /\ link = "open" /\ ~expired /\ UNCHANGED <<shown, mine, theirs, swallows>>
        /\ up # <<>> /\ up' = Tail(up) /\ Head(up) \in Frames
    BY <1>1, <1>8 DEF Client!ServerReads
  <2>2. ASSUME NEW v \in Texts
        PROVE  /\ Gains(up, up', Client!User(v), 0 - Hits(Head(up), Client!User(v)))
               /\ Gains(swallows, swallows', v, 0)
               /\ shown'[v] = shown[v] /\ mine'[v] = mine[v] /\ theirs'[v] = theirs[v]
    BY <1>1, <1>3, <2>1, GainsLess
  <2>3. CASE Head(up).kind = "user"
    <3>1. down' = Append(down, Head(up))
      BY <1>8, <2>3 DEF Client!ServerReads
    <3>2. Fits(swallows', down' \o up')
      BY <1>1, <1>2, <2>1, <3>1, FitsQueues DEF q
    <3>3. ASSUME NEW v \in Texts PROVE Balanced(v)'
      <4> DEFINE n == Hits(Head(up), Client!User(v))
      <4>1. n \in Int /\ 0 - n \in Int
        BY DEF Hits
      <4>2. Gains(down, down', Client!User(v), n) /\ Gains(up, up', Client!User(v), 0 - n)
        BY <1>1, <2>1, <2>2, <3>1, GainsOne
      <4> HIDE DEF n
      <4>3. /\ shown'[v] - mine'[v] - theirs'[v] + n + (0 - n) = shown[v] - mine[v] - theirs[v] + 0
            /\ shown'[v] \in Int /\ mine'[v] \in Int /\ theirs'[v] \in Int
        BY <1>3, <2>2, <4>1
      <4> QED BY <1>2, <2>1, <2>2, <4>1, <4>2, <4>3, StaysBalanced
    <3> QED BY <3>2, <3>3
  <2>4. CASE Head(up).kind # "user"
    <3>1. PICK o \in Ops : Head(up) = Client!Operation(o)
      BY <2>1, <2>4, FramesAre
    <3>2. UNCHANGED down
      BY <1>8, <2>4 DEF Client!ServerReads
    <3>3. Fits(swallows', down' \o up')
      BY <1>1, <1>2, <2>1, <2>4, <3>2, FitsWithout DEF q
    <3>4. ASSUME NEW v \in Texts PROVE Balanced(v)'
      <4>1. Hits(Head(up), Client!User(v)) = 0 /\ 0 - 0 = 0
        BY <3>1, UserHits
      <4>2. Gains(down, down', Client!User(v), 0) /\ Gains(up, up', Client!User(v), 0)
        BY <1>3, <2>2, <3>2, <4>1
      <4>3. /\ shown'[v] - mine'[v] - theirs'[v] + 0 + 0 = shown[v] - mine[v] - theirs[v] + 0
            /\ shown'[v] \in Int /\ mine'[v] \in Int /\ theirs'[v] \in Int
        BY <1>3, <2>2
      <4> QED BY <1>2, <2>1, <2>2, <4>2, <4>3, StaysBalanced
    <3> QED BY <3>3, <3>4
  <2> QED BY <2>3, <2>4
<1>9. ASSUME Client!Expire \/ Client!Reattach \/ Client!Lose PROVE Goal
  BY <1>9 DEF Client!Expire, Client!Reattach, Client!Lose
<1>10. ASSUME NEW o \in Ops, Client!Submit(o) PROVE Goal
  <2>1. /\ link = "open" /\ ~expired /\ UNCHANGED <<down, shown, mine, theirs, swallows>>
        /\ up' = Append(up, Client!Operation(o)) /\ Client!Operation(o) \in Frames
    BY <1>10, FramesAre DEF Client!Submit
  <2>2. Client!Operation(o).kind # "user"
    BY DEF Client!Operation
  <2>3. Fits(swallows', down' \o up')
    <3>1. Fits(swallows, Append(q, Client!Operation(o)))
      BY <1>1, <1>2, <1>4, <2>1, FitsLonger
    <3> QED BY <1>1, <2>1, <3>1, FitsQueues DEF q
  <2>4. ASSUME NEW v \in Texts PROVE Balanced(v)'
    <3>1. Gains(up, up', Client!User(v), 0)
      BY <1>1, <2>1, GainsOne, UserHits
    <3>2. /\ shown'[v] - mine'[v] - theirs'[v] + 0 + 0 = shown[v] - mine[v] - theirs[v] + 0
          /\ shown'[v] \in Int /\ mine'[v] \in Int /\ theirs'[v] \in Int
      BY <1>3, <2>1
    <3>3. Gains(down, down', Client!User(v), 0) /\ Gains(swallows, swallows', v, 0)
      BY <1>3, <2>1
    <3> QED BY <1>2, <2>1, <3>1, <3>2, <3>3, StaysBalanced
  <2> QED BY <2>3, <2>4
<1>11. ASSUME NEW o \in Ops, Client!ServerFinishes(o) PROVE Goal
  <2>1. /\ link = "open" /\ ~expired /\ UNCHANGED <<up, shown, mine, theirs, swallows>>
        /\ Client!Operation(o) \in Frames
        /\ down' = Append(down, Client!Operation(o)) \/ down' = down
    BY <1>11, FramesAre DEF Client!ServerFinishes
  <2>2. Fits(swallows', down' \o up')
    BY <1>1, <1>2, <2>1, FitsBetween DEF q
  <2>3. ASSUME NEW v \in Texts PROVE Balanced(v)'
    <3>1. Gains(down, Append(down, Client!Operation(o)), Client!User(v), 0)
      BY <1>1, <2>1, GainsOne, UserHits
    <3>2. Gains(down, down', Client!User(v), 0)
      BY <1>3, <2>1, <3>1
    <3>3. /\ shown'[v] - mine'[v] - theirs'[v] + 0 + 0 = shown[v] - mine[v] - theirs[v] + 0
          /\ shown'[v] \in Int /\ mine'[v] \in Int /\ theirs'[v] \in Int
      BY <1>3, <2>1
    <3>4. Gains(up, up', Client!User(v), 0) /\ Gains(swallows, swallows', v, 0)
      BY <1>3, <2>1
    <3> QED BY <1>2, <2>1, <3>2, <3>3, <3>4, StaysBalanced
  <2> QED BY <2>2, <2>3
<1>12. ASSUME NEW o \in Ops, Client!WaitFor(o) \/ Client!Woken(o) PROVE Goal
  <2>1. UNCHANGED <<link, up, down, shown, mine, theirs, swallows, expired>>
    BY <1>12 DEF Client!WaitFor, Client!Woken
  <2> QED BY <1>2, <2>1 DEF q, Balanced
<1> QED BY <1>5, <1>6, <1>7, <1>8, <1>9, <1>10, <1>11, <1>12 DEF Client!Next

LEMMA ClientStutters ==
  ASSUME UNCHANGED clientVars
  PROVE  /\ ClientTypes => ClientTypes'
         /\ \A o \in Ops : Told(o) /\ Waited(o) /\ Unread(o) => Told(o)' /\ Waited(o)' /\ Unread(o)'
         /\ Echoing => Echoing'
<1>1. ClientTypes => ClientTypes'
  BY DEF clientVars, ClientTypes
<1>2. ASSUME NEW o \in Ops, Told(o), Waited(o), Unread(o) PROVE Told(o)' /\ Waited(o)' /\ Unread(o)'
  BY <1>2 DEF clientVars, Told, Waited, Unread, OnWay, OnceOn
<1>3. Echoing => Echoing'
  BY DEF clientVars, Echoing, Balanced
<1> QED BY <1>1, <1>2, <1>3

(* SocketClient: however its echoes, the messages of others and the ends of  *)
(* its operations come, a client whose swallows none has outlived shows      *)
(* every message once when the wire is quiet; and a wait ends only with its  *)
(* operation or with the connection, and can always still be ended.  The     *)
(* terminal does not attach another session while it awaits an operation.    *)
THEOREM ClientStaysInStep ==
  ASSUME SwitchWhileWaiting = FALSE PROVE Spec => []ClientInStep
<1> DEFINE Steady == ClientTypes /\ Echoing /\ \A o \in Ops : Told(o) /\ Waited(o) /\ Unread(o)
           Inv == which = "client" => Steady
<1>1. Init => Inv
  BY ClientStarts, EchoStarts DEF Init
<1>2. Inv /\ [Next]_vars => Inv'
  <2>1. ASSUME Steady, Client!Next PROVE Steady'
    <3>1. ClientTypes' /\ Echoing'
      BY <2>1, ClientTyped, EchoKept
    <3>2. ASSUME NEW o \in Ops PROVE Told(o)' /\ Waited(o)' /\ Unread(o)'
      BY <2>1, ClientOps
    <3> QED BY <3>1, <3>2
  <2>2. ASSUME Inv, [Next]_vars, which = "client" PROVE Steady'
    <3>1. [Client!Next]_clientVars
      BY <2>2, AboutOne
    <3>2. ASSUME Steady, UNCHANGED clientVars PROVE Steady'
      BY <3>2, ClientStutters
    <3> QED BY <2>1, <2>2, <3>1, <3>2
  <2> QED BY <2>2, AboutOne
<1>3. Inv => ClientInStep
  <2> SUFFICES ASSUME Steady PROVE Client!EchoOnce /\ Client!WaitIsSound
    BY DEF ClientInStep
  <2>1. Client!EchoOnce
    <3> SUFFICES ASSUME link = "open", up = <<>>, down = <<>>, ~expired
                 PROVE  swallows = <<>> /\ \A t \in Texts : shown[t] = mine[t] + theirs[t]
      BY DEF Client!EchoOnce
    <3>1. /\ Fits(swallows, <<>> \o <<>>) /\ swallows \in Seq(Texts)
          /\ \A t \in Texts : Balanced(t) /\ shown[t] \in Int /\ mine[t] \in Int /\ theirs[t] \in Int
      BY DEF Echoing, ClientTypes
    <3>2. swallows = <<>>
      <4>1. Len(<<>> \o <<>>) = 0 /\ 1 .. 0 = {}
        OBVIOUS
      <4>2. 1 \notin 1 .. Len(swallows)
        BY <3>1, <4>1 DEF Fits
      <4> QED BY <3>1, <4>2
    <3>3. ASSUME NEW t \in Texts PROVE shown[t] = mine[t] + theirs[t]
      <4>1. PICK d \in Int, u \in Int, w \in Int :
              /\ Counted(down, Client!User(t), d) /\ Counted(up, Client!User(t), u) /\ Counted(swallows, t, w)
              /\ shown[t] + d + u = mine[t] + theirs[t] + w
        BY <3>1 DEF Balanced
      <4>2. d = 0 /\ u = 0 /\ w = 0
        BY <3>2, <4>1, CountNone
      <4> QED BY <3>1, <4>1, <4>2
    <3> QED BY <3>2, <3>3
  <2>2. Client!WaitIsSound
    <3> SUFFICES ASSUME NEW o \in Ops
                 PROVE  /\ op[o] = "returned" => server[o] = "over" \/ o \in cut
                        /\ op[o] = "waiting" /\ future[o] = "pending" =>
                             (server[o] = "runs" /\ o \notin cut) \/ OnWay(up, o) \/ OnWay(down, o)
      BY DEF Client!WaitIsSound, OnWay
    <3> QED BY DEF Waited
  <2> QED BY <2>1, <2>2
<1> QED BY <1>1, <1>2, <1>3, PTL DEF Spec

=============================================================================
