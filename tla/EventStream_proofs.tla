------------------------- MODULE EventStream_proofs -------------------------
(***************************************************************************)
(* Proofs about EventStream: its types, that an overflow loses only the     *)
(* oldest events, and that it implements EventFeed.                         *)
(***************************************************************************)
EXTENDS EventStream, SequenceTheorems, TLAPS

LEMMA AppendIs ==
  ASSUME NEW S, NEW s \in Seq(S), NEW x \in S
  PROVE  /\ Append(s, x) \in Seq(S)
         /\ Len(Append(s, x)) = Len(s) + 1
         /\ \A i \in 1..Len(s) : Append(s, x)[i] = s[i]
         /\ Append(s, x)[Len(s) + 1] = x
  OBVIOUS

LEMMA TailIs ==
  ASSUME NEW S, NEW s \in Seq(S), s # <<>>
  PROVE  /\ Tail(s) \in Seq(S)
         /\ Len(s) > 0 /\ Len(Tail(s)) = Len(s) - 1
         /\ \A i \in 1..(Len(s) - 1) : Tail(s)[i] = s[i + 1]
         /\ Head(s) = s[1] /\ Head(s) \in S
  OBVIOUS

LEMMA PutIs ==
  ASSUME NEW S, NEW q \in Seq(S), NEW n \in S, Len(q) <= QueueSize
  PROVE  Put(q, n) \in Seq(S) /\ Len(Put(q, n)) <= QueueSize
<1>1. Len(q) \in Nat /\ QueueSize \in Nat /\ QueueSize > 0
  BY EventStreamAssumption
<1>2. CASE Len(q) < QueueSize
  BY <1>1, <1>2, AppendIs DEF Put
<1>3. CASE ~(Len(q) < QueueSize)
  <2>1. q # <<>> /\ Put(q, n) = Append(Tail(q), n)
    BY <1>1, <1>3 DEF Put
  <2>2. Tail(q) \in Seq(S) /\ Len(Tail(q)) = Len(q) - 1
    BY <2>1, TailIs
  <2> QED
    BY <1>1, <2>1, <2>2, AppendIs
<1> QED
  BY <1>2, <1>3

-----------------------------------------------------------------------------
LEMMA TypeStep == TypeOK /\ [Next]_vars => TypeOK'
<1> SUFFICES ASSUME TypeOK, [Next]_vars PROVE TypeOK'
  OBVIOUS
<1> USE EventStreamAssumption DEF channel, endpoint, outgoing, history
<1>1. ASSUME NEW t \in Tenants, NEW type \in Types, Publish(t, type) PROVE TypeOK'
  <2> DEFINE event == [tenant |-> t, type |-> type]
  <2>1. /\ published' \in Seq([tenant : Tenants, type : Types])
        /\ Len(published') = Len(published) + 1 /\ Len(published') <= MaxEvents
    BY <1>1, AppendIs DEF Publish, TypeOK
  <2>2. Len(published) + 1 \in Positions
    BY <1>1 DEF Publish, TypeOK, Positions
  <2>3. inbox' \in Seq(Positions)
    BY <1>1, <2>2, AppendIs DEF Publish, TypeOK
  <2> QED
    BY <1>1, <2>1, <2>3 DEF Publish, TypeOK
<1>2. CASE Subscribe \/ Disconnect
  <2>1. CASE Subscribe
    BY <2>1 DEF Subscribe, TypeOK
  <2>2. CASE Disconnect
    <3>1. <<>> \in Seq(Positions)
      OBVIOUS
    <3> QED
      BY <2>2, <3>1 DEF Disconnect, TypeOK
  <2> QED
    BY <1>2, <2>1, <2>2
<1>3. CASE Forward
  <2>1. inbox' \in Seq(Positions) /\ Head(inbox) \in Positions
    BY <1>3, TailIs DEF Forward, TypeOK
  <2> DEFINE n == Head(inbox)
  <2>2. ASSUME NEW c \in Connections
        PROVE  /\ queue'[c] \in Seq(Positions) /\ Len(queue'[c]) <= QueueSize
               /\ matched'[c] \in Seq(Positions)
    <3>1. queue[c] \in Seq(Positions) /\ Len(queue[c]) <= QueueSize
      BY DEF TypeOK
    <3>2. Put(queue[c], n) \in Seq(Positions) /\ Len(Put(queue[c], n)) <= QueueSize
      BY <2>1, <3>1, PutIs
    <3>3. matched[c] \in Seq(Positions) /\ Append(matched[c], n) \in Seq(Positions)
      BY <2>1, AppendIs DEF TypeOK
    <3>4. /\ queue'[c] \in {queue[c], Put(queue[c], n)}
          /\ matched'[c] \in {matched[c], Append(matched[c], n)}
      BY <1>3 DEF Forward
    <3> QED
      BY <3>1, <3>2, <3>3, <3>4
  <2>3. /\ queue' = [c \in Connections |-> queue'[c]]
        /\ matched' = [c \in Connections |-> matched'[c]]
    BY <1>3 DEF Forward
  <2>4. /\ queue' \in [Connections -> Seq(Positions)]
        /\ matched' \in [Connections -> Seq(Positions)]
    BY <2>2, <2>3
  <2> QED
    BY <1>3, <2>1, <2>2, <2>4 DEF Forward, TypeOK
<1>4. ASSUME NEW c \in Connections, Connect(c) \/ Accept(c) \/ SendFails(c) \/ EndReceive(c)
      PROVE  TypeOK'
  <2>1. CASE Connect(c)
    BY <2>1 DEF Connect, TypeOK
  <2>2. CASE Accept(c)
    BY <2>2 DEF Accept, TypeOK
  <2>3. CASE SendFails(c)
    BY <2>3 DEF SendFails, TypeOK
  <2>4. CASE EndReceive(c)
    BY <2>4 DEF EndReceive, TypeOK
  <2> QED
    BY <1>4, <2>1, <2>2, <2>3, <2>4
<1>5. ASSUME NEW c \in Connections, AcceptFails(c) \/ Cleanup(c) PROVE TypeOK'
  <2>1. \A d \in Connections : queue'[d] \in {queue[d], <<>>}
    BY <1>5 DEF AcceptFails, Cleanup, Unregister, TypeOK
  <2>2. \A d \in Connections : queue'[d] \in Seq(Positions) /\ Len(queue'[d]) <= QueueSize
    <3>1. <<>> \in Seq(Positions) /\ Len(<<>>) = 0 /\ 0 <= QueueSize
      BY EventStreamAssumption
    <3>2. ASSUME NEW d \in Connections, queue'[d] = queue[d]
          PROVE  queue'[d] \in Seq(Positions) /\ Len(queue'[d]) <= QueueSize
      BY <3>2 DEF TypeOK
    <3>3. ASSUME NEW d \in Connections, queue'[d] = <<>>
          PROVE  queue'[d] \in Seq(Positions) /\ Len(queue'[d]) <= QueueSize
      BY <3>1, <3>3
    <3> QED
      BY <2>1, <3>2, <3>3
  <2> QED
    BY <1>5, <2>2 DEF AcceptFails, Cleanup, Unregister, TypeOK
<1>6. ASSUME NEW c \in Connections, Take(c) PROVE TypeOK'
  <2>1. /\ Tail(queue[c]) \in Seq(Positions) /\ Len(Tail(queue[c])) <= QueueSize
        /\ Head(queue[c]) \in 0..MaxEvents
    BY <1>6, TailIs DEF Take, TypeOK, Positions
  <2>2. \A d \in Connections : queue'[d] \in Seq(Positions) /\ Len(queue'[d]) <= QueueSize
    BY <1>6, <2>1 DEF Take, TypeOK
  <2> QED
    BY <1>6, <2>1, <2>2 DEF Take, TypeOK
<1>7. ASSUME NEW c \in Connections, Send(c) PROVE TypeOK'
  <2>1. sending[c] \in Positions
    BY <1>7 DEF Send, TypeOK, Positions
  <2>2. \A d \in Connections : received'[d] \in Seq(Positions)
    BY <1>7, <2>1, AppendIs DEF Send, TypeOK
  <2> QED
    BY <1>7, <2>2 DEF Send, TypeOK
<1>8. ASSUME NEW c \in Connections, NEW types \in SUBSET Types, SetEventFilter(c, types)
      PROVE  TypeOK'
  BY <1>8 DEF SetEventFilter, TypeOK
<1>9. CASE UNCHANGED vars
  BY <1>9 DEF vars, TypeOK
<1> QED
  BY <1>1, <1>2, <1>3, <1>4, <1>5, <1>6, <1>7, <1>8, <1>9 DEF Next, Serve, EndClosed

(* Every state has its type: queues never outgrow their size.               *)
THEOREM StreamTypeCorrect == Spec => []TypeOK
<1>1. Init => TypeOK
  <2>1. /\ <<>> \in Seq([tenant : Tenants, type : Types]) /\ <<>> \in Seq(Positions)
        /\ Len(<<>>) = 0
    OBVIOUS
  <2> SUFFICES ASSUME Init PROVE TypeOK
    OBVIOUS
  <2>2. listening \in BOOLEAN
    BY DEF Init
  <2> QED
    BY <2>1, <2>2, EventStreamAssumption DEF Init, TypeOK
<1> QED
  BY <1>1, TypeStep, PTL DEF Spec

-----------------------------------------------------------------------------
(* The queue is the end of what was put into it.                            *)
SuffixOf(q, m) ==
  /\ Len(q) <= Len(m)
  /\ \A i \in 1..Len(q) : q[i] = m[Len(m) - Len(q) + i]

LEMMA AppendSuffix ==
  ASSUME NEW S, NEW q \in Seq(S), NEW m \in Seq(S), NEW n \in S, SuffixOf(q, m)
  PROVE  SuffixOf(Append(q, n), Append(m, n))
<1> DEFINE p == Append(q, n)
           o == Append(m, n)
           a == Len(q)
           b == Len(m)
<1>1. a \in Nat /\ b \in Nat /\ a <= b /\ Len(p) = a + 1 /\ Len(o) = b + 1
  BY AppendIs DEF SuffixOf
<1>2. ASSUME NEW i \in 1..(a + 1), i <= a PROVE p[i] = o[b - a + i]
  <2>1. i \in 1..a /\ b - a + i \in 1..b
    BY <1>1, <1>2
  <2>2. p[i] = q[i] /\ o[b - a + i] = m[b - a + i]
    BY <2>1, AppendIs
  <2> QED
    BY <2>1, <2>2 DEF SuffixOf
<1>3. p[a + 1] = n /\ o[b + 1] = n
  BY AppendIs
<1>4. ASSUME NEW i \in 1..(a + 1) PROVE p[i] = o[(b + 1) - (a + 1) + i]
  <2>1. (b + 1) - (a + 1) + i = b - a + i
    BY <1>1
  <2>2. CASE i = a + 1
    <3>1. b - a + i = b + 1
      BY <1>1, <2>2
    <3> QED
      BY <1>3, <2>1, <2>2, <3>1
  <2>3. CASE i # a + 1
    BY <1>1, <1>2, <2>1, <2>3
  <2> QED
    BY <2>2, <2>3
<1>5. SuffixOf(p, o)
  <2> HIDE DEF p, o, a, b
  <2>1. Len(o) - Len(p) = (b + 1) - (a + 1) /\ Len(p) <= Len(o)
    BY <1>1
  <2>2. \A i \in 1..Len(p) : p[i] = o[Len(o) - Len(p) + i]
    BY <1>1, <1>4, <2>1
  <2> QED
    BY <2>1, <2>2 DEF SuffixOf
<1> QED
  BY <1>5

LEMMA TailSuffix ==
  ASSUME NEW S, NEW q \in Seq(S), NEW m \in Seq(S), q # <<>>, SuffixOf(q, m)
  PROVE  SuffixOf(Tail(q), m)
<1> DEFINE p == Tail(q)
           a == Len(q)
           b == Len(m)
<1>1. a \in Nat /\ b \in Nat /\ a <= b /\ a > 0 /\ Len(p) = a - 1
  BY TailIs DEF SuffixOf
<1>2. ASSUME NEW i \in 1..(a - 1) PROVE p[i] = m[b - (a - 1) + i]
  <2>1. i + 1 \in 1..a /\ b - a + (i + 1) = b - (a - 1) + i
    BY <1>1
  <2>2. p[i] = q[i + 1]
    BY TailIs
  <2>3. q[i + 1] = m[b - a + (i + 1)]
    BY <2>1 DEF SuffixOf
  <2> QED
    BY <2>1, <2>2, <2>3
<1>3. a - 1 <= b
  BY <1>1
<1> HIDE DEF p, a, b
<1> QED
  BY <1>1, <1>2, <1>3 DEF SuffixOf, p, b

LEMMA PutSuffix ==
  ASSUME NEW S, NEW q \in Seq(S), NEW m \in Seq(S), NEW n \in S, SuffixOf(q, m)
  PROVE  SuffixOf(Put(q, n), Append(m, n))
<1>1. CASE Len(q) < QueueSize
  BY <1>1, AppendSuffix DEF Put
<1>2. CASE ~(Len(q) < QueueSize)
  <2>1. q # <<>> /\ Put(q, n) = Append(Tail(q), n)
    BY <1>2, EventStreamAssumption DEF Put
  <2>2. Tail(q) \in Seq(S) /\ SuffixOf(Tail(q), m)
    BY <2>1, TailIs, TailSuffix
  <2> QED
    BY <2>1, <2>2, AppendSuffix
<1> QED
  BY <1>1, <1>2

NewestInv ==
  /\ \A c \in Connections : stage[c] # "closed" => SuffixOf(queue[c], matched[c])
  /\ \A c \in Connections : stage[c] = "closed" => queue[c] = <<>>

LEMMA NewestStep == TypeOK /\ NewestInv /\ [Next]_vars => NewestInv'
<1> SUFFICES ASSUME TypeOK, NewestInv, [Next]_vars PROVE NewestInv'
  OBVIOUS
<1> USE DEF channel, endpoint, outgoing, history
<1>1. CASE Forward
  <2> DEFINE n == Head(inbox)
  <2>1. n \in Positions
    BY <1>1, TailIs DEF Forward, TypeOK
  <2> SUFFICES ASSUME NEW c \in Connections
               PROVE  /\ stage'[c] # "closed" => SuffixOf(queue'[c], matched'[c])
                      /\ stage'[c] = "closed" => queue'[c] = <<>>
    BY DEF NewestInv
  <2>2. stage'[c] = stage[c]
    BY <1>1 DEF Forward
  <2>3. CASE ~Wants(c, n)
    BY <1>1, <2>2, <2>3 DEF Forward, NewestInv
  <2>4. CASE Wants(c, n)
    <3>1. stage[c] # "closed" /\ SuffixOf(queue[c], matched[c])
      BY <2>4 DEF Wants, Registered, NewestInv
    <3>2. queue'[c] = Put(queue[c], n) /\ matched'[c] = Append(matched[c], n)
      BY <1>1, <2>4 DEF Forward
    <3>3. queue[c] \in Seq(Positions) /\ matched[c] \in Seq(Positions)
      BY DEF TypeOK
    <3>4. SuffixOf(queue'[c], matched'[c])
      BY <2>1, <3>1, <3>2, <3>3, PutSuffix
    <3> QED
      BY <2>2, <3>1, <3>4
  <2> QED
    BY <2>3, <2>4
<1>2. ASSUME NEW c \in Connections, AcceptFails(c) \/ Cleanup(c) PROVE NewestInv'
  BY <1>2 DEF AcceptFails, Cleanup, Unregister, NewestInv, TypeOK
<1>3. ASSUME NEW c \in Connections, Take(c) PROVE NewestInv'
  <2>1. /\ queue'[c] = Tail(queue[c]) /\ UNCHANGED <<stage, matched>>
        /\ \A d \in Connections \ {c} : queue'[d] = queue[d]
        /\ queue[c] # <<>> /\ queue[c] \in Seq(Positions) /\ matched[c] \in Seq(Positions)
    BY <1>3 DEF Take, TypeOK
  <2>2. stage[c] # "closed" /\ SuffixOf(queue[c], matched[c])
    BY <2>1 DEF NewestInv
  <2>4. SuffixOf(Tail(queue[c]), matched[c])
    BY <2>1, <2>2, TailSuffix
  <2> QED
    BY <2>1, <2>2, <2>4 DEF NewestInv
<1>4. ASSUME NEW c \in Connections, \/ Connect(c) \/ Accept(c) \/ Send(c) \/ SendFails(c)
                                    \/ EndReceive(c)
      PROVE  NewestInv'
  <2>1. UNCHANGED <<queue, matched>>
    BY <1>4 DEF Connect, Accept, Send, SendFails, EndReceive
  <2>2. \A d \in Connections : stage'[d] = "closed" <=> stage[d] = "closed"
    BY <1>4 DEF Connect, Accept, Send, SendFails, EndReceive, TypeOK
  <2> QED
    BY <2>1, <2>2 DEF NewestInv
<1>5. CASE UNCHANGED <<stage, queue, matched>>
  BY <1>5 DEF NewestInv
<1> QED
  BY <1>1, <1>2, <1>3, <1>4, <1>5
  DEF Next, Serve, EndClosed, Publish, Subscribe, Disconnect, SetEventFilter, vars

(* An overflow loses the oldest event, never one in the middle.             *)
THEOREM OverflowLosesTheOldest == Spec => []QueueHoldsNewest
<1>1. Init => NewestInv
  <2>1. Len(<<>>) = 0
    OBVIOUS
  <2> QED
    BY <2>1 DEF Init, NewestInv, SuffixOf
<1>2. TypeOK /\ NewestInv => QueueHoldsNewest
  <2> SUFFICES ASSUME TypeOK, NewestInv, NEW c \in Connections, stage[c] # "closed"
               PROVE  /\ Len(queue[c]) <= Len(matched[c])
                      /\ queue[c] = SubSeq(matched[c], Len(matched[c]) - Len(queue[c]) + 1,
                                           Len(matched[c]))
    BY DEF QueueHoldsNewest
  <2> DEFINE q == queue[c]
             m == matched[c]
             tail == SubSeq(m, Len(m) - Len(q) + 1, Len(m))
  <2>1. q \in Seq(Positions) /\ m \in Seq(Positions) /\ SuffixOf(q, m)
    BY DEF TypeOK, NewestInv
  <2>2. Len(q) \in Nat /\ Len(m) \in Nat /\ Len(q) <= Len(m)
    BY <2>1 DEF SuffixOf
  <2>3. /\ tail \in Seq(Positions) /\ Len(tail) = Len(q)
        /\ \A i \in 1..Len(q) : tail[i] = m[Len(m) - Len(q) + i]
    <3> DEFINE a == Len(m) - Len(q) + 1
               b == Len(m)
    <3>1. /\ a \in Int /\ b \in Int /\ b - a + 1 = Len(q) /\ 1 <= a
          /\ a <= b \/ Len(q) = 0
      <4>1. ASSUME NEW x \in Nat, NEW y \in Nat, x <= y
            PROVE  /\ y - x + 1 \in Int /\ y - (y - x + 1) + 1 = x /\ 1 <= y - x + 1
                   /\ y - x + 1 <= y \/ x = 0
        BY <4>1
      <4> QED
        BY <2>2, <4>1
    <3>2. \A i \in a..b : m[i] \in Positions
      BY <2>1, <3>1
    <3> HIDE DEF a, b
    <3>3. /\ SubSeq(m, a, b) \in Seq(Positions)
          /\ Len(SubSeq(m, a, b)) = IF a <= b THEN b - a + 1 ELSE 0
          /\ \A i \in 1..(b - a + 1) : SubSeq(m, a, b)[i] = m[a + i - 1]
      BY <3>1, <3>2, SubSeqProperties
    <3>4. Len(SubSeq(m, a, b)) = Len(q)
      BY <2>2, <3>1, <3>3
    <3>5. \A i \in 1..Len(q) : a + i - 1 = Len(m) - Len(q) + i
      BY <2>2 DEF a
    <3>6. tail = SubSeq(m, a, b)
      BY DEF a, b
    <3> HIDE DEF tail
    <3>7. \A i \in 1..Len(q) : tail[i] = m[a + i - 1]
      BY <3>1, <3>3, <3>6
    <3>8. ASSUME NEW i \in 1..Len(q) PROVE tail[i] = m[Len(m) - Len(q) + i]
      BY <3>5, <3>7
    <3>9. tail \in Seq(Positions) /\ Len(tail) = Len(q)
      BY <3>3, <3>4, <3>6
    <3> QED
      BY <3>8, <3>9
  <2>4. q = tail
    <3> HIDE DEF tail
    <3> QED
      BY <2>1, <2>3, SeqEqual DEF SuffixOf
  <2> QED
    BY <2>2, <2>4
<1> QED
  BY <1>1, <1>2, NewestStep, StreamTypeCorrect, PTL DEF Spec

-----------------------------------------------------------------------------
(* What a connection is about to get: positions of its tenant's events that *)
(* grow from what it got over what is being sent and queued to what is on   *)
(* its way to the listener.                                                 *)
Grows(s) == \A i, j \in 1..Len(s) : i < j => s[i] < s[j]
Below(s, t) == \A i \in 1..Len(s), j \in 1..Len(t) : s[i] < t[j]
Known(s) == \A i \in 1..Len(s) : s[i] <= Len(published)

LineOf(c) ==
  /\ Grows(queue[c]) /\ Known(queue[c]) /\ Below(queue[c], inbox)
  /\ Known(received[c]) /\ Below(received[c], queue[c]) /\ Below(received[c], inbox)
  /\ sending[c] <= Len(published)
  /\ \A i \in 1..Len(inbox) : sending[c] < inbox[i]
  /\ \A i \in 1..Len(queue[c]) : sending[c] < queue[c][i]
  /\ sending[c] # 0 => \A i \in 1..Len(received[c]) : received[c][i] < sending[c]
  /\ \A i \in 1..Len(queue[c]) : published[queue[c][i]].tenant = TenantOf[c]
  /\ sending[c] # 0 => published[sending[c]].tenant = TenantOf[c]

LineInv ==
  /\ Grows(inbox) /\ Known(inbox)
  /\ \A c \in Connections : LineOf(c)

LEMMA TailGrows ==
  ASSUME NEW s \in Seq(Positions), s # <<>>, Grows(s)
  PROVE  /\ Grows(Tail(s)) /\ \A i \in 1..Len(Tail(s)) : Head(s) < Tail(s)[i]
         /\ \A i \in 1..Len(Tail(s)) : i + 1 \in 1..Len(s) /\ Tail(s)[i] = s[i + 1]
         /\ 1 \in 1..Len(s) /\ Head(s) = s[1]
<1>1. /\ Len(s) \in Nat /\ Len(s) > 0 /\ Len(Tail(s)) = Len(s) - 1 /\ Head(s) = s[1]
      /\ \A i \in 1..(Len(s) - 1) : Tail(s)[i] = s[i + 1]
  BY TailIs
<1> QED
  BY <1>1 DEF Grows

(* A queue after Put: what it had, but for its oldest, and the new one.     *)
LEMMA PutGrows ==
  ASSUME NEW q \in Seq(Positions), NEW n \in Positions,
         Grows(q), \A i \in 1..Len(q) : q[i] < n
  PROVE  /\ Grows(Put(q, n))
         /\ \A i \in 1..Len(Put(q, n)) :
              Put(q, n)[i] = n \/ \E j \in 1..Len(q) : Put(q, n)[i] = q[j]
<1>1. ASSUME NEW s \in Seq(Positions), Grows(s), \A i \in 1..Len(s) : s[i] < n
      PROVE  /\ Grows(Append(s, n))
             /\ \A i \in 1..Len(Append(s, n)) :
                  Append(s, n)[i] = n \/ \E j \in 1..Len(s) : Append(s, n)[i] = s[j]
  <2>1. /\ Len(s) \in Nat /\ Len(Append(s, n)) = Len(s) + 1
        /\ \A i \in 1..Len(s) : Append(s, n)[i] = s[i]
        /\ Append(s, n)[Len(s) + 1] = n
    BY AppendIs
  <2>2. \A i \in 1..(Len(s) + 1) : i \in 1..Len(s) \/ i = Len(s) + 1
    BY <2>1
  <2> QED
    BY <1>1, <2>1, <2>2 DEF Grows
<1>2. CASE Len(q) < QueueSize
  BY <1>1, <1>2 DEF Put
<1>3. CASE ~(Len(q) < QueueSize)
  <2>1. q # <<>> /\ Put(q, n) = Append(Tail(q), n)
    BY <1>3, EventStreamAssumption DEF Put
  <2>2. /\ Tail(q) \in Seq(Positions) /\ Grows(Tail(q))
        /\ \A i \in 1..Len(Tail(q)) : i + 1 \in 1..Len(q) /\ Tail(q)[i] = q[i + 1]
    BY <2>1, TailIs, TailGrows
  <2>3. \A i \in 1..Len(Tail(q)) : Tail(q)[i] < n
    BY <2>2
  <2>4. \A i \in 1..Len(Append(Tail(q), n)) :
          \/ Append(Tail(q), n)[i] = n
          \/ \E j \in 1..Len(Tail(q)) : Append(Tail(q), n)[i] = Tail(q)[j]
    BY <1>1, <2>2, <2>3
  <2>5. Grows(Append(Tail(q), n))
    BY <1>1, <2>2, <2>3
  <2>6. ASSUME NEW i \in 1..Len(Append(Tail(q), n)), Append(Tail(q), n)[i] # n
        PROVE  \E j \in 1..Len(q) : Append(Tail(q), n)[i] = q[j]
    BY <2>2, <2>4, <2>6
  <2> QED
    BY <2>1, <2>5, <2>6
<1> QED
  BY <1>2, <1>3

LEMMA Elements ==
  ASSUME NEW s \in Seq(Positions)
  PROVE  \A i \in 1..Len(s) : s[i] \in Nat /\ 1 <= s[i]
<1>1. \A i \in 1..Len(s) : s[i] \in Positions
  OBVIOUS
<1> QED
  BY <1>1, EventStreamAssumption DEF Positions

(* A connection whose own state stays as it is: what comes to the inbox is  *)
(* newer than everything known.                                             *)
LEMMA LineStays ==
  ASSUME TypeOK, TypeOK', LineInv, NEW c \in Connections,
         UNCHANGED <<queue[c], received[c], sending[c]>>,
         Len(published) <= Len(published'),
         \A k \in 1..Len(published) : published'[k] = published[k],
         \A i \in 1..Len(inbox') : \/ \E j \in 1..Len(inbox) : inbox'[i] = inbox[j]
                                   \/ inbox'[i] > Len(published)
  PROVE  LineOf(c)'
<1>1. /\ queue[c] \in Seq(Positions) /\ received[c] \in Seq(Positions)
      /\ sending[c] \in 0..MaxEvents /\ MaxEvents \in Nat /\ Len(published) \in Nat
      /\ Len(published') \in Nat /\ LineOf(c)
  BY EventStreamAssumption DEF TypeOK, LineInv
<1>2. /\ \A i \in 1..Len(queue[c]) : queue[c][i] \in 1..Len(published)
      /\ \A i \in 1..Len(received[c]) : received[c][i] \in 1..Len(published)
      /\ sending[c] \in 0..Len(published)
  <2>1. /\ \A i \in 1..Len(queue[c]) : queue[c][i] \in Nat /\ 1 <= queue[c][i]
        /\ \A i \in 1..Len(received[c]) : received[c][i] \in Nat /\ 1 <= received[c][i]
        /\ sending[c] \in Nat
    BY <1>1, Elements
  <2>2. Known(queue[c]) /\ Known(received[c]) /\ sending[c] <= Len(published)
    BY <1>1 DEF LineOf
  <2> QED
    BY <1>1, <2>1, <2>2 DEF Known
<1>3. Known(queue[c])' /\ Known(received[c])' /\ sending'[c] <= Len(published')
  BY <1>1, <1>2 DEF Known
<1>4. \A i \in 1..Len(inbox') : inbox'[i] \in Nat
  BY Elements DEF TypeOK
<1>5. Below(queue[c], inbox)' /\ Below(received[c], inbox)'
  <2>1. ASSUME NEW s \in Seq(Positions), Below(s, inbox),
               \A i \in 1..Len(s) : s[i] \in 1..Len(published)
        PROVE  \A i \in 1..Len(s), j \in 1..Len(inbox') : s[i] < inbox'[j]
    BY <1>1, <1>4, <2>1 DEF Below
  <2>2. Below(queue[c], inbox) /\ Below(received[c], inbox)
    BY <1>1 DEF LineOf
  <2> QED
    BY <1>1, <1>2, <2>1, <2>2 DEF Below
<1>6. \A i \in 1..Len(inbox') : sending'[c] < inbox'[i]
  BY <1>1, <1>2, <1>4 DEF LineOf
<1>7. /\ Grows(queue[c])' /\ Below(received[c], queue[c])'
      /\ \A i \in 1..Len(queue'[c]) : sending'[c] < queue'[c][i]
      /\ sending'[c] # 0 => \A i \in 1..Len(received'[c]) : received'[c][i] < sending'[c]
  BY <1>1 DEF LineOf, Grows, Below
<1>8. /\ \A i \in 1..Len(queue'[c]) : published'[queue'[c][i]].tenant = TenantOf[c]
      /\ sending'[c] # 0 => published'[sending'[c]].tenant = TenantOf[c]
  <2>1. \A i \in 1..Len(queue[c]) : published[queue[c][i]].tenant = TenantOf[c]
    BY <1>1 DEF LineOf
  <2>2. sending[c] # 0 => published[sending[c]].tenant = TenantOf[c]
    BY <1>1 DEF LineOf
  <2>3. \A i \in 1..Len(queue[c]) : published'[queue[c][i]] = published[queue[c][i]]
    BY <1>2
  <2>4. sending[c] # 0 => published'[sending[c]] = published[sending[c]]
    BY <1>1, <1>2
  <2> QED
    BY <2>1, <2>2, <2>3, <2>4
<1> QED
  BY <1>3, <1>5, <1>6, <1>7, <1>8 DEF LineOf

LEMMA LineStep == TypeOK /\ TypeOK' /\ LineInv /\ [Next]_vars => LineInv'
<1> SUFFICES ASSUME TypeOK, TypeOK', LineInv, [Next]_vars PROVE LineInv'
  OBVIOUS
<1> USE DEF channel, endpoint, outgoing, history
<1>0. /\ inbox \in Seq(Positions) /\ Len(published) \in Nat /\ MaxEvents \in Nat
      /\ \A c \in Connections : /\ queue[c] \in Seq(Positions) /\ received[c] \in Seq(Positions)
                                /\ sending[c] \in 0..MaxEvents /\ LineOf(c)
  BY EventStreamAssumption DEF TypeOK, LineInv
<1>1. ASSUME NEW t \in Tenants, NEW type \in Types, Publish(t, type) PROVE LineInv'
  <2>1. /\ Len(published') = Len(published) + 1
        /\ \A k \in 1..Len(published) : published'[k] = published[k]
    BY <1>1, AppendIs DEF Publish, TypeOK
  <2>2. \/ inbox' = inbox
        \/ /\ Len(inbox') = Len(inbox) + 1 /\ Len(inbox) \in Nat
           /\ \A i \in 1..Len(inbox) : inbox'[i] = inbox[i]
           /\ inbox'[Len(inbox) + 1] = Len(published) + 1
    <3>1. Len(published) + 1 \in Positions
      BY <1>0, <1>1 DEF Publish, Positions
    <3> QED
      BY <1>0, <1>1, <3>1, AppendIs DEF Publish
  <2>3. \A i \in 1..Len(inbox') : \/ i \in 1..Len(inbox) /\ inbox'[i] = inbox[i]
                                  \/ i = Len(inbox) + 1 /\ inbox'[i] = Len(published) + 1
    BY <2>2
  <2>4. \A i \in 1..Len(inbox) : inbox[i] \in 1..Len(published)
    <3>1. \A i \in 1..Len(inbox) : inbox[i] \in Nat /\ 1 <= inbox[i]
      BY <1>0, Elements
    <3> QED
      BY <1>0, <3>1 DEF LineInv, Known
  <2>5. Grows(inbox)' /\ Known(inbox)'
    <3>1. /\ Grows(inbox) /\ Len(inbox) \in Nat
          /\ \A i \in 1..Len(inbox) : inbox[i] <= Len(published)
      BY <1>0 DEF LineInv, Known
    <3>2. \A i \in 1..Len(inbox') : inbox'[i] <= Len(published')
      BY <1>0, <2>1, <2>3, <2>4
    <3>3. ASSUME NEW i \in 1..Len(inbox'), NEW j \in 1..Len(inbox'), i < j
          PROVE  inbox'[i] < inbox'[j]
      <4>1. i \in 1..Len(inbox) /\ inbox'[i] = inbox[i]
        BY <2>2, <2>3, <3>1, <3>3
      <4>2. CASE j \in 1..Len(inbox) /\ inbox'[j] = inbox[j]
        BY <3>1, <3>3, <4>1, <4>2 DEF Grows
      <4>3. CASE inbox'[j] = Len(published) + 1
        BY <1>0, <2>4, <4>1, <4>3
      <4> QED
        BY <2>3, <4>2, <4>3
    <3> QED
      BY <3>2, <3>3 DEF Grows, Known
  <2>6. ASSUME NEW c \in Connections PROVE LineOf(c)'
    <3>1. UNCHANGED <<queue[c], received[c], sending[c]>>
      BY <1>1 DEF Publish
    <3>2. \A i \in 1..Len(inbox') : \/ \E j \in 1..Len(inbox) : inbox'[i] = inbox[j]
                                    \/ inbox'[i] > Len(published)
      BY <1>0, <2>3
    <3>3. Len(published) <= Len(published')
      BY <1>0, <2>1
    <3> QED
      BY <2>1, <3>1, <3>2, <3>3, LineStays
  <2> QED
    BY <2>5, <2>6 DEF LineInv
<1>2. CASE Disconnect
  <2>1. inbox' = <<>> /\ Len(inbox') = 0
    BY <1>2 DEF Disconnect
  <2>2. UNCHANGED <<published, queue, received, sending>>
    BY <1>2 DEF Disconnect
  <2>3. \A c \in Connections : LineOf(c)'
    BY <1>0, <2>1, <2>2, LineStays
  <2> QED
    BY <2>1, <2>3 DEF LineInv, Grows, Known
<1>3. CASE Forward
  <2> DEFINE n == Head(inbox)
  <2>1. /\ inbox # <<>> /\ inbox' = Tail(inbox)
        /\ UNCHANGED <<published, sending, received>>
    BY <1>3 DEF Forward
  <2>2. /\ Grows(Tail(inbox)) /\ \A i \in 1..Len(Tail(inbox)) : n < Tail(inbox)[i]
        /\ \A i \in 1..Len(Tail(inbox)) : i + 1 \in 1..Len(inbox) /\ Tail(inbox)[i] = inbox[i + 1]
        /\ 1 \in 1..Len(inbox) /\ n = inbox[1]
    BY <1>0, <2>1, TailGrows DEF LineInv
  <2>3. n \in Positions /\ n \in 1..Len(published)
    BY <1>0, <2>1, <2>2 DEF LineInv, Known, Positions
  <2>4. Grows(inbox)' /\ Known(inbox)'
    BY <2>1, <2>2 DEF LineInv, Known, Grows
  <2>5. ASSUME NEW c \in Connections, ~Wants(c, n) PROVE LineOf(c)'
    <3>1. queue'[c] = queue[c]
      BY <1>3, <2>5 DEF Forward
    <3> QED
      BY <1>0, <2>1, <2>2, <3>1, LineStays
  <2>6. ASSUME NEW c \in Connections, Wants(c, n) PROVE LineOf(c)'
    <3> DEFINE q == queue[c]
               p == Put(q, n)
    <3>1. queue'[c] = p /\ published[n].tenant = TenantOf[c]
      BY <1>3, <2>6 DEF Forward, Wants
    <3>2. q \in Seq(Positions) /\ LineOf(c) /\ \A i \in 1..Len(q) : q[i] < n
      BY <1>0, <2>2 DEF LineOf, Below
    <3>3. /\ Grows(p)
          /\ \A i \in 1..Len(p) : p[i] = n \/ \E j \in 1..Len(q) : p[i] = q[j]
      BY <2>3, <3>2, PutGrows DEF LineOf
    <3>4. /\ \A i \in 1..Len(p) : p[i] <= Len(published)
          /\ \A i \in 1..Len(p) : published[p[i]].tenant = TenantOf[c]
      <4>1. n <= Len(published) /\ \A j \in 1..Len(q) : q[j] <= Len(published)
        BY <2>3, <3>2 DEF LineOf, Known
      <4>2. \A j \in 1..Len(q) : published[q[j]].tenant = TenantOf[c]
        BY <3>2 DEF LineOf
      <4> HIDE DEF p, q, n
      <4> QED
        BY <3>1, <3>3, <4>1, <4>2
    <3>5. \A i \in 1..Len(p), j \in 1..Len(Tail(inbox)) : p[i] < Tail(inbox)[j]
      BY <2>2, <3>2, <3>3 DEF LineOf, Below
    <3>6. /\ \A i \in 1..Len(received[c]), j \in 1..Len(p) : received[c][i] < p[j]
          /\ \A i \in 1..Len(p) : sending[c] < p[i]
      BY <2>2, <3>2, <3>3 DEF LineOf, Below
    <3>7. /\ \A i \in 1..Len(received[c]), j \in 1..Len(Tail(inbox)) :
               received[c][i] < Tail(inbox)[j]
          /\ \A j \in 1..Len(Tail(inbox)) : sending[c] < Tail(inbox)[j]
      BY <2>2, <3>2 DEF LineOf, Below
    <3> HIDE DEF p
    <3> QED
      BY <2>1, <3>1, <3>2, <3>3, <3>4, <3>5, <3>6, <3>7 DEF LineOf, Below, Known
  <2> QED
    BY <2>4, <2>5, <2>6 DEF LineInv
<1>4. ASSUME NEW c \in Connections, UNCHANGED <<published, inbox>>, LineOf(c)',
             \A d \in Connections \ {c} : UNCHANGED <<queue[d], received[d], sending[d]>>
      PROVE  LineInv'
  <2>1. \A d \in Connections \ {c} : LineOf(d)'
    BY <1>0, <1>4, LineStays
  <2> QED
    BY <1>4, <2>1 DEF LineInv, Grows, Known
<1>5. ASSUME NEW c \in Connections, AcceptFails(c) \/ Cleanup(c) PROVE LineInv'
  <2>1. /\ queue'[c] = <<>> /\ Len(queue'[c]) = 0
        /\ \A d \in Connections \ {c} : queue'[d] = queue[d]
        /\ UNCHANGED <<published, inbox, received, sending>>
    BY <1>5 DEF AcceptFails, Cleanup, Unregister, TypeOK
  <2>2. /\ Grows(queue[c])' /\ Known(queue[c])' /\ Below(queue[c], inbox)'
        /\ Below(received[c], queue[c])'
        /\ \A i \in 1..Len(queue'[c]) : /\ sending'[c] < queue'[c][i]
                                       /\ published'[queue'[c][i]].tenant = TenantOf[c]
    BY <2>1 DEF Grows, Known, Below
  <2>3. LineOf(c)
    BY <1>0
  <2>4. LineOf(c)'
    BY <2>1, <2>2, <2>3 DEF LineOf, Known, Below
  <2> QED
    BY <1>4, <2>1, <2>4
<1>6. ASSUME NEW c \in Connections, Take(c) PROVE LineInv'
  <2> DEFINE q == queue[c]
  <2>1. /\ sending[c] = 0 /\ q # <<>>
        /\ sending'[c] = Head(q) /\ queue'[c] = Tail(q)
        /\ \A d \in Connections \ {c} : queue'[d] = queue[d] /\ sending'[d] = sending[d]
        /\ UNCHANGED <<published, inbox, received>>
    BY <1>6 DEF Take, TypeOK
  <2>2. /\ Grows(Tail(q)) /\ \A i \in 1..Len(Tail(q)) : Head(q) < Tail(q)[i]
        /\ \A i \in 1..Len(Tail(q)) : i + 1 \in 1..Len(q) /\ Tail(q)[i] = q[i + 1]
        /\ 1 \in 1..Len(q) /\ Head(q) = q[1]
    BY <1>0, <2>1, TailGrows DEF LineOf
  <2>3. LineOf(c)'
    <3>1. LineOf(c)
      BY <1>0
    <3>2. /\ Known(Tail(q)) /\ Below(Tail(q), inbox) /\ Below(received[c], Tail(q))
          /\ \A i \in 1..Len(Tail(q)) : published[Tail(q)[i]].tenant = TenantOf[c]
      BY <2>2, <3>1 DEF LineOf, Known, Below
    <3>3. /\ Head(q) <= Len(published) /\ \A i \in 1..Len(inbox) : Head(q) < inbox[i]
          /\ \A i \in 1..Len(received[c]) : received[c][i] < Head(q)
          /\ published[Head(q)].tenant = TenantOf[c]
      BY <2>2, <3>1 DEF LineOf, Known, Below
    <3> QED
      BY <2>1, <2>2, <3>1, <3>2, <3>3 DEF LineOf, Known, Below, Grows
  <2> QED
    BY <1>4, <2>1, <2>3
<1>7. ASSUME NEW c \in Connections, Send(c) PROVE LineInv'
  <2> DEFINE r == received[c]
  <2>1. /\ sending[c] # 0 /\ sending'[c] = 0 /\ received'[c] = Append(r, sending[c])
        /\ \A d \in Connections \ {c} : received'[d] = received[d] /\ sending'[d] = sending[d]
        /\ UNCHANGED <<published, inbox, queue>>
    BY <1>7 DEF Send, TypeOK
  <2>2. /\ Len(r) \in Nat /\ Len(Append(r, sending[c])) = Len(r) + 1
        /\ \A i \in 1..Len(r) : Append(r, sending[c])[i] = r[i]
        /\ Append(r, sending[c])[Len(r) + 1] = sending[c]
    <3>1. sending[c] \in Positions /\ r \in Seq(Positions)
      BY <1>0, <2>1 DEF Positions
    <3> QED
      BY <3>1, AppendIs
  <2>3. \A i \in 1..Len(received'[c]) :
          \/ i \in 1..Len(r) /\ received'[c][i] = r[i]
          \/ received'[c][i] = sending[c]
    BY <2>1, <2>2
  <2>4. LineOf(c)'
    <3>1. LineOf(c)
      BY <1>0
    <3>2. Known(received[c])' /\ Below(received[c], queue[c])' /\ Below(received[c], inbox)'
      BY <2>1, <2>3, <3>1 DEF LineOf, Known, Below
    <3>3. /\ \A i \in 1..Len(inbox') : sending'[c] < inbox'[i]
          /\ \A i \in 1..Len(queue'[c]) : sending'[c] < queue'[c][i]
      <4>1. /\ \A i \in 1..Len(inbox) : inbox[i] \in Nat /\ 1 <= inbox[i]
            /\ \A i \in 1..Len(queue[c]) : queue[c][i] \in Nat /\ 1 <= queue[c][i]
        BY <1>0, Elements
      <4> QED
        BY <2>1, <4>1
    <3> QED
      BY <1>0, <2>1, <3>1, <3>2, <3>3 DEF LineOf, Known, Below, Grows
  <2> QED
    BY <1>4, <2>1, <2>4
<1>8. ASSUME NEW c \in Connections, SendFails(c) \/ EndReceive(c) PROVE LineInv'
  <2>1. /\ sending'[c] = 0
        /\ \A d \in Connections \ {c} : sending'[d] = sending[d]
        /\ UNCHANGED <<published, inbox, queue, received>>
    BY <1>8 DEF SendFails, EndReceive, TypeOK
  <2>2. LineOf(c)'
    <3>1. /\ \A i \in 1..Len(inbox') : sending'[c] < inbox'[i]
          /\ \A i \in 1..Len(queue'[c]) : sending'[c] < queue'[c][i]
      <4>1. /\ \A i \in 1..Len(inbox) : inbox[i] \in Nat /\ 1 <= inbox[i]
            /\ \A i \in 1..Len(queue[c]) : queue[c][i] \in Nat /\ 1 <= queue[c][i]
        BY <1>0, Elements
      <4> QED
        BY <2>1, <4>1
    <3>2. LineOf(c)
      BY <1>0
    <3>3. /\ Grows(queue[c])' /\ Known(queue[c])' /\ Below(queue[c], inbox)'
          /\ Known(received[c])' /\ Below(received[c], queue[c])'
          /\ Below(received[c], inbox)'
      BY <2>1, <3>2 DEF LineOf, Known, Below, Grows
    <3>4. sending'[c] <= Len(published')
      BY <2>1 DEF TypeOK
    <3>5. \A i \in 1..Len(queue'[c]) : published'[queue'[c][i]].tenant = TenantOf[c]
      BY <2>1, <3>2 DEF LineOf
    <3> QED
      BY <2>1, <3>1, <3>3, <3>4, <3>5 DEF LineOf
  <2> QED
    BY <1>4, <2>1, <2>2
<1>9. CASE UNCHANGED <<published, inbox, queue, sending, received>>
  <2>1. \A c \in Connections : LineOf(c)'
    BY <1>0, <1>9, LineStays
  <2> QED
    BY <1>9, <2>1 DEF LineInv, Grows, Known
<1> QED
  BY <1>1, <1>2, <1>3, <1>5, <1>6, <1>7, <1>8, <1>9
  DEF Next, Serve, EndClosed, Subscribe, Connect, Accept, SetEventFilter, vars

(* What a connection gets are its tenant's events, in their order and once  *)
(* each: the stream implements the feed.                                    *)
THEOREM StreamIsAFeed == Spec => ImplementsFeed
<1>1. Init => LineInv
  BY DEF Init, LineInv, LineOf, Grows, Known, Below
<1>2. Init => Feed!Init
  BY DEF Init, Feed!Init
<1>3. TypeOK /\ LineInv /\ [Next]_vars => [Feed!Next]_(Feed!vars)
  <2> SUFFICES ASSUME TypeOK, LineInv, [Next]_vars
               PROVE  Feed!Next \/ UNCHANGED <<published, received>>
    BY DEF Feed!vars
  <2> USE DEF channel, endpoint, outgoing, history
  <2>1. ASSUME NEW t \in Tenants, NEW type \in Types, Publish(t, type) PROVE Feed!Next
    BY <2>1 DEF Publish, Feed!Next, Feed!Publish
  <2>2. ASSUME NEW c \in Connections, Send(c) PROVE Feed!Next
    <3>1. /\ sending[c] # 0 /\ LineOf(c) /\ sending[c] \in 0..MaxEvents /\ MaxEvents \in Nat
          /\ received[c] \in Seq(Positions)
          /\ published \in Seq([tenant : Tenants, type : Types])
      BY <2>2, EventStreamAssumption DEF Send, TypeOK, LineInv
    <3>2. sending[c] \in DOMAIN published
      <4>1. sending[c] \in 1..Len(published) /\ DOMAIN published = 1..Len(published)
        BY <3>1 DEF LineOf
      <4> QED
        BY <4>1
    <3>3. Feed!Receive(c, sending[c])
      <4>1. /\ published[sending[c]].tenant = TenantOf[c]
            /\ \A i \in 1..Len(received[c]) : received[c][i] < sending[c]
        BY <3>1 DEF LineOf
      <4>2. DOMAIN received[c] = 1..Len(received[c])
        BY <3>1
      <4>3. received' = [received EXCEPT ![c] = Append(@, sending[c])] /\ UNCHANGED published
        BY <2>2 DEF Send
      <4> QED
        BY <4>1, <4>2, <4>3 DEF Feed!Receive
    <3> QED
      BY <3>2, <3>3 DEF Feed!Next
  <2> QED
    BY <2>1, <2>2
    DEF Next, Serve, EndClosed, Subscribe, Disconnect, Forward, Connect, Accept, AcceptFails,
        Cleanup, Take, SendFails, EndReceive, SetEventFilter, vars
<1> QED
  BY <1>1, <1>2, <1>3, LineStep, StreamTypeCorrect, PTL DEF Spec, ImplementsFeed, Feed!Spec
=============================================================================
