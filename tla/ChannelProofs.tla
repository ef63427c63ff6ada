---------------------------- MODULE ChannelProofs ---------------------------
(***************************************************************************)
(* Proofs about Channel, for any number of subscribers, topics, messages   *)
(* and operations, and each of the three kinds of channel: the registry    *)
(* and the mailboxes keep their types, and each operation acts as a whole  *)
(* at the moment it is taken from the mailbox.                             *)
(*                                                                         *)
(* The argument counts.  A registration is an entry of a Vec and a debt an *)
(* entry of the references a publication still goes to; each operation on  *)
(* these sequences adds up what is counted in its parts.                   *)
(***************************************************************************)
EXTENDS Channel, InductionProofs, SequenceTheorems, FiniteSetTheorems

One(b) == IF b THEN 1 ELSE 0

-----------------------------------------------------------------------------
(* Counting                                                                *)

(* The entries counted are finitely many, in a Vec of any length.          *)
LEMMA CountFinite ==
  ASSUME NEW S, NEW q \in Seq(S), NEW s
  PROVE  /\ IsFiniteSet({i \in DOMAIN q : q[i] = s})
         /\ Count(q, s) \in Nat
<1>1. Len(q) \in Nat /\ DOMAIN q = 1..Len(q)
  BY LenProperties
<1>2. IsFiniteSet(1..Len(q))
  BY <1>1, FS_Interval
<1>3. {i \in DOMAIN q : q[i] = s} \in SUBSET (1..Len(q))
  BY <1>1
<1>4. IsFiniteSet({i \in DOMAIN q : q[i] = s})
  BY <1>2, <1>3, FS_Subset
<1> QED
  BY <1>4, FS_CardinalityType DEF Count

(* Nothing is counted in an empty Vec.                                     *)
LEMMA CountEmpty ==
  ASSUME NEW s
  PROVE  Count(<<>>, s) = 0
<1>1. {i \in DOMAIN <<>> : <<>>[i] = s} = {}
  OBVIOUS
<1> QED
  BY <1>1, FS_EmptySet DEF Count

(* A single entry counts for its own actor only.                           *)
LEMMA CountSingle ==
  ASSUME NEW e, NEW s
  PROVE  Count(<<e>>, s) = One(e = s)
<1>1. CASE e = s
  <2>1. {i \in DOMAIN <<e>> : <<e>>[i] = s} = {1}
    BY <1>1
  <2> QED
    BY <1>1, <2>1, FS_Singleton DEF Count, One
<1>2. CASE e # s
  <2>1. {i \in DOMAIN <<e>> : <<e>>[i] = s} = {}
    BY <1>2
  <2> QED
    BY <1>2, <2>1, FS_EmptySet DEF Count, One
<1> QED
  BY <1>1, <1>2

(* Entries of two Vecs told one after the other add up (the two loops of   *)
(* recv for Publish).                                                      *)
LEMMA CountConcat ==
  ASSUME NEW S, NEW p \in Seq(S), NEW q \in Seq(S), NEW s
  PROVE  Count(p \o q, s) = Count(p, s) + Count(q, s)
<1> DEFINE P == {i \in DOMAIN p : p[i] = s}
           Q == {i \in DOMAIN q : q[i] = s}
           R == {i \in DOMAIN (p \o q) : (p \o q)[i] = s}
           K == {i \in R : i > Len(p)}
           f == [i \in Q |-> Len(p) + i]
<1>1. /\ Len(p) \in Nat /\ DOMAIN p = 1..Len(p)
      /\ Len(q) \in Nat /\ DOMAIN q = 1..Len(q)
  BY LenProperties
<1>2. /\ p \o q \in Seq(S)
      /\ Len(p \o q) = Len(p) + Len(q)
      /\ \A i \in 1..Len(p) + Len(q) :
            (p \o q)[i] = IF i <= Len(p) THEN p[i] ELSE q[i - Len(p)]
  BY ConcatProperties
<1>3. DOMAIN (p \o q) = 1..(Len(p) + Len(q))
  BY <1>2, LenProperties
<1>4. R = P \cup K /\ P \cap K = {}
  BY <1>1, <1>2, <1>3
<1>5. f \in Bijection(Q, K)
  <2>1. f \in [Q -> K]
    BY <1>1, <1>2, <1>3
  <2>2. \A a, b \in Q : f[a] = f[b] => a = b
    BY <1>1
  <2>3. \A k \in K : \E a \in Q : f[a] = k
    <3>1. TAKE k \in K
    <3>2. k - Len(p) \in Q
      BY <1>1, <1>2, <1>3
    <3>3. f[k - Len(p)] = k
      BY <1>1, <1>3, <3>2
    <3> QED
      BY <3>2, <3>3
  <2> HIDE DEF P, Q, R, K, f
  <2> QED
    BY <2>1, <2>2, <2>3, Zenon DEF Bijection, Injection, Surjection, IsInjective
<1>6. IsFiniteSet(P) /\ IsFiniteSet(Q) /\ Cardinality(P) \in Nat /\ Cardinality(Q) \in Nat
  BY CountFinite DEF Count
<1> HIDE DEF f, K
<1>7. ExistsBijection(Q, K)
  BY <1>5 DEF ExistsBijection
<1>8. IsFiniteSet(K) /\ Cardinality(K) = Cardinality(Q)
  BY <1>6, <1>7, FS_Bijection
<1>9. Cardinality(R) = Cardinality(P) + Cardinality(K) - Cardinality({})
  BY <1>4, <1>6, <1>8, FS_Union
<1>10. Cardinality(R) = Cardinality(P) + Cardinality(Q)
  <2> HIDE DEF P, Q, R
  <2>1. Cardinality({}) = 0
    BY FS_EmptySet
  <2> QED
    BY <1>6, <1>8, <1>9, <2>1
<1> QED
  BY <1>10, Zenon DEF Count

(* push adds one entry, of the actor that subscribes.                      *)
LEMMA CountAppend ==
  ASSUME NEW S, NEW q \in Seq(S), NEW e \in S, NEW s
  PROVE  Count(Append(q, e), s) = Count(q, s) + One(e = s)
<1>1. Append(q, e) = q \o <<e>> /\ <<e>> \in Seq(S)
  BY AppendIsConcat
<1>2. Count(q \o <<e>>, s) = Count(q, s) + Count(<<e>>, s)
  BY <1>1, CountConcat
<1> QED
  BY <1>1, <1>2, CountSingle

(* A Vec is its first entry and the rest.                                  *)
LEMMA CountTail ==
  ASSUME NEW S, NEW q \in Seq(S), q # <<>>, NEW s
  PROVE  Count(q, s) = One(Head(q) = s) + Count(Tail(q), s)
<1>1. /\ Head(q) \in S /\ Tail(q) \in Seq(S)
      /\ <<Head(q)>> \in Seq(S)
  BY HeadTailProperties
<1>2. q = <<Head(q)>> \o Tail(q)
  BY <1>1
<1>3. Count(<<Head(q)>> \o Tail(q), s) = Count(<<Head(q)>>, s) + Count(Tail(q), s)
  BY <1>1, CountConcat
<1>4. Count(q, s) = Count(<<Head(q)>>, s) + Count(Tail(q), s)
  BY <1>2, <1>3, Zenon
<1>5. Count(<<Head(q)>>, s) = One(Head(q) = s)
  BY CountSingle
<1> QED
  BY <1>4, <1>5, Zenon

(* One entry taken out of a Vec, wherever it is.                           *)
LEMMA CountRemoveAt ==
  ASSUME NEW S, NEW q \in Seq(S), NEW i \in 1..Len(q), NEW s
  PROVE  /\ RemoveAt(q, i) \in Seq(S)
         /\ Count(q, s) = Count(RemoveAt(q, i), s) + One(q[i] = s)
<1> DEFINE p == SubSeq(q, 1, i - 1)
           r == SubSeq(q, i + 1, Len(q))
<1>1. Len(q) \in Nat /\ q[i] \in S /\ \A j \in 1..Len(q) : q[j] \in S
  BY LenProperties, ElementOfSeq
<1>2. p \in Seq(S)
  <2>1. \A j \in 1..(i - 1) : q[j] \in S
    BY <1>1
  <2> QED
    BY <2>1, SubSeqProperties
<1>3. r \in Seq(S)
  <2>1. \A j \in (i + 1)..Len(q) : q[j] \in S
    BY <1>1
  <2> QED
    BY <1>1, <2>1, SubSeqProperties
<1>4. q = p \o (<<q[i]>> \o r)
  <2>1. SubSeq(q, i, Len(q)) = <<q[i]>> \o r
    BY <1>1, SubSeqRecursiveFirst
  <2>2. p \o SubSeq(q, (i - 1) + 1, Len(q)) = SubSeq(q, 1, Len(q))
    <3>1. 1 \in 1..(Len(q) + 1) /\ i - 1 \in (1 - 1)..Len(q) /\ Len(q) \in (i - 1)..Len(q)
      BY <1>1
    <3> QED
      BY <3>1, ConcatAdjacentSubSeq, Zenon
  <2>3. (i - 1) + 1 = i
    OBVIOUS
  <2>4. SubSeq(q, 1, Len(q)) = q
    BY SubSeqFull
  <2> HIDE DEF p, r
  <2> QED
    BY <2>1, <2>2, <2>3, <2>4
<1>5. RemoveAt(q, i) = p \o r
  BY DEF RemoveAt
<1> HIDE DEF p, r
<1>6. <<q[i]>> \in Seq(S) /\ <<q[i]>> \o r \in Seq(S) /\ p \o r \in Seq(S)
  BY <1>1, <1>2, <1>3, ConcatProperties
<1>7. Count(p \o (<<q[i]>> \o r), s) = Count(p, s) + Count(<<q[i]>> \o r, s)
  BY <1>2, <1>6, CountConcat
<1>8. Count(<<q[i]>> \o r, s) = Count(<<q[i]>>, s) + Count(r, s)
  BY <1>3, <1>6, CountConcat
<1>9. Count(p \o r, s) = Count(p, s) + Count(r, s)
  BY <1>2, <1>3, CountConcat
<1>10. Count(p, s) \in Nat /\ Count(r, s) \in Nat
  BY <1>2, <1>3, CountFinite
<1>11. Count(<<q[i]>>, s) = One(q[i] = s) /\ One(q[i] = s) \in Nat
  BY CountSingle DEF One
<1>12. Count(q, s) = Count(RemoveAt(q, i), s) + One(q[i] = s)
  <2>1. Count(q, s) = Count(p, s) + Count(<<q[i]>> \o r, s)
    BY <1>4, <1>7, Zenon
  <2>2. Count(q, s) = Count(p, s) + (One(q[i] = s) + Count(r, s))
    BY <2>1, <1>8, <1>11, Zenon
  <2>3. Count(RemoveAt(q, i), s) = Count(p, s) + Count(r, s)
    BY <1>5, <1>9, Zenon
  <2> QED
    BY <2>2, <2>3, <1>10, <1>11
<1> QED
  BY <1>5, <1>6, <1>12

(* unsubscribe takes one entry of the actor's path, if there is one, and   *)
(* none of another path.                                                   *)
LEMMA CountUnsubscribe ==
  ASSUME NEW S, NEW q \in Seq(S), NEW a
  PROVE  /\ unsubscribe(q, a) \in Seq(S)
         /\ \A s : /\ Count(unsubscribe(q, a), s) <= Count(q, s)
                   /\ ~SamePath(s, a) => Count(unsubscribe(q, a), s) = Count(q, s)
         /\ \A b : SamePath(b, a) /\ Count(q, b) > 0 =>
               \E s \in S : SamePath(s, a) /\ Count(unsubscribe(q, a), s) < Count(q, s)
<1> DEFINE I == {i \in 1..Len(q) : SamePath(q[i], a)}
<1>1. Len(q) \in Nat /\ DOMAIN q = 1..Len(q)
  BY LenProperties
<1>a. \A s : Count(q, s) \in Nat
  BY CountFinite
<1>2. CASE I = {}
  <2>1. unsubscribe(q, a) = q
    BY <1>2 DEF unsubscribe, RemoveFirstMatch
  <2>2. ASSUME NEW b, SamePath(b, a) PROVE Count(q, b) = 0
    <3>1. {i \in DOMAIN q : q[i] = b} = {}
      BY <1>1, <1>2, <2>2
    <3> QED
      BY <3>1, FS_EmptySet DEF Count
  <2> QED
    BY <1>a, <2>1, <2>2
<1>3. CASE I # {}
  <2>1. \E x \in I : \A y \in I : x <= y
    <3>1. I \subseteq Nat
      OBVIOUS
    <3> HIDE DEF I
    <3> QED
      BY <1>3, <3>1, LeastNat
  <2>2. Min(I) \in I
    BY <2>1, Zenon DEF Min
  <2>3. PICK i \in I : unsubscribe(q, a) = RemoveAt(q, i)
    <3>1. unsubscribe(q, a) = RemoveAt(q, Min(I))
      BY <1>3 DEF unsubscribe, RemoveFirstMatch, SelectInSeq
    <3> QED
      BY <2>2, <3>1
  <2>4. i \in 1..Len(q) /\ SamePath(q[i], a) /\ q[i] \in S
    BY <2>3, ElementOfSeq
  <2>5. /\ RemoveAt(q, i) \in Seq(S)
        /\ \A s : Count(q, s) = Count(RemoveAt(q, i), s) + One(q[i] = s)
    BY <2>4, CountRemoveAt
  <2>6. \A s : Count(RemoveAt(q, i), s) \in Nat
    BY <2>5, CountFinite
  <2> HIDE DEF I
  <2> DEFINE u == unsubscribe(q, a)
  <2>7. /\ u \in Seq(S) /\ \A s : Count(u, s) \in Nat
        /\ \A s : Count(q, s) = Count(u, s) + One(q[i] = s)
    BY <2>3, <2>5, <2>6
  <2> HIDE DEF u
  <2>8. \A s : /\ Count(u, s) <= Count(q, s)
               /\ q[i] # s => Count(u, s) = Count(q, s)
               /\ q[i] = s => Count(u, s) < Count(q, s)
    BY <1>a, <2>7 DEF One
  <2>9. \A s : ~SamePath(s, a) => Count(u, s) = Count(q, s)
    BY <2>4, <2>8
  <2>10. \E s \in S : SamePath(s, a) /\ Count(u, s) < Count(q, s)
    BY <2>4, <2>8
  <2> QED
    BY <2>7, <2>8, <2>9, <2>10 DEF u
<1> QED
  BY <1>2, <1>3

(* Copies of a message are told one at a time.                             *)
LEMMA CopiesOfOne ==
  ASSUME NEW M, NEW m \in M, NEW n \in Nat
  PROVE  /\ Copies(m, n) \in Seq(M)
         /\ Copies(m, 0) = <<>>
         /\ <<>> \o Copies(m, n) = Copies(m, n)
         /\ n # 0 => /\ Copies(m, n) # <<>>
                     /\ Head(Copies(m, n)) = m
                     /\ Tail(Copies(m, n)) = Copies(m, n - 1)
<1>1. /\ Copies(m, n) \in Seq(M) /\ Len(Copies(m, n)) = n
      /\ \A i \in 1..n : Copies(m, n)[i] = m
  BY DEF Copies
<1>2. Copies(m, 0) = <<>>
  BY DEF Copies
<1>3. <<>> \o Copies(m, n) = Copies(m, n)
  BY <1>1, ConcatEmptySeq
<1>4. ASSUME n # 0
      PROVE  /\ Copies(m, n) # <<>>
             /\ Head(Copies(m, n)) = m
             /\ Tail(Copies(m, n)) = Copies(m, n - 1)
  <2>1. n - 1 \in Nat /\ 1 \in 1..n
    BY <1>4
  <2>2. /\ Copies(m, n - 1) \in Seq(M) /\ Len(Copies(m, n - 1)) = n - 1
        /\ \A i \in 1..(n - 1) : Copies(m, n - 1)[i] = m
    BY <2>1 DEF Copies
  <2>3. Copies(m, n) # <<>>
    BY <1>1, <1>4, EmptySeq
  <2>4. Head(Copies(m, n)) = m
    BY <1>1, <2>1, <2>3
  <2>5. /\ Tail(Copies(m, n)) \in Seq(M) /\ Len(Tail(Copies(m, n))) = n - 1
        /\ \A i \in 1..(n - 1) : Tail(Copies(m, n))[i] = Copies(m, n)[i + 1]
    BY <1>1, <2>3, HeadTailProperties
  <2>6. \A i \in 1..(n - 1) : Tail(Copies(m, n))[i] = Copies(m, n - 1)[i]
    BY <1>1, <2>2, <2>5
  <2>7. Tail(Copies(m, n)) = Copies(m, n - 1)
    BY <2>2, <2>5, <2>6, SeqEqual
  <2> QED
    BY <2>3, <2>4, <2>7
<1> QED
  BY <1>1, <1>2, <1>3, <1>4

-----------------------------------------------------------------------------
(* Types                                                                   *)

(* The operations, one variant of ChannelMsg at a time.                    *)
LEMMA OperationFields ==
  ASSUME NEW o \in ChannelMsg
  PROVE  /\ o.op \in {"Subscribe", "Unsubscribe"} =>
               o.actor \in Subscriber /\ o.topic \in Topic
         /\ o.op = "UnsubscribeAll" => o.actor \in Subscriber
         /\ o.op = "Publish" => o.topic \in Topic /\ o.msg \in Payload
  BY DEF ChannelMsg

(* What a channel publishes for an undeliverable message is an operation.  *)
LEMMA DeadPublishType == DeadPublish \in ChannelMsg
  BY TopicAssumption DEF DeadPublish, ChannelMsg, Payload

(* Taking an operation from the mailbox.                                   *)
LEMMA ReceiveType ==
  ASSUME TypeOK, NEW op, Receive(op)
  PROVE  /\ Head(mailbox) \in ChannelMsg /\ Head(mailbox).op = op
         /\ mailbox' \in Seq(ChannelMsg) /\ Len(mailbox') <= MailboxBound
         /\ targets = <<>>
         /\ UNCHANGED <<kind, inbox, life, tells>>
<1>1. mailbox \in Seq(ChannelMsg) /\ Len(mailbox) <= MailboxBound
  BY DEF TypeOK
<1>2. mailbox # <<>> /\ mailbox' = Tail(mailbox)
  BY DEF Receive
<1>3. /\ Head(mailbox) \in ChannelMsg /\ Tail(mailbox) \in Seq(ChannelMsg)
      /\ Len(Tail(mailbox)) = Len(mailbox) - 1 /\ Len(mailbox) \in Nat
  BY <1>1, <1>2, HeadTailProperties, LenProperties
<1>4. Len(mailbox') <= MailboxBound
  BY <1>1, <1>2, <1>3, BoundAssumption
<1> QED
  BY <1>2, <1>3, <1>4 DEF Receive

(* The channel's mailbox after a message that could not be delivered.      *)
LEMMA DeadLettersType ==
  ASSUME TypeOK, DeadLetters
  PROVE  mailbox' \in Seq(ChannelMsg) /\ Len(mailbox') <= MailboxBound
<1>1. mailbox \in Seq(ChannelMsg) /\ Len(mailbox) <= MailboxBound
  BY DEF TypeOK
<1>2. CASE kind = "dead_letters"
  <2>1. Len(mailbox) < MailboxBound /\ mailbox' = Append(mailbox, DeadPublish)
    BY <1>2 DEF DeadLetters
  <2>2. /\ Append(mailbox, DeadPublish) \in Seq(ChannelMsg)
        /\ Len(Append(mailbox, DeadPublish)) = Len(mailbox) + 1
        /\ Len(mailbox) \in Nat
    BY <1>1, DeadPublishType, AppendProperties, LenProperties
  <2> QED
    BY <2>1, <2>2, BoundAssumption
<1>3. CASE kind # "dead_letters"
  BY <1>1, <1>3 DEF DeadLetters
<1> QED
  BY <1>2, <1>3

(* Types: entries of the registry and references in a publication are      *)
(* subscribers, what waits in a mailbox is an operation or a message,      *)
(* whatever clients tell, and the path the channel compares is that of one *)
(* live actor (channel.rs, kernel.rs terminate_actor).                     *)
THEOREM ChannelTypeOK == Spec => []TypeOK
<1>1. Init => TypeOK
  <2> SUFFICES ASSUME Init PROVE TypeOK
    OBVIOUS
  <2>1. /\ <<>> \in Seq(ChannelMsg) /\ Len(<<>>) <= MailboxBound
        /\ <<>> \in Seq(Subscriber) /\ <<>> \in Seq(Payload)
    BY BoundAssumption
  <2>2. subs \in [Topic -> Seq(Subscriber)] /\ inbox \in [Subscriber -> Seq(Payload)]
    BY <2>1 DEF Init
  <2>3. life \in [Subscriber -> {"unborn", "open", "flushing", "flushed", "closed"}]
    BY DEF Init
  <2>4. tells \in 0..MaxTells /\ current \in Payload
    BY BoundAssumption DEF Init, Payload
  <2> QED
    BY <2>1, <2>2, <2>3, <2>4 DEF Init, TypeOK
<1>2. TypeOK /\ [Next]_vars => TypeOK'
  <2> SUFFICES ASSUME TypeOK, [Next]_vars PROVE TypeOK'
    OBVIOUS
  <2>0. /\ kind \in Kinds
        /\ mailbox \in Seq(ChannelMsg) /\ Len(mailbox) <= MailboxBound
        /\ subs \in [Topic -> Seq(Subscriber)]
        /\ current \in Payload /\ targets \in Seq(Subscriber)
        /\ inbox \in [Subscriber -> Seq(Payload)]
        /\ life \in [Subscriber -> {"unborn", "open", "flushing", "flushed", "closed"}]
        /\ tells \in 0..MaxTells
    BY DEF TypeOK
  <2>a. \A x, y \in Subscriber :
           SamePath(x, y) /\ life[x] = "open" /\ life[y] = "open" => x = y
    BY DEF TypeOK
  <2>b. UNCHANGED life =>
           \A x, y \in Subscriber :
              SamePath(x, y) /\ life'[x] = "open" /\ life'[y] = "open" => x = y
    BY <2>a
  <2>1. ASSUME NEW o \in ClientMsg, Tell(o) PROVE TypeOK'
    <3>1. o \in ChannelMsg
      BY <2>1 DEF ClientMsg
    <3>2. /\ Append(mailbox, o) \in Seq(ChannelMsg)
          /\ Len(Append(mailbox, o)) = Len(mailbox) + 1 /\ Len(mailbox) \in Nat
      BY <2>0, <3>1, AppendProperties, LenProperties
    <3>3. mailbox' \in Seq(ChannelMsg) /\ Len(mailbox') <= MailboxBound
      BY <2>1, <3>2, BoundAssumption DEF Tell
    <3>4. tells' \in 0..MaxTells
      BY <2>0, <2>1, BoundAssumption DEF Tell
    <3> QED
      BY <2>0, <2>b, <2>1, <3>3, <3>4 DEF Tell, TypeOK
  <2>2. ASSUME ReceiveSubscribe PROVE TypeOK'
    <3> DEFINE o == Head(mailbox)
    <3>1. /\ o \in ChannelMsg /\ o.op = "Subscribe"
          /\ mailbox' \in Seq(ChannelMsg) /\ Len(mailbox') <= MailboxBound
          /\ UNCHANGED <<kind, inbox, life, tells>>
      BY <2>2, ReceiveType DEF ReceiveSubscribe
    <3>2. o.actor \in Subscriber /\ o.topic \in Topic
      BY <3>1, OperationFields
    <3>3. /\ subs' = [subs EXCEPT ![o.topic] = Append(@, o.actor)]
          /\ UNCHANGED <<current, targets>>
      BY <2>2 DEF ReceiveSubscribe
    <3> HIDE DEF o
    <3>4. Append(subs[o.topic], o.actor) \in Seq(Subscriber)
      BY <2>0, <3>2, AppendProperties
    <3>5. subs' \in [Topic -> Seq(Subscriber)]
      BY <2>0, <3>2, <3>3, <3>4
    <3> QED
      BY <2>0, <2>b, <3>1, <3>3, <3>5 DEF TypeOK
  <2>3. ASSUME ReceiveUnsubscribe PROVE TypeOK'
    <3> DEFINE o == Head(mailbox)
    <3>1. /\ o \in ChannelMsg /\ o.op = "Unsubscribe"
          /\ mailbox' \in Seq(ChannelMsg) /\ Len(mailbox') <= MailboxBound
          /\ UNCHANGED <<kind, inbox, life, tells>>
      BY <2>3, ReceiveType DEF ReceiveUnsubscribe
    <3>2. o.actor \in Subscriber /\ o.topic \in Topic
      BY <3>1, OperationFields
    <3>3. /\ subs' = [subs EXCEPT ![o.topic] = unsubscribe(@, o.actor)]
          /\ UNCHANGED <<current, targets>>
      BY <2>3 DEF ReceiveUnsubscribe
    <3> HIDE DEF o
    <3>4. unsubscribe(subs[o.topic], o.actor) \in Seq(Subscriber)
      BY <2>0, <3>2, CountUnsubscribe
    <3>5. subs' \in [Topic -> Seq(Subscriber)]
      BY <2>0, <3>2, <3>3, <3>4
    <3> QED
      BY <2>0, <2>b, <3>1, <3>3, <3>5 DEF TypeOK
  <2>4. ASSUME ReceiveUnsubscribeAll PROVE TypeOK'
    <3> DEFINE o == Head(mailbox)
    <3>1. /\ mailbox' \in Seq(ChannelMsg) /\ Len(mailbox') <= MailboxBound
          /\ UNCHANGED <<kind, inbox, life, tells>>
      BY <2>4, ReceiveType DEF ReceiveUnsubscribeAll
    <3>3. /\ subs' = [t \in Topic |-> unsubscribe(subs[t], o.actor)]
          /\ UNCHANGED <<current, targets>>
      BY <2>4 DEF ReceiveUnsubscribeAll
    <3> HIDE DEF o
    <3>4. \A t \in Topic : unsubscribe(subs[t], o.actor) \in Seq(Subscriber)
      BY <2>0, CountUnsubscribe
    <3>5. subs' \in [Topic -> Seq(Subscriber)]
      BY <3>3, <3>4
    <3> QED
      BY <2>0, <2>b, <3>1, <3>3, <3>5 DEF TypeOK
  <2>5. ASSUME ReceivePublish PROVE TypeOK'
    <3> DEFINE o == Head(mailbox)
    <3>1. /\ o \in ChannelMsg /\ o.op = "Publish"
          /\ mailbox' \in Seq(ChannelMsg) /\ Len(mailbox') <= MailboxBound
          /\ UNCHANGED <<kind, inbox, life, tells>>
      BY <2>5, ReceiveType DEF ReceivePublish
    <3>2. o.topic \in Topic /\ o.msg \in Payload
      BY <3>1, OperationFields
    <3>3. current' = o.msg /\ targets' = subs[All] \o subs[o.topic] /\ UNCHANGED subs
      BY <2>5 DEF ReceivePublish
    <3> HIDE DEF o
    <3>4. subs[All] \in Seq(Subscriber) /\ subs[o.topic] \in Seq(Subscriber)
      BY <2>0, <3>2, TopicAssumption
    <3>5. targets' \in Seq(Subscriber)
      BY <3>3, <3>4, ConcatProperties
    <3> QED
      BY <2>0, <2>b, <3>1, <3>2, <3>3, <3>5 DEF TypeOK
  <2>6. ASSUME TellTarget PROVE TypeOK'
    <3> DEFINE s == Head(targets)
    <3>1. /\ targets # <<>> /\ targets' = Tail(targets)
          /\ UNCHANGED <<kind, subs, current, life, tells>>
      BY <2>6 DEF TellTarget
    <3>2. s \in Subscriber /\ targets' \in Seq(Subscriber)
      BY <2>0, <3>1, HeadTailProperties
    <3>3. \/ inbox' = [inbox EXCEPT ![s] = Append(@, current)] /\ UNCHANGED mailbox
          \/ DeadLetters /\ UNCHANGED inbox
      BY <2>6 DEF TellTarget
    <3> HIDE DEF s
    <3>4. mailbox' \in Seq(ChannelMsg) /\ Len(mailbox') <= MailboxBound
      BY <2>0, <3>3, DeadLettersType
    <3>5. Append(inbox[s], current) \in Seq(Payload)
      BY <2>0, <3>2, AppendProperties
    <3>6. inbox' \in [Subscriber -> Seq(Payload)]
      BY <2>0, <3>2, <3>3, <3>5
    <3> QED
      BY <2>0, <2>b, <3>1, <3>2, <3>4, <3>6 DEF TypeOK
  <2>7. ASSUME NEW s \in Subscriber, Handle(s) \/ Flush(s) PROVE TypeOK'
    <3>1. /\ inbox[s] # <<>> /\ inbox' = [inbox EXCEPT ![s] = Tail(@)]
          /\ UNCHANGED <<kind, subs, current, targets, life, tells>>
          /\ UNCHANGED mailbox \/ DeadLetters
      BY <2>7 DEF Handle, Flush
    <3>2. Tail(inbox[s]) \in Seq(Payload)
      BY <2>0, <3>1, HeadTailProperties
    <3>3. inbox' \in [Subscriber -> Seq(Payload)]
      BY <2>0, <3>1, <3>2
    <3>4. mailbox' \in Seq(ChannelMsg) /\ Len(mailbox') <= MailboxBound
      BY <2>0, <3>1, DeadLettersType
    <3> QED
      BY <2>0, <2>b, <3>1, <3>3, <3>4 DEF TypeOK
  <2>8. ASSUME NEW s \in Subscriber, Terminate(s) \/ Flushed(s) PROVE TypeOK'
    <3>1. /\ \E l \in {"flushing", "flushed"} : life' = [life EXCEPT ![s] = l]
          /\ UNCHANGED <<kind, mailbox, subs, current, targets, inbox, tells>>
      BY <2>8 DEF Terminate, Flushed
    <3>2. life' \in [Subscriber -> {"unborn", "open", "flushing", "flushed", "closed"}]
      BY <2>0, <3>1
    <3>3. \A x \in Subscriber : life'[x] = "open" => life[x] = "open"
      BY <2>0, <3>1
    <3>4. \A x, y \in Subscriber :
             SamePath(x, y) /\ life'[x] = "open" /\ life'[y] = "open" => x = y
      BY <2>a, <3>3
    <3> QED
      BY <2>0, <3>1, <3>2, <3>4 DEF TypeOK
  <2>9. ASSUME NEW s \in Subscriber, Close(s) PROVE TypeOK'
    <3>1. life' \in [Subscriber -> {"unborn", "open", "flushing", "flushed", "closed"}]
      BY <2>0, <2>9 DEF Close
    <3>2. <<>> \in Seq(Payload)
      OBVIOUS
    <3>3. inbox' \in [Subscriber -> Seq(Payload)]
      BY <2>0, <2>9, <3>2 DEF Close
    <3>4. \A x \in Subscriber : life'[x] = "open" => life[x] = "open"
      BY <2>0, <2>9 DEF Close
    <3>5. \A x, y \in Subscriber :
             SamePath(x, y) /\ life'[x] = "open" /\ life'[y] = "open" => x = y
      BY <2>a, <3>4
    <3> QED
      BY <2>0, <2>9, <3>1, <3>3, <3>5 DEF Close, TypeOK
  <2>10. ASSUME UNCHANGED vars PROVE TypeOK'
    BY <2>0, <2>b, <2>10 DEF vars, TypeOK
  <2>11. ASSUME NEW s \in Subscriber, Create(s) PROVE TypeOK'
    <3>1. /\ life' = [life EXCEPT ![s] = "open"]
          /\ \A x \in Subscriber : SamePath(x, s) => life[x] # "open"
          /\ UNCHANGED <<kind, mailbox, subs, current, targets, inbox, tells>>
      BY <2>11 DEF Create
    <3>2. life' \in [Subscriber -> {"unborn", "open", "flushing", "flushed", "closed"}]
      BY <2>0, <3>1
    <3>3. \A x \in Subscriber : x # s => life'[x] = life[x]
      BY <2>0, <3>1
    <3>4. ASSUME NEW x \in Subscriber, NEW y \in Subscriber, SamePath(x, y),
                 life'[x] = "open", life'[y] = "open"
          PROVE  x = y
      BY <2>a, <3>1, <3>3, <3>4 DEF SamePath
    <3> QED
      BY <2>0, <3>1, <3>2, <3>4 DEF TypeOK
  <2> QED
    BY <2>1, <2>2, <2>3, <2>4, <2>5, <2>6, <2>7, <2>8, <2>9, <2>10, <2>11
       DEF Next, ChannelStep
<1> QED
  BY <1>1, <1>2, PTL DEF Spec

-----------------------------------------------------------------------------
(* Operations act when they are taken                                      *)

(* The registrations of a registry, counted.                               *)
LEMMA CountsType ==
  ASSUME NEW q \in [Topic -> Seq(Subscriber)]
  PROVE  /\ Counts[q] \in Registrations
         /\ \A s \in Subscriber, t \in Topic :
               Counts[q][s][t] = Count(q[t], s) /\ Count(q[t], s) \in Nat
<1>1. \A s \in Subscriber, t \in Topic : Count(q[t], s) \in Nat
  BY CountFinite
<1>2. Counts[q] = [s \in Subscriber |-> [t \in Topic |-> Count(q[t], s)]]
  BY DEF Counts
<1> QED
  BY <1>1, <1>2 DEF Registrations

(* unsubscribe applied to the Vecs of some topics takes back registrations *)
(* of the actor's path, as PubSub asks for.                                *)
LEMMA UnsubscribeChange ==
  ASSUME NEW p \in [Topic -> Seq(Subscriber)], NEW q \in [Topic -> Seq(Subscriber)],
         NEW a \in Subscriber, NEW T \in SUBSET Topic,
         \A t \in T : q[t] = unsubscribe(p[t], a),
         \A t \in Topic \ T : q[t] = p[t]
  PROVE  TakenBack([before |-> Counts[p], after |-> Counts[q]], a, T)
<1> DEFINE b == Counts[p]
           c == Counts[q]
<1>1. \A s \in Subscriber, t \in Topic :
         /\ b[s][t] = Count(p[t], s) /\ b[s][t] \in Nat
         /\ c[s][t] = Count(q[t], s) /\ c[s][t] \in Nat
  BY CountsType
<1>2. \A t \in T : /\ \A s : /\ Count(q[t], s) <= Count(p[t], s)
                             /\ ~SamePath(s, a) => Count(q[t], s) = Count(p[t], s)
                   /\ \A x : SamePath(x, a) /\ Count(p[t], x) > 0 =>
                         \E s \in Subscriber : /\ SamePath(s, a)
                                               /\ Count(q[t], s) < Count(p[t], s)
  BY CountUnsubscribe
<1> HIDE DEF b, c
<1>3. ASSUME NEW s \in Subscriber, NEW t \in Topic
      PROVE  /\ c[s][t] <= b[s][t]
             /\ t \notin T \/ ~SamePath(s, a) => c[s][t] = b[s][t]
  <2>1. CASE t \in T
    BY <1>1, <1>2, <2>1
  <2>2. CASE t \notin T
    BY <1>1, <2>2
  <2> QED
    BY <2>1, <2>2
<1>4. ASSUME NEW t \in T, NEW x \in Subscriber, SamePath(x, a), b[x][t] > 0
      PROVE  \E s \in Subscriber : SamePath(s, a) /\ c[s][t] < b[s][t]
  <2>1. PICK s \in Subscriber : SamePath(s, a) /\ Count(q[t], s) < Count(p[t], s)
    BY <1>1, <1>2, <1>4
  <2> QED
    BY <1>1, <2>1
<1>5. TakenBack([before |-> b, after |-> c], a, T)
  BY <1>3, <1>4 DEF TakenBack
<1> QED
  BY <1>5 DEF b, c

(* What an operation makes of the registry is a change that PubSub allows. *)
LEMMA RegistryChange ==
  ASSUME NEW p \in [Topic -> Seq(Subscriber)], NEW o \in ChannelMsg
  PROVE  /\ Registry(p, o) \in [Topic -> Seq(Subscriber)]
         /\ [before |-> Counts[p], after |-> Counts[Registry(p, o)]] \in Changes(o)
<1> DEFINE q == Registry(p, o)
           c == [before |-> Counts[p], after |-> Counts[q]]
<1>0. ASSUME q \in [Topic -> Seq(Subscriber)]
      PROVE  /\ Counts[p] \in Registrations /\ Counts[q] \in Registrations
             /\ c \in [before : Registrations, after : Registrations]
             /\ c.before = Counts[p] /\ c.after = Counts[q]
  <2> HIDE DEF q
  <2> QED
    BY <1>0, CountsType
<1>1. CASE o.op = "Subscribe"
  <2>1. o.actor \in Subscriber /\ o.topic \in Topic
    BY <1>1, OperationFields
  <2>2. q = [p EXCEPT ![o.topic] = Append(@, o.actor)]
    BY <1>1 DEF Registry
  <2> HIDE DEF q
  <2>3. Append(p[o.topic], o.actor) \in Seq(Subscriber)
    BY <2>1, AppendProperties
  <2>4. q \in [Topic -> Seq(Subscriber)]
    BY <2>1, <2>2, <2>3
  <2> DEFINE h == Counts[p]
             k == Counts[q]
  <2>5. /\ h \in Registrations /\ k \in Registrations
        /\ \A s \in Subscriber, t \in Topic :
              h[s][t] = Count(p[t], s) /\ k[s][t] = Count(q[t], s)
    BY <2>4, CountsType
  <2>6. \A s \in Subscriber : Count(Append(p[o.topic], o.actor), s)
                                = Count(p[o.topic], s) + One(o.actor = s)
    BY <2>1, CountAppend
  <2> HIDE DEF h, k
  <2>7. \A s \in Subscriber, t \in Topic :
           k[s][t] = IF s = o.actor /\ t = o.topic THEN h[s][t] + 1 ELSE h[s][t]
    <3> TAKE s \in Subscriber, t \in Topic
    <3>1. CASE t = o.topic
      BY <2>1, <2>2, <2>5, <2>6, <3>1 DEF One, Registrations
    <3>2. CASE t # o.topic
      BY <2>1, <2>2, <2>5, <3>2
    <3> QED
      BY <3>1, <3>2
  <2>8. k = [h EXCEPT ![o.actor][o.topic] = h[o.actor][o.topic] + 1]
    <3> DEFINE n == h[o.actor][o.topic] + 1
    <3>1. n \in Nat
      BY <2>1, <2>5 DEF Registrations
    <3>2. /\ k[o.actor][o.topic] = n
          /\ \A s \in Subscriber, t \in Topic :
                s # o.actor \/ t # o.topic => k[s][t] = h[s][t]
      BY <2>1, <2>7
    <3> HIDE DEF n
    <3>3. h \in [Subscriber -> [Topic -> Nat]] /\ k \in [Subscriber -> [Topic -> Nat]]
      BY <2>5 DEF Registrations
    <3>4. k[o.actor] = [h[o.actor] EXCEPT ![o.topic] = n]
      BY <2>1, <3>1, <3>2, <3>3
    <3>5. \A s \in Subscriber : s # o.actor => k[s] = h[s]
      BY <3>2, <3>3
    <3>6. k = [h EXCEPT ![o.actor][o.topic] = n]
      BY <2>1, <3>3, <3>4, <3>5
    <3> QED
      BY <3>6 DEF n
  <2>9. [before |-> h, after |-> k] \in Changes(o)
    <3> DEFINE d == [before |-> h, after |-> k]
    <3>1. /\ d \in [before : Registrations, after : Registrations]
          /\ d.after = [d.before EXCEPT ![o.actor][o.topic] = @ + 1]
      BY <2>5, <2>8
    <3> HIDE DEF d
    <3>2. d \in Changes(o)
      BY <1>1, <3>1 DEF Changes
    <3> QED
      BY <3>2 DEF d
  <2> QED
    BY <2>4, <2>9 DEF h, k, q
<1>2. CASE o.op = "Unsubscribe"
  <2>1. o.actor \in Subscriber /\ o.topic \in Topic
    BY <1>2, OperationFields
  <2>2. q = [p EXCEPT ![o.topic] = unsubscribe(@, o.actor)]
    BY <1>2 DEF Registry
  <2>3. unsubscribe(p[o.topic], o.actor) \in Seq(Subscriber)
    BY <2>1, CountUnsubscribe
  <2> HIDE DEF q
  <2>4. q \in [Topic -> Seq(Subscriber)]
    BY <2>1, <2>2, <2>3
  <2>5. TakenBack(c, o.actor, {o.topic})
    <3>1. \A t \in {o.topic} : q[t] = unsubscribe(p[t], o.actor)
      BY <2>1, <2>2
    <3>2. \A t \in Topic \ {o.topic} : q[t] = p[t]
      BY <2>1, <2>2
    <3>3. {o.topic} \in SUBSET Topic
      BY <2>1
    <3> QED
      BY <2>1, <2>4, <3>1, <3>2, <3>3, UnsubscribeChange
  <2>6. c \in [before : Registrations, after : Registrations]
    BY <1>0, <2>4
  <2> HIDE DEF c
  <2>7. c \in Changes(o)
    BY <1>2, <2>5, <2>6 DEF Changes
  <2> QED
    BY <2>4, <2>7 DEF c, q
<1>3. CASE o.op = "UnsubscribeAll"
  <2>1. o.actor \in Subscriber
    BY <1>3, OperationFields
  <2>2. q = [t \in Topic |-> unsubscribe(p[t], o.actor)]
    BY <1>3 DEF Registry
  <2>3. \A t \in Topic : unsubscribe(p[t], o.actor) \in Seq(Subscriber)
    BY <2>1, CountUnsubscribe
  <2> HIDE DEF q
  <2>4. q \in [Topic -> Seq(Subscriber)]
    BY <2>2, <2>3
  <2>5. TakenBack(c, o.actor, Topic)
    <3>1. \A t \in Topic : q[t] = unsubscribe(p[t], o.actor)
      BY <2>2
    <3>2. Topic \in SUBSET Topic /\ \A t \in Topic \ Topic : q[t] = p[t]
      OBVIOUS
    <3> QED
      BY <2>1, <2>4, <3>1, <3>2, UnsubscribeChange
  <2>6. c \in [before : Registrations, after : Registrations]
    BY <1>0, <2>4
  <2> HIDE DEF c
  <2>7. c \in Changes(o)
    BY <1>3, <2>5, <2>6 DEF Changes
  <2> QED
    BY <2>4, <2>7 DEF c, q
<1>4. CASE o.op = "Publish"
  <2>1. q = p
    BY <1>4 DEF Registry
  <2>2. /\ c \in [before : Registrations, after : Registrations]
        /\ c.after = c.before
    BY <1>0, <2>1
  <2> HIDE DEF c
  <2>3. c \in Changes(o)
    BY <1>4, <2>2 DEF Changes
  <2> QED
    BY <2>1, <2>3 DEF c, q
<1> QED
  BY <1>1, <1>2, <1>3, <1>4 DEF ChannelMsg

(* What is held and owed is determined by the registry and the references. *)
LEMMA HeldOwed ==
  ASSUME TypeOK
  PROVE  /\ Held \in Registrations
         /\ \A s \in Subscriber, t \in Topic : Held[s][t] = Count(subs[t], s)
         /\ \A s \in Subscriber : Owed[s] = Copies(current, Count(targets, s))
         /\ \A s \in Subscriber : Count(targets, s) \in Nat
<1>1. subs \in [Topic -> Seq(Subscriber)] /\ targets \in Seq(Subscriber)
  BY DEF TypeOK
<1>2. /\ Held \in Registrations
      /\ \A s \in Subscriber, t \in Topic : Held[s][t] = Count(subs[t], s)
  BY <1>1, CountsType DEF Held
<1>3. \A s \in Subscriber : Count(targets, s) \in Nat
  BY <1>1, CountFinite
<1> QED
  BY <1>2, <1>3 DEF Owed

(* At the start nothing is held or owed.                                   *)
LEMMA InitEffect ==
  ASSUME Init
  PROVE  /\ Held = [s \in Subscriber |-> [t \in Topic |-> 0]]
         /\ Owed = [s \in Subscriber |-> <<>>]
         /\ Living = Subscriber
<1>1. \A s \in Subscriber : Count(<<>>, s) = 0
  BY CountEmpty
<1>2. Held = [s \in Subscriber |-> [t \in Topic |-> 0]]
  <2>1. subs \in [Topic -> Seq(Subscriber)] /\ \A t \in Topic : subs[t] = <<>>
    BY DEF Init
  <2>2. /\ Held \in Registrations
        /\ \A s \in Subscriber, t \in Topic : Held[s][t] = 0
    BY <1>1, <2>1, CountsType DEF Held
  <2> QED
    BY <2>2 DEF Registrations
<1>3. Copies(current, 0) = <<>>
  BY CopiesOfOne
<1>4. Owed = [s \in Subscriber |-> <<>>]
  BY <1>1, <1>3 DEF Init, Owed
<1>5. Living = Subscriber
  BY DEF Init, Living
<1> QED
  BY <1>2, <1>4, <1>5

(* What is owed in the next state.                                         *)
LEMMA NextOwed ==
  ASSUME TypeOK'
  PROVE  /\ \A s \in Subscriber : Owed'[s] = Copies(current', Count(targets', s))
         /\ \A s \in Subscriber : Count(targets', s) \in Nat
         /\ Owed' = [s \in Subscriber |-> Copies(current', Count(targets', s))]
<1>1. targets' \in Seq(Subscriber)
  BY DEF TypeOK
<1>2. \A s \in Subscriber : Count(targets', s) \in Nat
  BY <1>1, CountFinite
<1> QED
  BY <1>2 DEF Owed, Count, Copies

(* What they depend on.                                                    *)
LEMMA Unaffected ==
  /\ UNCHANGED subs => UNCHANGED Held
  /\ UNCHANGED <<current, targets>> => UNCHANGED Owed
  /\ UNCHANGED life => UNCHANGED Living
  BY DEF Held, Owed, Living, Count, Copies

Take ==
    \/ ReceiveSubscribe
    \/ ReceiveUnsubscribe
    \/ ReceiveUnsubscribeAll
    \/ ReceivePublish

(* Taking an operation from the mailbox has the effect it has in PubSub.   *)
LEMMA TakeEffect ==
  ASSUME TypeOK, TypeOK', Take
  PROVE  /\ Head(mailbox) \in ChannelMsg
         /\ subs' = Registry(subs, Head(mailbox))
         /\ [before |-> Held, after |-> Held'] \in Changes(Head(mailbox))
         /\ Owed' = Owing(Held, Owed, Head(mailbox))
         /\ inbox' = inbox /\ Living' = Living
         /\ mailbox # <<>> /\ mailbox' = Tail(mailbox)
<1> DEFINE o == Head(mailbox)
<1>0. /\ \A s \in Subscriber, t \in Topic : Held[s][t] = Count(subs[t], s)
      /\ \A s \in Subscriber : Owed[s] = Copies(current, Count(targets, s))
      /\ \A s \in Subscriber : Count(targets, s) \in Nat
  BY HeldOwed
<1>a. /\ \A s \in Subscriber : Count(targets', s) \in Nat
      /\ Owed' = [s \in Subscriber |-> Copies(current', Count(targets', s))]
  BY NextOwed
<1>b. subs \in [Topic -> Seq(Subscriber)]
  BY DEF TypeOK
<1>d. UNCHANGED <<current, targets>> => UNCHANGED Owed
  BY Unaffected
<1>1. \E op : Receive(op)
  BY DEF Take, ReceiveSubscribe, ReceiveUnsubscribe, ReceiveUnsubscribeAll, ReceivePublish
<1>2. /\ o \in ChannelMsg /\ UNCHANGED <<inbox, life>>
      /\ mailbox # <<>> /\ mailbox' = Tail(mailbox)
  BY <1>1, ReceiveType DEF Receive
<1>3. ASSUME ReceiveSubscribe \/ ReceiveUnsubscribe \/ ReceiveUnsubscribeAll
      PROVE  subs' = Registry(subs, o) /\ Owed' = Owing(Held, Owed, o)
  <2>1. o.op \in {"Subscribe", "Unsubscribe", "UnsubscribeAll"} /\ UNCHANGED <<current, targets>>
    BY <1>3 DEF ReceiveSubscribe, ReceiveUnsubscribe, ReceiveUnsubscribeAll, Receive
  <2>2. subs' = Registry(subs, o)
    <3>1. CASE ReceiveSubscribe
      BY <3>1 DEF ReceiveSubscribe, Receive, Registry
    <3>2. CASE ReceiveUnsubscribe
      BY <3>2 DEF ReceiveUnsubscribe, Receive, Registry
    <3>3. CASE ReceiveUnsubscribeAll
      BY <3>3 DEF ReceiveUnsubscribeAll, Receive, Registry
    <3> QED
      BY <1>3, <3>1, <3>2, <3>3
  <2> HIDE DEF o
  <2>3. Owed' = Owing(Held, Owed, o)
    BY <1>d, <2>1 DEF Owing
  <2> QED
    BY <2>2, <2>3
<1>5. ASSUME ReceivePublish
      PROVE  subs' = Registry(subs, o) /\ Owed' = Owing(Held, Owed, o)
  <2>1. o.op = "Publish" /\ targets = <<>>
    BY <1>5, ReceiveType DEF ReceivePublish
  <2>2. o.topic \in Topic /\ o.msg \in Payload
    BY <1>2, <2>1, OperationFields
  <2>3. current' = o.msg /\ targets' = subs[All] \o subs[o.topic] /\ UNCHANGED subs
    BY <1>5 DEF ReceivePublish
  <2> HIDE DEF o
  <2>4. subs[All] \in Seq(Subscriber) /\ subs[o.topic] \in Seq(Subscriber)
    BY <1>b, <2>2, TopicAssumption
  <2>5. \A s \in Subscriber : Count(targets', s) = Held[s][All] + Held[s][o.topic]
    <3>1. \A s \in Subscriber : Count(subs[All] \o subs[o.topic], s)
                                  = Count(subs[All], s) + Count(subs[o.topic], s)
      BY <2>4, CountConcat
    <3> QED
      BY <1>0, <2>2, <2>3, <3>1, TopicAssumption
  <2>6. \A s \in Subscriber : Owed[s] = <<>>
    <3>1. Copies(current, 0) = <<>>
      BY CopiesOfOne
    <3>2. \A s \in Subscriber : Count(targets, s) = 0
      BY <2>1, CountEmpty
    <3> QED
      BY <1>0, <3>1, <3>2
  <2>7. \A s \in Subscriber :
           Owed[s] \o Copies(o.msg, Held[s][All] + Held[s][o.topic])
             = Copies(o.msg, Count(targets', s))
    <3> TAKE s \in Subscriber
    <3>1. <<>> \o Copies(o.msg, Count(targets', s)) = Copies(o.msg, Count(targets', s))
      BY <1>a, <2>2, CopiesOfOne
    <3> QED
      BY <2>5, <2>6, <3>1, Zenon
  <2>8. Owed' = Owing(Held, Owed, o)
    BY <1>a, <2>1, <2>3, <2>7, Zenon DEF Owing
  <2>9. subs' = Registry(subs, o)
    BY <2>1, <2>3 DEF Registry
  <2> QED
    BY <2>8, <2>9
<1> HIDE DEF o
<1>8. subs' = Registry(subs, o) /\ Owed' = Owing(Held, Owed, o)
  BY <1>3, <1>5 DEF Take
<1>9. [before |-> Held, after |-> Held'] \in Changes(o)
  <2>1. Held = Counts[subs] /\ Held' = Counts[subs']
    BY DEF Held
  <2> QED
    BY <1>2, <1>8, <1>b, <2>1, RegistryChange
<1> QED
  BY <1>2, <1>8, <1>9, Unaffected DEF o

(* A tell pays a debt.                                                     *)
LEMMA TellEffect ==
  ASSUME TypeOK, TypeOK', TellTarget
  PROVE  \E s \in Subscriber :
            /\ Owed[s] # <<>> /\ Head(Owed[s]) = current
            /\ Owed' = [Owed EXCEPT ![s] = Tail(@)]
            /\ UNCHANGED subs /\ Held' = Held /\ Living' = Living
            /\ \/ /\ s \in Living
                  /\ inbox' = [inbox EXCEPT ![s] = Append(@, current)]
                  /\ UNCHANGED mailbox
               \/ s \notin Living /\ DeadLetters /\ UNCHANGED inbox
<1> DEFINE s == Head(targets)
<1>0. /\ \A x \in Subscriber : Owed[x] = Copies(current, Count(targets, x))
      /\ \A x \in Subscriber : Count(targets, x) \in Nat
  BY HeldOwed
<1>a. /\ \A x \in Subscriber : Owed'[x] = Copies(current', Count(targets', x))
      /\ \A x \in Subscriber : Count(targets', x) \in Nat
  BY NextOwed
<1>f. Owed = [x \in Subscriber |-> Copies(current, Count(targets, x))]
  BY DEF Owed
<1>g. Owed' = [x \in Subscriber |-> Copies(current', Count(targets', x))]
  BY NextOwed
<1>1. /\ targets # <<>> /\ targets' = Tail(targets)
      /\ UNCHANGED <<subs, current, life>>
  BY DEF TellTarget
<1>2. targets \in Seq(Subscriber) /\ current \in Payload
  BY DEF TypeOK
<1>3. s \in Subscriber
  BY <1>1, <1>2, HeadTailProperties
<1>4. \A x \in Subscriber : Count(targets, x) = One(s = x) + Count(targets', x)
  BY <1>1, <1>2, CountTail
<1>5. \/ /\ life[s] # "closed"
         /\ inbox' = [inbox EXCEPT ![s] = Append(@, current)]
         /\ UNCHANGED mailbox
      \/ /\ life[s] = "closed"
         /\ DeadLetters
         /\ UNCHANGED inbox
  BY DEF TellTarget
<1> HIDE DEF s
<1>6. /\ Count(targets, s) # 0 /\ Count(targets', s) = Count(targets, s) - 1
      /\ \A x \in Subscriber : x # s => Count(targets', x) = Count(targets, x)
  <2>1. \A x \in Subscriber : Count(targets, x) \in Nat /\ Count(targets', x) \in Nat
    BY <1>0, <1>a, Zenon
  <2>2. Count(targets, s) = 1 + Count(targets', s)
    BY <1>3, <1>4, Zenon DEF One
  <2>3. \A x \in Subscriber : x # s => Count(targets, x) = 0 + Count(targets', x)
    BY <1>4, Zenon DEF One
  <2> QED
    BY <1>3, <2>1, <2>2, <2>3
<1>7. /\ Owed[s] # <<>> /\ Head(Owed[s]) = current
      /\ Tail(Owed[s]) = Copies(current, Count(targets, s) - 1)
  BY <1>0, <1>2, <1>3, <1>6, CopiesOfOne
<1>8. Owed' = [Owed EXCEPT ![s] = Tail(@)]
  <2>1. \A x \in Subscriber : Owed'[x] = IF x = s THEN Tail(Owed[s]) ELSE Owed[x]
    BY <1>0, <1>a, <1>1, <1>6, <1>7
  <2> QED
    BY <1>f, <1>g, <1>3, <2>1
<1>9. UNCHANGED <<Held, Living>>
  BY <1>1, Unaffected
<1>10. s \in Living <=> life[s] # "closed"
  BY <1>3 DEF Living
<1> QED
  BY <1>1, <1>3, <1>5, <1>7, <1>8, <1>9, <1>10

(* Taking an operation is a step of PubSub if it has the effect it has     *)
(* there.                                                                  *)
LEMMA TakenTell ==
  ASSUME NEW o \in ChannelMsg,
         [before |-> Held, after |-> Held'] \in Changes(o),
         Owed' = Owing(Held, Owed, o), inbox' = inbox, Living' = Living
  PROVE  Taken!Tell(o) /\ Taken!Next
<1>1. Taken!Changes(o) = Changes(o)
  BY DEF Taken!Changes, Taken!TakenBack, Taken!SamePath, Taken!Registrations,
         Changes, TakenBack, SamePath, Registrations
<1>2. Taken!Owing(Held, Owed, o) = Owing(Held, Owed, o)
  BY DEF Taken!Owing, Taken!Copies, Owing, Copies
<1>3. Taken!Tell(o)
  BY <1>1, <1>2 DEF Taken!Tell
<1>4. o \in Taken!ChannelMsg
  BY DEF Taken!ChannelMsg, Taken!Payload, ChannelMsg, Payload
<1> QED
  BY <1>3, <1>4 DEF Taken!Next

(* Although the registry is a HashMap of Vecs and a publication is told to *)
(* one reference after the other while clients, subscribers and their      *)
(* termination go on, an operation acts as a whole when the channel takes  *)
(* it from its mailbox, and unsubscribing takes back a registration of the *)
(* actor's path and of no other (channel.rs recv, unsubscribe).            *)
THEOREM ChannelActsWhenTaken == Spec => ActsWhenTaken
<1>1. Init => Taken!Init
  <2> SUFFICES ASSUME Init PROVE Taken!Init
    OBVIOUS
  <2> QED
    BY InitEffect DEF Init, Taken!Init
<1>2. TypeOK /\ TypeOK' /\ [Next]_vars => [Taken!Next]_(Taken!vars)
  <2> SUFFICES ASSUME TypeOK, TypeOK', [Next]_vars
               PROVE  Taken!Next \/ UNCHANGED <<Held, Owed, inbox, Living>>
    BY DEF Taken!vars
  <2>1. ASSUME NEW o \in ClientMsg, Tell(o) PROVE UNCHANGED <<Held, Owed, inbox, Living>>
    BY <2>1, Unaffected DEF Tell
  <2>2. ASSUME Take PROVE Taken!Next
    BY <2>2, TakeEffect, TakenTell
  <2>c. ASSUME NEW s \in Subscriber, Create(s)
        PROVE  UNCHANGED <<Held, Owed, inbox, Living>>
    <3>1. /\ life[s] = "unborn" /\ life' = [life EXCEPT ![s] = "open"]
          /\ UNCHANGED <<subs, current, targets, inbox>>
      BY <2>c DEF Create
    <3>2. life \in [Subscriber -> {"unborn", "open", "flushing", "flushed", "closed"}]
      BY DEF TypeOK
    <3>3. UNCHANGED Living
      BY <3>1, <3>2 DEF Living
    <3> QED
      BY <3>1, <3>3, Unaffected
  <2>3. ASSUME TellTarget PROVE Taken!Next
    <3>1. PICK s \in Subscriber :
             /\ Owed[s] # <<>> /\ Head(Owed[s]) = current
             /\ Owed' = [Owed EXCEPT ![s] = Tail(@)]
             /\ Held' = Held /\ Living' = Living
             /\ \/ s \in Living /\ inbox' = [inbox EXCEPT ![s] = Append(@, current)]
                \/ s \notin Living /\ UNCHANGED inbox
      BY <2>3, TellEffect
    <3>2. Taken!Deliver(s) \/ Taken!Discard(s)
      BY <3>1 DEF Taken!Deliver, Taken!Discard
    <3> QED
      BY <3>2 DEF Taken!Next
  <2>4. ASSUME NEW s \in Subscriber, Handle(s) \/ Flush(s) PROVE Taken!Next
    <3>1. /\ inbox[s] # <<>> /\ inbox' = [inbox EXCEPT ![s] = Tail(@)]
          /\ UNCHANGED <<subs, current, targets, life>>
      BY <2>4 DEF Handle, Flush
    <3>2. UNCHANGED <<Held, Owed, Living>>
      BY <3>1, Unaffected
    <3>3. Taken!Handle(s)
      BY <3>1, <3>2 DEF Taken!Handle
    <3> QED
      BY <3>3 DEF Taken!Next
  <2>5. ASSUME NEW s \in Subscriber, Terminate(s) \/ Flushed(s)
        PROVE  UNCHANGED <<Held, Owed, inbox, Living>>
    <3>1. /\ life[s] # "closed"
          /\ \E l \in {"flushing", "flushed"} : life' = [life EXCEPT ![s] = l]
          /\ UNCHANGED <<subs, current, targets, inbox>>
      BY <2>5 DEF Terminate, Flushed
    <3>2. life \in [Subscriber -> {"unborn", "open", "flushing", "flushed", "closed"}]
      BY DEF TypeOK
    <3>3. UNCHANGED Living
      BY <3>1, <3>2 DEF Living
    <3> QED
      BY <3>1, <3>3, Unaffected
  <2>6. ASSUME NEW s \in Subscriber, Close(s) PROVE Taken!Next
    <3>1. /\ life' = [life EXCEPT ![s] = "closed"]
          /\ inbox' = [inbox EXCEPT ![s] = <<>>]
          /\ UNCHANGED <<subs, current, targets>>
      BY <2>6 DEF Close
    <3>2. life \in [Subscriber -> {"unborn", "open", "flushing", "flushed", "closed"}]
      BY DEF TypeOK
    <3>3. Living' = Living \ {s}
      BY <3>1, <3>2 DEF Living
    <3>4. UNCHANGED <<Held, Owed>>
      BY <3>1, Unaffected
    <3>5. Taken!Terminate(s)
      BY <3>1, <3>3, <3>4 DEF Taken!Terminate
    <3> QED
      BY <3>5 DEF Taken!Next
  <2>7. ASSUME UNCHANGED vars PROVE UNCHANGED <<Held, Owed, inbox, Living>>
    BY <2>7, Unaffected DEF vars
  <2> QED
    BY <2>1, <2>2, <2>3, <2>4, <2>5, <2>6, <2>7, <2>c DEF Next, ChannelStep, Take
<1>3. TypeOK /\ TypeOK' /\ [Next]_vars
        => [Len(mailbox') < Len(mailbox) => Taken!Tell(Head(mailbox))]_vars
  <2> SUFFICES ASSUME TypeOK, TypeOK', Next, Len(mailbox') < Len(mailbox)
               PROVE  Taken!Tell(Head(mailbox))
    OBVIOUS
  <2>1. mailbox \in Seq(ChannelMsg) /\ Len(mailbox) \in Nat
    BY LenProperties DEF TypeOK
  <2>2. ASSUME NEW o \in ChannelMsg, mailbox' = Append(mailbox, o) PROVE FALSE
    <3>1. Len(Append(mailbox, o)) = Len(mailbox) + 1
      BY <2>1, AppendProperties
    <3> QED
      BY <2>1, <2>2, <3>1
  <2>3. mailbox' # mailbox
    BY <2>1
  <2>4. ASSUME NEW o \in ClientMsg, Tell(o) PROVE FALSE
    BY <2>2, <2>4 DEF Tell, ClientMsg
  <2>5. ASSUME DeadLetters PROVE FALSE
    BY <2>2, <2>3, <2>5, DeadPublishType DEF DeadLetters
  <2>6. ASSUME TellTarget PROVE FALSE
    BY <2>3, <2>5, <2>6 DEF TellTarget
  <2>7. ASSUME NEW s \in Subscriber,
               Create(s) \/ Handle(s) \/ Terminate(s) \/ Flush(s) \/ Flushed(s) \/ Close(s)
        PROVE  FALSE
    BY <2>3, <2>5, <2>7 DEF Create, Handle, Terminate, Flush, Flushed, Close
  <2>8. Take
    BY <2>4, <2>6, <2>7 DEF Next, ChannelStep, Take
  <2> QED
    BY <2>8, TakeEffect, TakenTell
<1> QED
  BY <1>1, <1>2, <1>3, ChannelTypeOK, PTL DEF Spec, ActsWhenTaken, Taken!Spec

-----------------------------------------------------------------------------
(* Operations act when they are told                                       *)

Step(st, o) == Effect[st][o]

(* f[n] is the state after the first n operations of q from state b.       *)
RunTo(f, b, q, n) ==
    f = [k \in 0..n |-> IF k = 0 THEN b ELSE Step(f[k - 1], q[k])]

(* What a step does, and that it leads to a state.                         *)
LEMMA StepType ==
  ASSUME NEW st \in State, NEW o \in ChannelMsg
  PROVE  /\ Step(st, o) = [registry |-> Registry(st.registry, o),
                           owed |-> Owing(Counts[st.registry], st.owed, o)]
         /\ Step(st, o) \in State
<1>1. /\ st.registry \in [Topic -> Seq(Subscriber)]
      /\ st.owed \in [Subscriber -> Seq(Payload)]
  BY DEF State
<1>2. Step(st, o) = [registry |-> Registry(st.registry, o),
                     owed |-> Owing(Counts[st.registry], st.owed, o)]
  BY DEF Step, Effect
<1> DEFINE held == Counts[st.registry]
<1>3. held \in Registrations
  BY <1>1, CountsType
<1>4. Registry(st.registry, o) \in [Topic -> Seq(Subscriber)]
  BY <1>1, RegistryChange
<1> HIDE DEF held
<1>5. Owing(held, st.owed, o) \in [Subscriber -> Seq(Payload)]
  <2>1. CASE o.op # "Publish"
    BY <1>1, <2>1 DEF Owing
  <2>2. CASE o.op = "Publish"
    <3>1. o.topic \in Topic /\ o.msg \in Payload
      BY <2>2, OperationFields
    <3>2. \A s \in Subscriber : held[s][All] + held[s][o.topic] \in Nat
      BY <1>3, <3>1, TopicAssumption DEF Registrations
    <3>3. \A s \in Subscriber :
             Copies(o.msg, held[s][All] + held[s][o.topic]) \in Seq(Payload)
      BY <3>1, <3>2, CopiesOfOne
    <3>4. \A s \in Subscriber :
             st.owed[s] \o Copies(o.msg, held[s][All] + held[s][o.topic]) \in Seq(Payload)
      BY <1>1, <3>3, ConcatProperties
    <3>5. Owing(held, st.owed, o) =
             [s \in Subscriber |->
                st.owed[s] \o Copies(o.msg, held[s][All] + held[s][o.topic])]
      BY <2>2 DEF Owing
    <3> QED
      BY <3>4, <3>5
  <2> QED
    BY <2>1, <2>2
<1>6. [registry |-> Registry(st.registry, o), owed |-> Owing(held, st.owed, o)] \in State
  BY <1>4, <1>5 DEF State
<1> QED
  BY <1>2, <1>6 DEF held

(* What a run is, point by point.                                          *)
LEMMA RunPoints ==
  ASSUME NEW f, NEW b, NEW q, NEW n \in Nat, RunTo(f, b, q, n)
  PROVE  /\ f[0] = b
         /\ \A k \in 0..n : k < n => f[k + 1] = Step(f[k], q[k + 1])
<1>1. \A k \in 0..n : f[k] = IF k = 0 THEN b ELSE Step(f[k - 1], q[k])
  BY DEF RunTo
<1>2. f[0] = b
  BY <1>1
<1>3. ASSUME NEW k \in 0..n, k < n PROVE f[k + 1] = Step(f[k], q[k + 1])
  <2>1. k + 1 \in 0..n /\ k + 1 # 0 /\ (k + 1) - 1 = k
    BY <1>3
  <2>2. f[k + 1] = Step(f[(k + 1) - 1], q[k + 1])
    BY <1>1, <2>1
  <2> QED
    BY <2>1, <2>2
<1> QED
  BY <1>2, <1>3

(* There is a run over any operations.                                     *)
LEMMA RunExists ==
  ASSUME NEW b, NEW q, NEW n \in Nat
  PROVE  \E f : RunTo(f, b, q, n)
<1> DEFINE T == {k \in 0..n : \E f : RunTo(f, b, q, k)}
<1>1. 0 \in T
  <2>1. RunTo([k \in 0..0 |-> b], b, q, 0)
    BY DEF RunTo
  <2> QED
    BY <2>1
<1>2. ASSUME NEW m \in 0..n, m \in T, m < n PROVE m + 1 \in T
  <2>1. PICK f : RunTo(f, b, q, m)
    BY <1>2
  <2> DEFINE g == [k \in 0..(m + 1) |-> IF k = m + 1 THEN Step(f[m], q[m + 1]) ELSE f[k]]
  <2>2. \A k \in 0..m : f[k] = IF k = 0 THEN b ELSE Step(f[k - 1], q[k])
    BY <2>1 DEF RunTo
  <2>3. ASSUME NEW k \in 0..(m + 1)
        PROVE  g[k] = IF k = 0 THEN b ELSE Step(g[k - 1], q[k])
    <3>1. CASE k = m + 1
      <4>1. g[k] = Step(f[m], q[m + 1]) /\ g[k - 1] = f[m] /\ k # 0
        BY <3>1
      <4> QED
        BY <3>1, <4>1
    <3>2. CASE k \in 1..m
      <4>1. g[k] = f[k] /\ g[k - 1] = f[k - 1] /\ k # 0 /\ k \in 0..m
        BY <3>2
      <4> QED
        BY <2>2, <4>1
    <3>3. CASE k = 0
      <4>1. g[0] = f[0] /\ 0 \in 0..m
        BY <1>2
      <4> QED
        BY <2>2, <3>3, <4>1
    <3> QED
      BY <3>1, <3>2, <3>3
  <2>4. RunTo(g, b, q, m + 1)
    <3>1. g = [k \in 0..(m + 1) |-> g[k]]
      OBVIOUS
    <3> HIDE DEF g
    <3> QED
      BY <2>3, <3>1, Zenon DEF RunTo
  <2>5. m + 1 \in 0..n
    BY <1>2
  <2> HIDE DEF g
  <2> QED
    BY <2>4, <2>5
<1>3. \A k \in 0..n : k \in T
  <2> HIDE DEF T
  <2> QED
    BY <1>1, <1>2, InductionTo
<1>4. n \in T
  BY <1>3
<1> QED
  BY <1>4

(* A run leads from state to state.                                        *)
LEMMA RunType ==
  ASSUME NEW b \in State, NEW q \in Seq(ChannelMsg), NEW f, RunTo(f, b, q, Len(q))
  PROVE  \A k \in 0..Len(q) : f[k] \in State
<1> DEFINE T == {k \in 0..Len(q) : f[k] \in State}
<1>1. Len(q) \in Nat
  BY LenProperties
<1>2. /\ f[0] = b
      /\ \A k \in 0..Len(q) : k < Len(q) => f[k + 1] = Step(f[k], q[k + 1])
  BY <1>1, RunPoints
<1>3. 0 \in T
  BY <1>1, <1>2
<1>4. ASSUME NEW k \in 0..Len(q), k \in T, k < Len(q) PROVE k + 1 \in T
  <2>1. k + 1 \in 1..Len(q) /\ k + 1 \in 0..Len(q)
    BY <1>1, <1>4
  <2>2. q[k + 1] \in ChannelMsg
    BY <2>1, ElementOfSeq
  <2>3. Step(f[k], q[k + 1]) \in State
    BY <1>4, <2>2, StepType
  <2> QED
    BY <1>2, <1>4, <2>1, <2>3
<1>5. \A k \in 0..Len(q) : k \in T
  <2> HIDE DEF T
  <2> QED
    BY <1>1, <1>3, <1>4, InductionTo
<1> QED
  BY <1>5

(* Two runs from the same state over operations that agree.                *)
LEMMA RunAgree ==
  ASSUME NEW b, NEW p, NEW q, NEW m \in Nat, NEW n \in Nat, m <= n,
         NEW f, NEW g, RunTo(f, b, p, m), RunTo(g, b, q, n),
         \A k \in 1..m : p[k] = q[k]
  PROVE  f[m] = g[m]
<1> DEFINE T == {k \in 0..m : f[k] = g[k]}
<1>1. /\ f[0] = b
      /\ \A k \in 0..m : k < m => f[k + 1] = Step(f[k], p[k + 1])
  BY RunPoints
<1>2. /\ g[0] = b
      /\ \A k \in 0..n : k < n => g[k + 1] = Step(g[k], q[k + 1])
  BY RunPoints
<1>3. 0 \in T
  BY <1>1, <1>2
<1>4. ASSUME NEW k \in 0..m, k \in T, k < m PROVE k + 1 \in T
  <2>1. k \in 0..n /\ k < n /\ k + 1 \in 1..m /\ k + 1 \in 0..m
    BY <1>4
  <2>2. f[k + 1] = Step(f[k], p[k + 1]) /\ g[k + 1] = Step(g[k], q[k + 1])
    BY <1>1, <1>2, <1>4, <2>1
  <2>3. f[k] = g[k] /\ p[k + 1] = q[k + 1]
    BY <1>4, <2>1
  <2>4. f[k + 1] = g[k + 1]
    BY <2>2, <2>3, Zenon
  <2> QED
    BY <2>1, <2>4
<1>5. \A k \in 0..m : k \in T
  <2> HIDE DEF T
  <2> QED
    BY <1>3, <1>4, InductionTo
<1>6. m \in T
  BY <1>5
<1> QED
  BY <1>6

(* One more operation told is one more step at the end.                    *)
LEMMA RunAppend ==
  ASSUME NEW b, NEW q \in Seq(ChannelMsg), NEW o \in ChannelMsg, NEW f, NEW g,
         RunTo(f, b, q, Len(q)), RunTo(g, b, Append(q, o), Len(Append(q, o)))
  PROVE  g[Len(Append(q, o))] = Step(f[Len(q)], o)
<1> DEFINE r == Append(q, o)
           n == Len(q)
           m == n + 1
<1>1. /\ n \in Nat /\ Len(r) = m
      /\ \A k \in 1..n : q[k] = r[k]
      /\ r[m] = o
  BY LenProperties, AppendProperties
<1>2. m \in Nat /\ n <= m /\ n \in 0..m /\ n < m
  BY <1>1
<1>3. RunTo(f, b, q, n) /\ RunTo(g, b, r, m)
  BY <1>1
<1>4. f[n] = g[n]
  <2> HIDE DEF r, n, m
  <2> QED
    BY <1>1, <1>2, <1>3, RunAgree
<1>5. g[m] = Step(g[n], r[m])
  <2> HIDE DEF r, n
  <2>1. \A k \in 0..m : k < m => g[k + 1] = Step(g[k], r[k + 1])
    <3> HIDE DEF m
    <3> QED
      BY <1>2, <1>3, RunPoints
  <2> QED
    BY <1>2, <2>1
<1> HIDE DEF m
<1>6. g[Len(r)] = Step(f[n], o)
  BY <1>1, <1>4, <1>5, Zenon
<1> QED
  BY <1>6

(* An operation taken is one step less to go, from the state it leads to.  *)
LEMMA RunTail ==
  ASSUME NEW b, NEW q \in Seq(ChannelMsg), q # <<>>, NEW f, NEW g,
         RunTo(f, b, q, Len(q)),
         RunTo(g, Step(b, Head(q)), Tail(q), Len(Tail(q)))
  PROVE  g[Len(Tail(q))] = f[Len(q)]
<1> DEFINE n == Len(Tail(q))
           c == Step(b, Head(q))
           h == [k \in 0..n |-> f[k + 1]]
<1>1. /\ Len(q) \in Nat /\ Len(q) # 0 /\ n = Len(q) - 1
      /\ \A k \in 1..n : Tail(q)[k] = q[k + 1]
      /\ Head(q) = q[1]
  BY LenProperties, EmptySeq, HeadTailProperties
<1>2. n \in Nat /\ Len(q) = n + 1
  BY <1>1
<1>3. /\ f[0] = b
      /\ \A k \in 0..(n + 1) : k < n + 1 => f[k + 1] = Step(f[k], q[k + 1])
  BY <1>1, <1>2, RunPoints
<1>4. ASSUME NEW k \in 0..n PROVE h[k] = IF k = 0 THEN c ELSE Step(h[k - 1], Tail(q)[k])
  <2> HIDE DEF n
  <2>1. k \in 0..(n + 1) /\ k < n + 1
    BY <1>2
  <2>2. h[k] = Step(f[k], q[k + 1])
    BY <1>3, <2>1
  <2>3. CASE k = 0
    BY <1>1, <1>3, <2>2, <2>3
  <2>4. CASE k # 0
    <3>1. k - 1 \in 0..n /\ (k - 1) + 1 = k /\ k \in 1..n
      BY <1>2, <2>4
    <3>2. h[k - 1] = f[k] /\ Tail(q)[k] = q[k + 1]
      BY <1>1, <3>1
    <3> QED
      BY <2>2, <2>4, <3>2
  <2> QED
    BY <2>3, <2>4
<1>5. RunTo(h, c, Tail(q), n)
  <2>1. h = [k \in 0..n |-> h[k]]
    OBVIOUS
  <2> HIDE DEF h, c, n
  <2> QED
    BY <1>4, <2>1, Zenon DEF RunTo
<1>6. h[n] = g[n]
  <2> HIDE DEF h
  <2>1. RunTo(g, c, Tail(q), n) /\ n <= n /\ \A k \in 1..n : Tail(q)[k] = Tail(q)[k]
    BY <1>2
  <2> HIDE DEF c, n
  <2> QED
    BY <1>2, <1>5, <2>1, RunAgree
<1>7. h[n] = f[n + 1]
  BY <1>2
<1> QED
  BY <1>2, <1>6, <1>7

(* A debt paid before the operations in the mailbox act is paid after      *)
(* them: they only add to what is owed.                                    *)
Paid(st, s) == [registry |-> st.registry, owed |-> [st.owed EXCEPT ![s] = Tail(@)]]

(* For one operation.                                                      *)
LEMMA StepPaid ==
  ASSUME NEW st \in State, NEW o \in ChannelMsg, NEW s \in Subscriber,
         st.owed[s] # <<>>
  PROVE  /\ Step(Paid(st, s), o) = Paid(Step(st, o), s)
         /\ Step(st, o).owed[s] # <<>>
         /\ Head(Step(st, o).owed[s]) = Head(st.owed[s])
<1> DEFINE held == Counts[st.registry]
<1>0. st.registry \in [Topic -> Seq(Subscriber)] /\ st.owed \in [Subscriber -> Seq(Payload)]
  BY DEF State
<1>1. held \in [Subscriber -> [Topic -> Nat]] /\ st.owed \in [Subscriber -> Seq(Payload)]
  BY <1>0, CountsType DEF Registrations
<1>a. Tail(st.owed[s]) \in Seq(Payload)
  BY <1>0, HeadTailProperties
<1>b. /\ Paid(st, s) \in State
      /\ Paid(st, s).registry = st.registry
      /\ Paid(st, s).owed = [st.owed EXCEPT ![s] = Tail(@)]
  BY <1>0, <1>a DEF Paid, State
<1>c. Step(Paid(st, s), o) = [registry |-> Registry(Paid(st, s).registry, o),
                              owed |-> Owing(Counts[Paid(st, s).registry], Paid(st, s).owed, o)]
  BY <1>b, StepType
<1>d. Step(st, o) = [registry |-> Registry(st.registry, o), owed |-> Owing(held, st.owed, o)]
  BY StepType
<1>2. /\ Step(st, o).registry = Registry(st.registry, o)
      /\ Step(st, o).owed = Owing(held, st.owed, o)
  BY <1>d
<1> HIDE DEF held
<1>3. Owing(held, [st.owed EXCEPT ![s] = Tail(@)], o)
        = [Owing(held, st.owed, o) EXCEPT ![s] = Tail(@)]
      /\ Owing(held, st.owed, o)[s] # <<>>
      /\ Head(Owing(held, st.owed, o)[s]) = Head(st.owed[s])
  <2>1. CASE o.op # "Publish"
    BY <2>1 DEF Owing
  <2>2. CASE o.op = "Publish"
    <3> DEFINE C(x) == Copies(o.msg, held[x][All] + held[x][o.topic])
    <3>1. o.topic \in Topic /\ o.msg \in Payload
      BY <2>2, OperationFields
    <3>2. \A x \in Subscriber : C(x) \in Seq(Payload)
      <4>1. \A x \in Subscriber : held[x][All] + held[x][o.topic] \in Nat
        BY <1>1, <3>1, TopicAssumption
      <4> QED
        BY <3>1, <4>1, CopiesOfOne
    <3>3. \A w : Owing(held, w, o) = [x \in Subscriber |-> w[x] \o C(x)]
      BY <2>2 DEF Owing
    <3> HIDE DEF C
    <3>4. st.owed[s] \in Seq(Payload) /\ C(s) \in Seq(Payload)
      BY <1>1, <3>2
    <3>5. /\ Tail(st.owed[s] \o C(s)) = Tail(st.owed[s]) \o C(s)
          /\ Head(st.owed[s] \o C(s)) = Head(st.owed[s])
          /\ st.owed[s] \o C(s) # <<>>
      <4> DEFINE p == st.owed[s]
                 r == C(s)
      <4>1. p \in Seq(Payload) /\ r \in Seq(Payload) /\ p # <<>>
        BY <3>4
      <4> HIDE DEF p, r
      <4>2. /\ Tail(p \o r) = Tail(p) \o r
            /\ Head(p \o r) = Head(p)
            /\ p \o r # <<>>
        BY <4>1
      <4> QED
        BY <4>2 DEF p, r
    <3>6. \A x \in Subscriber :
             [st.owed EXCEPT ![s] = Tail(@)][x] \o C(x)
               = IF x = s THEN Tail(st.owed[s]) \o C(s) ELSE st.owed[x] \o C(x)
      BY <1>1
    <3>7. Owing(held, [st.owed EXCEPT ![s] = Tail(@)], o)
            = [x \in Subscriber |-> [st.owed EXCEPT ![s] = Tail(@)][x] \o C(x)]
      BY <3>3
    <3>8. Owing(held, st.owed, o) = [x \in Subscriber |-> st.owed[x] \o C(x)]
      BY <3>3
    <3>9. [Owing(held, st.owed, o) EXCEPT ![s] = Tail(@)]
            = [x \in Subscriber |->
                 IF x = s THEN Tail(st.owed[s] \o C(s)) ELSE st.owed[x] \o C(x)]
      BY <3>8
    <3>10. Owing(held, st.owed, o)[s] = st.owed[s] \o C(s)
      BY <3>8
    <3>11. Owing(held, [st.owed EXCEPT ![s] = Tail(@)], o)
             = [Owing(held, st.owed, o) EXCEPT ![s] = Tail(@)]
      <4> DEFINE A(x) == [st.owed EXCEPT ![s] = Tail(@)][x] \o C(x)
                 B(x) == IF x = s THEN Tail(st.owed[s] \o C(s)) ELSE st.owed[x] \o C(x)
      <4>1. \A x \in Subscriber : A(x) = B(x)
        BY <3>5, <3>6, Zenon
      <4>2. /\ Owing(held, [st.owed EXCEPT ![s] = Tail(@)], o)
                  = [x \in Subscriber |-> A(x)]
            /\ [Owing(held, st.owed, o) EXCEPT ![s] = Tail(@)]
                  = [x \in Subscriber |-> B(x)]
        BY <3>7, <3>9, Zenon
      <4> HIDE DEF A, B
      <4>3. [x \in Subscriber |-> A(x)] = [x \in Subscriber |-> B(x)]
        BY <4>1, Zenon
      <4> QED
        BY <4>2, <4>3, Zenon
    <3> QED
      BY <3>5, <3>10, <3>11, Zenon
  <2> QED
    BY <2>1, <2>2
<1>4. Step(Paid(st, s), o)
        = [registry |-> Registry(st.registry, o),
           owed |-> Owing(held, [st.owed EXCEPT ![s] = Tail(@)], o)]
  BY <1>b, <1>c, Zenon DEF held
<1>5. Paid(Step(st, o), s)
        = [registry |-> Registry(st.registry, o),
           owed |-> [Owing(held, st.owed, o) EXCEPT ![s] = Tail(@)]]
  BY <1>2, Zenon DEF Paid
<1> QED
  BY <1>2, <1>3, <1>4, <1>5, Zenon

(* For all of them.                                                        *)
LEMMA RunPaid ==
  ASSUME NEW b \in State, NEW q \in Seq(ChannelMsg), NEW f, NEW g,
         NEW s \in Subscriber, b.owed[s] # <<>>,
         RunTo(f, b, q, Len(q)), RunTo(g, Paid(b, s), q, Len(q))
  PROVE  /\ g[Len(q)] = Paid(f[Len(q)], s)
         /\ f[Len(q)].owed[s] # <<>>
         /\ Head(f[Len(q)].owed[s]) = Head(b.owed[s])
<1> DEFINE P(k) == /\ g[k] = Paid(f[k], s)
                   /\ f[k].owed[s] # <<>>
                   /\ Head(f[k].owed[s]) = Head(b.owed[s])
           T == {k \in 0..Len(q) : P(k)}
<1>1. Len(q) \in Nat
  BY LenProperties
<1>2. /\ f[0] = b
      /\ \A k \in 0..Len(q) : k < Len(q) => f[k + 1] = Step(f[k], q[k + 1])
  BY <1>1, RunPoints
<1>3. /\ g[0] = Paid(b, s)
      /\ \A k \in 0..Len(q) : k < Len(q) => g[k + 1] = Step(g[k], q[k + 1])
  BY <1>1, RunPoints
<1>4. \A k \in 0..Len(q) : f[k] \in State
  BY RunType
<1>5. 0 \in T
  BY <1>1, <1>2, <1>3
<1>6. ASSUME NEW k \in 0..Len(q), k \in T, k < Len(q) PROVE k + 1 \in T
  <2>1. P(k)
    BY <1>6
  <2>2. k + 1 \in 0..Len(q) /\ k + 1 \in 1..Len(q)
    BY <1>1, <1>6
  <2>3. q[k + 1] \in ChannelMsg
    BY <2>2, ElementOfSeq
  <2>4. f[k + 1] = Step(f[k], q[k + 1]) /\ g[k + 1] = Step(g[k], q[k + 1])
    BY <1>2, <1>3, <1>6
  <2>5. /\ Step(Paid(f[k], s), q[k + 1]) = Paid(Step(f[k], q[k + 1]), s)
        /\ Step(f[k], q[k + 1]).owed[s] # <<>>
        /\ Head(Step(f[k], q[k + 1]).owed[s]) = Head(f[k].owed[s])
    BY <1>4, <2>1, <2>3, StepPaid
  <2>6. P(k + 1)
    BY <2>1, <2>4, <2>5, Zenon
  <2> HIDE DEF P
  <2> QED
    BY <2>2, <2>6
<1>7. \A k \in 0..Len(q) : k \in T
  <2> HIDE DEF T
  <2> QED
    BY <1>1, <1>5, <1>6, InductionTo
<1>8. Len(q) \in T
  BY <1>1, <1>7
<1> QED
  BY <1>8

(* The state of PubSub is where the operations in the mailbox lead.        *)
Base == [registry |-> subs, owed |-> Owed]

(* In every state of the channel.                                          *)
LEMMA AppliedIsRun ==
  ASSUME TypeOK
  PROVE  /\ Base \in State
         /\ RunTo(After, Base, mailbox, Len(mailbox))
<1>1. mailbox \in Seq(ChannelMsg) /\ Len(mailbox) \in Nat
  BY LenProperties DEF TypeOK
<1>2. Base \in State
  <2>1. \A s \in Subscriber : Count(targets, s) \in Nat
    BY HeldOwed
  <2>2. current \in Payload /\ subs \in [Topic -> Seq(Subscriber)]
    BY DEF TypeOK
  <2>3. \A s \in Subscriber : Copies(current, Count(targets, s)) \in Seq(Payload)
    BY <2>1, <2>2, CopiesOfOne
  <2>4. Owed \in [Subscriber -> Seq(Payload)]
    BY <2>3 DEF Owed
  <2> QED
    BY <2>2, <2>4 DEF Base, State
<1>3. After = CHOOSE f : RunTo(f, Base, mailbox, Len(mailbox))
  BY Zenon DEF After, RunTo, Step, Base
<1>4. \E f : RunTo(f, Base, mailbox, Len(mailbox))
  BY <1>1, RunExists
<1> QED
  BY <1>2, <1>3, <1>4, Zenon

(* The same in the next state.                                             *)
LEMMA NextAppliedIsRun ==
  TypeOK' => /\ Base' \in State
             /\ RunTo(After', Base', mailbox', Len(mailbox'))
<1>1. TypeOK => Base \in State /\ RunTo(After, Base, mailbox, Len(mailbox))
  BY AppliedIsRun
<1>2. TypeOK' => (Base \in State /\ RunTo(After, Base, mailbox, Len(mailbox)))'
  BY <1>1, PTL
<1>3. (Base \in State)' => Base' \in State
  BY DEF State, Payload
<1>4. RunTo(After, Base, mailbox, Len(mailbox))'
        => RunTo(After', Base', mailbox', Len(mailbox'))
  BY DEF RunTo, Step
<1> QED
  BY <1>2, <1>3, <1>4

(* Telling an operation is a step of PubSub if it has the effect it has    *)
(* there on what the operations in the mailbox lead to.                    *)
LEMMA AbstractTell ==
  ASSUME NEW o \in ChannelMsg, Applied \in State, Applied' = Step(Applied, o),
         inbox' = inbox, Living' = Living
  PROVE  Abstract!Tell(o) /\ Abstract!Next
<1> DEFINE held == Counts[Applied.registry]
           next == Counts[Registry(Applied.registry, o)]
<1>1. Applied.registry \in [Topic -> Seq(Subscriber)]
  BY DEF State
<1>2. /\ Applied'.registry = Registry(Applied.registry, o)
      /\ Applied'.owed = Owing(held, Applied.owed, o)
  BY StepType
<1>3. [before |-> held, after |-> next] \in Changes(o)
  BY <1>1, RegistryChange
<1>4. Abstract!Changes(o) = Changes(o)
  BY DEF Abstract!Changes, Abstract!TakenBack, Abstract!SamePath, Abstract!Registrations,
         Changes, TakenBack, SamePath, Registrations
<1>5. Counts[Applied'.registry] = next
  BY <1>2
<1>6. Abstract!Owing(held, Applied.owed, o) = Owing(held, Applied.owed, o)
  BY DEF Abstract!Owing, Abstract!Copies, Owing, Copies
<1>7. Abstract!Tell(o)
  BY <1>2, <1>3, <1>4, <1>5, <1>6 DEF Abstract!Tell
<1>8. o \in Abstract!ChannelMsg
  BY DEF Abstract!ChannelMsg, Abstract!Payload, ChannelMsg, Payload
<1> QED
  BY <1>7, <1>8 DEF Abstract!Next

(* An operation told is applied after those in the mailbox.                *)
LEMMA ToldEffect ==
  ASSUME TypeOK, TypeOK', NEW o \in ChannelMsg, mailbox' = Append(mailbox, o),
         UNCHANGED <<subs, current, targets>>
  PROVE  Applied \in State /\ Applied' = Step(Applied, o)
<1>1. /\ mailbox \in Seq(ChannelMsg)
      /\ Base \in State /\ RunTo(After, Base, mailbox, Len(mailbox))
  BY AppliedIsRun DEF TypeOK
<1>2. Base' = Base
  BY Unaffected DEF Base
<1>3. RunTo(After', Base, Append(mailbox, o), Len(Append(mailbox, o)))
  BY <1>2, NextAppliedIsRun
<1>4. After'[Len(Append(mailbox, o))] = Step(After[Len(mailbox)], o)
  BY <1>1, <1>3, RunAppend
<1>5. \A k \in 0..Len(mailbox) : After[k] \in State
  BY <1>1, RunType
<1>6. Len(mailbox) \in 0..Len(mailbox)
  BY <1>1, LenProperties
<1> QED
  BY <1>4, <1>5, <1>6 DEF Applied

(* An operation acts as if it took place when it was told: every           *)
(* subscriber gets each message once per registration it held at that      *)
(* moment, in order of publication, and unsubscribing takes back a         *)
(* registration of the actor's path and of no other (channel.rs recv).     *)
THEOREM ChannelImplementsPubSub == Spec => ImplementsPubSub
<1>1. TypeOK /\ Init => Abstract!Init
  <2> SUFFICES ASSUME TypeOK, Init PROVE Abstract!Init
    OBVIOUS
  <2>1. Len(mailbox) = 0 /\ 0 \in Nat
    BY DEF Init
  <2>2. RunTo(After, Base, mailbox, 0)
    BY <2>1, AppliedIsRun
  <2>3. After[0] = Base
    BY <2>2, RunPoints
  <2>4. Counts[Applied.registry] = Held /\ Applied.owed = Owed
    BY <2>1, <2>3 DEF Applied, Base, Held
  <2> QED
    BY <2>4, InitEffect DEF Init, Abstract!Init
<1>2. TypeOK /\ TypeOK' /\ [Next]_vars => [Abstract!Next]_(Abstract!vars)
  <2> SUFFICES ASSUME TypeOK, TypeOK', [Next]_vars
               PROVE  Abstract!Next \/ UNCHANGED <<Counts[Applied.registry], Applied.owed, inbox, Living>>
    BY DEF Abstract!vars
  <2> DEFINE n == Len(mailbox)
  <2>a. /\ mailbox \in Seq(ChannelMsg) /\ n \in Nat
        /\ Base \in State /\ RunTo(After, Base, mailbox, n)
    BY AppliedIsRun, LenProperties DEF TypeOK
  <2>b. RunTo(After', Base', mailbox', Len(mailbox'))
    BY NextAppliedIsRun
  <2>c. Applied = After[n] /\ Applied' = After'[Len(mailbox')]
    BY DEF Applied
  <2>d. UNCHANGED <<subs, current, targets>> => UNCHANGED <<Base, Owed>>
    BY Unaffected DEF Base
  <2>h. Applied \in State
    BY <2>a, <2>c, RunType DEF n
  <2> HIDE DEF n
  \* Nothing told and nothing taken or paid.
  <2>e. ASSUME UNCHANGED <<subs, current, targets, mailbox>> PROVE Applied' = Applied
    <3>1. RunTo(After', Base, mailbox, n) /\ n <= n /\ \A k \in 1..n : mailbox[k] = mailbox[k]
      BY <2>a, <2>b, <2>d, <2>e DEF n
    <3>2. After[n] = After'[n]
      BY <2>a, <3>1, RunAgree
    <3> QED
      BY <2>c, <2>e, <3>2 DEF n
  \* One operation told.
  <2>f. ASSUME UNCHANGED <<subs, current, targets>>, NEW o \in ChannelMsg,
               mailbox' = Append(mailbox, o)
        PROVE  Applied' = Step(Applied, o)
    BY <2>f, ToldEffect
  <2>g. \A o \in ChannelMsg :
           /\ Step(Applied, o).registry = Registry(Applied.registry, o)
           /\ Step(Applied, o).owed = Owing(Counts[Applied.registry], Applied.owed, o)
    BY <2>h, StepType
  <2>i. Registry(Applied.registry, DeadPublish) = Applied.registry
    BY DEF Registry, DeadPublish
  <2>1. ASSUME NEW o \in ClientMsg, Tell(o) PROVE Abstract!Next
    <3>1. o \in ChannelMsg
      BY <2>1 DEF ClientMsg
    <3>2. UNCHANGED <<subs, current, targets, inbox, Living>> /\ mailbox' = Append(mailbox, o)
      BY <2>1, Unaffected DEF Tell
    <3>3. Applied' = Step(Applied, o)
      BY <2>f, <3>1, <3>2
    <3> QED
      BY <2>h, <3>1, <3>2, <3>3, AbstractTell
  <2>2. ASSUME Take PROVE UNCHANGED <<Counts[Applied.registry], Applied.owed, inbox, Living>>
    <3>1. /\ Head(mailbox) \in ChannelMsg
          /\ subs' = Registry(subs, Head(mailbox))
          /\ Owed' = Owing(Held, Owed, Head(mailbox))
          /\ inbox' = inbox /\ Living' = Living
          /\ mailbox # <<>> /\ mailbox' = Tail(mailbox)
      BY <2>2, TakeEffect
    <3>2. Base' = Step(Base, Head(mailbox))
      <4>1. Base.registry = subs /\ Base.owed = Owed
        BY DEF Base
      <4>2. Step(Base, Head(mailbox))
              = [registry |-> Registry(subs, Head(mailbox)),
                 owed |-> Owing(Held, Owed, Head(mailbox))]
        BY <2>a, <3>1, <4>1, StepType DEF Held
      <4> QED
        BY <3>1, <4>2 DEF Base
    <3>3. RunTo(After', Step(Base, Head(mailbox)), Tail(mailbox), Len(Tail(mailbox)))
      BY <2>b, <3>1, <3>2
    <3>4. After'[Len(Tail(mailbox))] = After[n]
      BY <2>a, <3>1, <3>3, RunTail DEF n
    <3>5. Applied' = Applied
      BY <2>c, <3>1, <3>4
    <3> QED
      BY <3>1, <3>5
  <2>3. ASSUME TellTarget PROVE Abstract!Next
    <3>1. PICK s \in Subscriber :
             /\ Owed[s] # <<>> /\ Head(Owed[s]) = current
             /\ Owed' = [Owed EXCEPT ![s] = Tail(@)]
             /\ UNCHANGED subs /\ Living' = Living
             /\ \/ /\ s \in Living
                   /\ inbox' = [inbox EXCEPT ![s] = Append(@, current)]
                   /\ UNCHANGED mailbox
                \/ s \notin Living /\ DeadLetters /\ UNCHANGED inbox
      BY <2>3, TellEffect
    <3>2. Base' = Paid(Base, s) /\ Base.owed = Owed
      BY <3>1 DEF Base, Paid
    <3>3. PICK h : RunTo(h, Paid(Base, s), mailbox, n)
      BY <2>a, RunExists
    <3>4. /\ h[n] = Paid(Applied, s)
          /\ Applied.owed[s] # <<>> /\ Head(Applied.owed[s]) = current
      <4>1. /\ mailbox \in Seq(ChannelMsg) /\ Base \in State /\ Base.owed[s] # <<>>
            /\ RunTo(After, Base, mailbox, Len(mailbox))
            /\ RunTo(h, Paid(Base, s), mailbox, Len(mailbox))
        BY <2>a, <3>1, <3>2, <3>3, Zenon DEF n
      <4>2. /\ h[Len(mailbox)] = Paid(After[Len(mailbox)], s)
            /\ After[Len(mailbox)].owed[s] # <<>>
            /\ Head(After[Len(mailbox)].owed[s]) = Head(Base.owed[s])
        BY <4>1, RunPaid
      <4> QED
        BY <2>c, <3>1, <3>2, <4>2, Zenon DEF n
    <3>5. /\ Paid(Applied, s).registry = Applied.registry
          /\ Paid(Applied, s).owed = [Applied.owed EXCEPT ![s] = Tail(@)]
      BY DEF Paid
    <3>6. CASE UNCHANGED mailbox
      <4>1. /\ RunTo(After', Paid(Base, s), mailbox, n) /\ n <= n
            /\ \A k \in 1..n : mailbox[k] = mailbox[k]
        BY <2>a, <2>b, <3>2, <3>6 DEF n
      <4>2. h[n] = After'[n]
        BY <2>a, <3>3, <4>1, RunAgree
      <4>3. Applied' = Paid(Applied, s)
        BY <2>c, <3>4, <3>6, <4>2 DEF n
      <4>4. Abstract!Deliver(s) \/ Abstract!Discard(s)
        BY <3>1, <3>4, <3>5, <4>3 DEF Abstract!Deliver, Abstract!Discard
      <4> QED
        BY <4>4 DEF Abstract!Next
    <3>7. CASE mailbox' # mailbox
      <4>1. /\ s \notin Living /\ UNCHANGED inbox
            /\ mailbox' = Append(mailbox, DeadPublish)
        BY <3>1, <3>7 DEF DeadLetters
      <4>2. RunTo(After', Paid(Base, s), Append(mailbox, DeadPublish),
                  Len(Append(mailbox, DeadPublish)))
        BY <2>b, <3>2, <4>1
      <4>3. After'[Len(Append(mailbox, DeadPublish))] = Step(h[n], DeadPublish)
        BY <2>a, <3>3, <4>2, DeadPublishType, RunAppend DEF n
      <4>4. Applied' = Step(Paid(Applied, s), DeadPublish)
        BY <2>c, <3>4, <4>1, <4>3
      <4>6. Paid(Applied, s) \in State
        <5>1. Applied.owed \in [Subscriber -> Seq(Payload)]
          BY <2>h DEF State
        <5>2. Tail(Applied.owed[s]) \in Seq(Payload)
          BY <3>4, <5>1, HeadTailProperties
        <5> QED
          BY <2>h, <5>1, <5>2 DEF Paid, State
      <4>5. /\ Applied'.registry = Applied.registry
            /\ Applied'.owed = Owing(Counts[Applied.registry],
                                     [Applied.owed EXCEPT ![s] = Tail(@)], DeadPublish)
        BY <2>i, <3>5, <4>4, <4>6, DeadPublishType, StepType
      <4>7. Abstract!Discard(s)
        BY <3>1, <3>4, <4>1, <4>5
           DEF Abstract!Discard, Abstract!Owing, Abstract!Copies, Abstract!DeadPublish,
               Owing, Copies, DeadPublish
      <4> QED
        BY <4>7 DEF Abstract!Next
    <3> QED
      BY <3>6, <3>7
  <2>4. ASSUME NEW s \in Subscriber, Handle(s) PROVE Abstract!Next
    <3>1. /\ inbox[s] # <<>> /\ inbox' = [inbox EXCEPT ![s] = Tail(@)]
          /\ UNCHANGED <<subs, current, targets, Living, mailbox>>
      BY <2>4, Unaffected DEF Handle
    <3>2. Applied' = Applied
      BY <2>e, <3>1
    <3>3. Abstract!Handle(s)
      BY <3>1, <3>2 DEF Abstract!Handle
    <3> QED
      BY <3>3 DEF Abstract!Next
  <2>5. ASSUME NEW s \in Subscriber, Flush(s) PROVE Abstract!Next
    <3>1. /\ inbox[s] # <<>> /\ inbox' = [inbox EXCEPT ![s] = Tail(@)]
          /\ UNCHANGED <<subs, current, targets, Living>>
          /\ s \in Living
      BY <2>5, Unaffected DEF Flush, Living
    <3>2. CASE UNCHANGED mailbox
      <4>1. Applied' = Applied
        BY <2>e, <3>1, <3>2
      <4>2. Abstract!Handle(s)
        BY <3>1, <4>1 DEF Abstract!Handle
      <4> QED
        BY <4>2 DEF Abstract!Next
    <3>3. CASE mailbox' # mailbox
      <4>1. mailbox' = Append(mailbox, DeadPublish)
        BY <2>5, <3>3 DEF Flush, DeadLetters
      <4>2. Applied' = Step(Applied, DeadPublish)
        BY <2>f, <3>1, <4>1, DeadPublishType
      <4>3. /\ Applied'.registry = Applied.registry
            /\ Applied'.owed = Owing(Counts[Applied.registry], Applied.owed, DeadPublish)
        BY <2>g, <2>i, <4>2, DeadPublishType
      <4>4. Abstract!Flush(s)
        BY <3>1, <4>3
           DEF Abstract!Flush, Abstract!Owing, Abstract!Copies, Abstract!DeadPublish,
               Owing, Copies, DeadPublish
      <4> QED
        BY <4>4 DEF Abstract!Next
    <3> QED
      BY <3>2, <3>3
  <2>6. ASSUME NEW s \in Subscriber, Create(s) \/ Terminate(s) \/ Flushed(s)
        PROVE  UNCHANGED <<Counts[Applied.registry], Applied.owed, inbox, Living>>
    <3>1. /\ life[s] # "closed"
          /\ \E l \in {"open", "flushing", "flushed"} : life' = [life EXCEPT ![s] = l]
          /\ UNCHANGED <<mailbox, subs, current, targets, inbox>>
      BY <2>6 DEF Create, Terminate, Flushed
    <3>2. life \in [Subscriber -> {"unborn", "open", "flushing", "flushed", "closed"}]
      BY DEF TypeOK
    <3>3. UNCHANGED Living
      BY <3>1, <3>2 DEF Living
    <3>4. Applied' = Applied
      BY <2>e, <3>1, Unaffected
    <3> QED
      BY <3>1, <3>3, <3>4
  <2>7. ASSUME NEW s \in Subscriber, Close(s) PROVE Abstract!Next
    <3>1. /\ life' = [life EXCEPT ![s] = "closed"]
          /\ inbox' = [inbox EXCEPT ![s] = <<>>]
          /\ UNCHANGED <<mailbox, subs, current, targets>>
      BY <2>7 DEF Close
    <3>2. life \in [Subscriber -> {"unborn", "open", "flushing", "flushed", "closed"}]
      BY DEF TypeOK
    <3>3. Living' = Living \ {s}
      BY <3>1, <3>2 DEF Living
    <3>4. Applied' = Applied
      BY <2>e, <3>1, Unaffected
    <3>5. Abstract!Terminate(s)
      BY <3>1, <3>3, <3>4 DEF Abstract!Terminate
    <3> QED
      BY <3>5 DEF Abstract!Next
  <2>8. ASSUME UNCHANGED vars PROVE UNCHANGED <<Counts[Applied.registry], Applied.owed, inbox, Living>>
    <3>1. UNCHANGED <<subs, current, targets, mailbox, inbox, Living>>
      BY <2>8, Unaffected DEF vars
    <3>2. Applied' = Applied
      BY <2>e, <3>1
    <3> QED
      BY <3>1, <3>2
  <2> QED
    BY <2>1, <2>2, <2>3, <2>4, <2>5, <2>6, <2>7, <2>8 DEF Next, ChannelStep, Take
<1>3. TypeOK /\ TypeOK' /\ [Next]_vars
        => [tells' # tells => Abstract!Tell(Last(mailbox'))]_vars
  <2> SUFFICES ASSUME TypeOK, TypeOK', Next, tells' # tells
               PROVE  Abstract!Tell(Last(mailbox'))
    OBVIOUS
  <2>1. PICK o \in ClientMsg : Tell(o)
    BY DEF Next, ChannelStep, ReceiveSubscribe, ReceiveUnsubscribe, ReceiveUnsubscribeAll,
           ReceivePublish, Receive, TellTarget, Create, Handle, Terminate, Flush, Flushed, Close
  <2>2. o \in ChannelMsg
    BY DEF ClientMsg
  <2>3. mailbox \in Seq(ChannelMsg) /\ mailbox' = Append(mailbox, o)
    BY <2>1 DEF Tell, TypeOK
  <2>4. Last(mailbox') = o
    BY <2>2, <2>3 DEF Last
  <2>5. UNCHANGED <<subs, current, targets, inbox, Living>>
    BY <2>1, Unaffected DEF Tell
  <2>6. Applied \in State /\ Applied' = Step(Applied, o)
    BY <2>2, <2>3, <2>5, ToldEffect
  <2>7. Abstract!Tell(o)
    BY <2>2, <2>5, <2>6, AbstractTell
  <2> QED
    BY <2>4, <2>7
<1> QED
  BY <1>1, <1>2, <1>3, ChannelTypeOK, PTL DEF Spec, ImplementsPubSub, Abstract!Spec
=============================================================================
