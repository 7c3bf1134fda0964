------------------------- MODULE MailPipelineProofs -------------------------
(***************************************************************************)
(* What the mail pipeline guarantees for every set of mails, every number  *)
(* of crashes and every limit on how often a stalled job is put back.      *)
(***************************************************************************)
EXTENDS MailPipeline, SequenceTheorems, FiniteSetTheorems, TLAPS

-----------------------------------------------------------------------------
(* How many copies of a mail a sequence of mails holds.                    *)

Places(s, m) == {i \in 1..Len(s) : s[i] = m}

LEMMA PlacesAreFinite ==
    ASSUME NEW s \in Seq(Mail), NEW m
    PROVE  IsFiniteSet(Places(s, m)) /\ Copies(s, m) \in Nat
  <1>1. IsFiniteSet(1..Len(s))
    BY LenProperties, FS_Interval
  <1>2. Places(s, m) \in SUBSET (1..Len(s))
    BY DEF Places
  <1>3. IsFiniteSet(Places(s, m))
    BY <1>1, <1>2, FS_Subset
  <1>4. Cardinality(Places(s, m)) \in Nat
    BY <1>3, FS_CardinalityType
  <1> QED  BY <1>3, <1>4 DEF Copies, Places

LEMMA CopiesAreNat ==
    ASSUME NEW s \in Seq(Mail), NEW m
    PROVE  Copies(s, m) \in Nat
  BY PlacesAreFinite

LEMMA NoCopies ==
    ASSUME NEW s \in Seq(Mail), NEW m
    PROVE  Copies(s, m) = 0 <=> m \notin Elements(s)
  <1>1. Copies(s, m) = 0 <=> Places(s, m) = {}
    BY PlacesAreFinite, FS_EmptySet DEF Copies, Places
  <1> QED  BY <1>1 DEF Places, Elements

LEMMA CopiesOfNothing ==
    ASSUME NEW m
    PROVE  Copies(<<>>, m) = 0 /\ Elements(<<>>) = {}
  <1>1. <<>> \in Seq(Mail) /\ Elements(<<>>) = {}
    BY DEF Elements
  <1> QED  BY <1>1, NoCopies

LEMMA CopiesOfOne ==
    ASSUME NEW x \in Mail, NEW m
    PROVE  Copies(<<x>>, m) = IF x = m THEN 1 ELSE 0
  <1>1. <<x>> \in Seq(Mail) /\ Len(<<x>>) = 1 /\ <<x>>[1] = x
    OBVIOUS
  <1>2. Places(<<x>>, m) = IF x = m THEN {1} ELSE {}
    BY <1>1 DEF Places
  <1>3. Cardinality({1}) = 1 /\ Cardinality({}) = 0
    BY FS_Singleton, FS_EmptySet
  <1> QED  BY <1>2, <1>3 DEF Copies, Places

(* The copies in what is put together are those in its parts.              *)
LEMMA CopiesOfConcat ==
    ASSUME NEW s \in Seq(Mail), NEW t \in Seq(Mail), NEW m
    PROVE  /\ s \o t \in Seq(Mail)
           /\ Copies(s \o t, m) = Copies(s, m) + Copies(t, m)
  <1> DEFINE A == Places(s, m)
             B == Places(t, m)
             C == {j \in (Len(s) + 1)..(Len(s) + Len(t)) : t[j - Len(s)] = m}
             f == [i \in B |-> i + Len(s)]
  <1>1. Len(s) \in Nat /\ Len(t) \in Nat
    BY LenProperties
  <1>2. /\ s \o t \in Seq(Mail) /\ Len(s \o t) = Len(s) + Len(t)
        /\ \A i \in 1..(Len(s) + Len(t)) :
              (s \o t)[i] = IF i <= Len(s) THEN s[i] ELSE t[i - Len(s)]
    BY ConcatProperties
  <1>3. Places(s \o t, m) = A \cup C
    BY <1>1, <1>2 DEF Places
  <1>4. A \cap C = {}
    BY <1>1 DEF Places
  <1>5. IsFiniteSet(A) /\ IsFiniteSet(B)
    BY PlacesAreFinite
  <1>6. f \in Bijection(B, C)
    <2>1. f \in [B -> C]
      BY <1>1 DEF Places
    <2>2. \A i, j \in B : f[i] = f[j] => i = j
      BY <1>1 DEF Places
    <2>3. \A j \in C : \E i \in B : f[i] = j
      <3> SUFFICES ASSUME NEW j \in C
                   PROVE  \E i \in B : f[i] = j
        OBVIOUS
      <3>1. j - Len(s) \in B
        BY <1>1 DEF Places
      <3>2. f[j - Len(s)] = j
        BY <1>1, <3>1
      <3> QED  BY <3>1, <3>2
    <2> QED  BY <2>1, <2>2, <2>3 DEF Bijection, Injection, IsInjective, Surjection
  <1>7. IsFiniteSet(C) /\ Cardinality(C) = Cardinality(B)
    BY <1>5, <1>6, FS_Bijection DEF ExistsBijection
  <1>8. Cardinality(A \cup C) = Cardinality(A) + Cardinality(C) - Cardinality(A \cap C)
    BY <1>5, <1>7, FS_Union
  <1>9. Cardinality(A \cap C) = 0
    BY <1>4, FS_EmptySet
  <1>10. Cardinality(A) \in Nat /\ Cardinality(B) \in Nat
    BY <1>5, FS_CardinalityType
  <1>11. Cardinality(A \cup C) = Cardinality(A) + Cardinality(B)
    BY <1>7, <1>8, <1>9, <1>10
  <1> QED  BY <1>2, <1>3, <1>11 DEF Copies, Places

LEMMA CopiesOfAppend ==
    ASSUME NEW s \in Seq(Mail), NEW x \in Mail, NEW m
    PROVE  /\ Append(s, x) \in Seq(Mail)
           /\ Copies(Append(s, x), m) = Copies(s, m) + (IF x = m THEN 1 ELSE 0)
  <1>1. Append(s, x) = s \o <<x>> /\ <<x>> \in Seq(Mail)
    BY AppendIsConcat
  <1>2. /\ s \o <<x>> \in Seq(Mail)
        /\ Copies(s \o <<x>>, m) = Copies(s, m) + Copies(<<x>>, m)
    BY <1>1, CopiesOfConcat
  <1>3. Copies(<<x>>, m) = IF x = m THEN 1 ELSE 0
    BY CopiesOfOne
  <1> QED  BY <1>1, <1>2, <1>3

LEMMA CopiesOfCons ==
    ASSUME NEW s \in Seq(Mail), NEW x \in Mail, NEW m
    PROVE  /\ <<x>> \o s \in Seq(Mail)
           /\ Copies(<<x>> \o s, m) = Copies(s, m) + (IF x = m THEN 1 ELSE 0)
  <1>1. <<x>> \in Seq(Mail)
    OBVIOUS
  <1>2. Copies(s, m) \in Nat
    BY CopiesAreNat
  <1>3. /\ <<x>> \o s \in Seq(Mail)
        /\ Copies(<<x>> \o s, m) = Copies(<<x>>, m) + Copies(s, m)
    BY <1>1, CopiesOfConcat
  <1>4. Copies(<<x>>, m) = IF x = m THEN 1 ELSE 0
    BY CopiesOfOne
  <1> QED  BY <1>2, <1>3, <1>4

LEMMA HeadAndTail ==
    ASSUME NEW s \in Seq(Mail), s # <<>>
    PROVE  /\ Head(s) \in Mail /\ Tail(s) \in Seq(Mail)
           /\ s = <<Head(s)>> \o Tail(s)
  <1>1. Head(s) \in Mail /\ Tail(s) \in Seq(Mail)
    BY HeadTailProperties
  <1>2. Len(s) \in Nat \ {0}
    BY EmptySeq
  <1>3. SubSeq(s, 1, Len(s)) = <<s[1]>> \o SubSeq(s, 2, Len(s))
    BY <1>2, SubSeqRecursiveFirst
  <1> QED  BY <1>1, <1>3, SubSeqFull, TailIsSubSeq

LEMMA CopiesOfTail ==
    ASSUME NEW s \in Seq(Mail), s # <<>>, NEW m
    PROVE  /\ Head(s) \in Mail /\ Tail(s) \in Seq(Mail)
           /\ Copies(s, m) = Copies(Tail(s), m) + (IF Head(s) = m THEN 1 ELSE 0)
  <1>1. /\ Head(s) \in Mail /\ Tail(s) \in Seq(Mail)
        /\ s = <<Head(s)>> \o Tail(s)
    BY HeadAndTail
  <1>2. Copies(<<Head(s)>> \o Tail(s), m)
            = Copies(Tail(s), m) + (IF Head(s) = m THEN 1 ELSE 0)
    BY <1>1, CopiesOfCons
  <1> QED  BY <1>1, <1>2

(* A beginning of a sequence holds no more than the sequence.              *)
LEMMA CopiesOfPrefix ==
    ASSUME NEW s \in Seq(Mail), NEW n \in 0..Len(s), NEW m
    PROVE  /\ SubSeq(s, 1, n) \in Seq(Mail)
           /\ Copies(SubSeq(s, 1, n), m) <= Copies(s, m)
  <1> DEFINE t == SubSeq(s, 1, n)
  <1>1. Len(s) \in Nat /\ n \in Int /\ \A i \in 1..Len(s) : s[i] \in Mail
    BY LenProperties, ElementOfSeq
  <1>2. t \in Seq(Mail) /\ Len(t) = n /\ \A i \in 1..n : t[i] = s[i]
    <2>1. \A i \in 1..n : s[i] \in Mail
      BY <1>1
    <2>2. /\ t \in Seq(Mail) /\ Len(t) = IF 1 <= n THEN n - 1 + 1 ELSE 0
          /\ \A i \in 1..(n - 1 + 1) : t[i] = s[1 + i - 1]
      BY <1>1, <2>1, SubSeqProperties
    <2> QED  BY <1>1, <2>2
  <1> HIDE DEF t
  <1>3. Places(t, m) \in SUBSET Places(s, m)
    BY <1>1, <1>2 DEF Places
  <1>4. Cardinality(Places(t, m)) <= Cardinality(Places(s, m))
    BY <1>3, PlacesAreFinite, FS_Subset
  <1> QED  BY <1>2, <1>4 DEF Copies, Places, t

-----------------------------------------------------------------------------
(* The types.                                                              *)

LEMMA StepsKeepTypes ==
    ASSUME TypeOK, [Next]_vars
    PROVE  TypeOK'
  <1>0. /\ MaxFaults \in Nat /\ MaxStalls \in Nat /\ faults \in Nat
    BY PipelineAssumption DEF TypeOK
  <1>1. ASSUME NEW m \in Mail, Emit(m)
        PROVE  TypeOK'
    BY <1>1, CopiesOfAppend DEF Emit, TypeOK
  <1>2. CASE Receive
    BY <1>2, CopiesOfTail, CopiesOfAppend DEF Receive, TypeOK, inRedis
  <1>3. CASE Added
    BY <1>3, CopiesOfTail, CopiesOfAppend DEF Added, TypeOK
  <1>4. CASE Take
    BY <1>4, CopiesOfTail DEF Take, TypeOK
  <1>5. CASE Send
    BY <1>5, CopiesOfAppend DEF Send, TypeOK, inRedis
  <1>6. CASE SendFails
    <2>1. faults' \in 0..MaxFaults
      BY <1>0, <1>6 DEF SendFails, TypeOK
    <2> QED  BY <1>6, <2>1 DEF SendFails, TypeOK, inRedis
  <1>7. CASE Complete
    BY <1>7 DEF Complete, TypeOK, inRedis
  <1>8. CASE Crash
    <2>1. faults' \in 0..MaxFaults
      BY <1>0, <1>8 DEF Crash, TypeOK
    <2>2. PICK n \in 0..Len(adding) : queue' = queue \o SubSeq(adding, 1, n)
      BY <1>8 DEF Crash
    <2>3. queue' \in Seq(Mail)
      BY <2>2, CopiesOfPrefix, CopiesOfConcat DEF TypeOK
    <2>4. orphans' \subseteq Mail
      BY <1>8 DEF Crash, TypeOK
    <2>5. wire' = <<>> /\ adding' = <<>> /\ <<>> \in Seq(Mail)
      BY <1>8 DEF Crash
    <2>6. /\ active' = None /\ handled' = FALSE /\ up' = FALSE
          /\ UNCHANGED <<asked, stalls, outbox>>
      BY <1>8 DEF Crash
    <2> QED  BY <2>1, <2>3, <2>4, <2>5, <2>6 DEF TypeOK
  <1>9. CASE Restart
    BY <1>9 DEF Restart, TypeOK, inRedis
  <1>10. ASSUME NEW m \in Mail, PutBack(m)
         PROVE  TypeOK'
    <2>1. stalls' \in [Mail -> 0..MaxStalls]
      BY <1>0, <1>10 DEF PutBack, TypeOK
    <2>2. queue' \in Seq(Mail)
      BY <1>10, CopiesOfCons DEF PutBack, TypeOK
    <2> QED  BY <1>10, <2>1, <2>2 DEF PutBack, TypeOK, inService
  <1>11. ASSUME NEW m \in Mail, GiveUp(m)
         PROVE  TypeOK'
    BY <1>11 DEF GiveUp, TypeOK, inService
  <1>12. CASE UNCHANGED vars
    BY <1>12 DEF TypeOK, vars, inService, inRedis
  <1> QED  BY <1>1, <1>2, <1>3, <1>4, <1>5, <1>6, <1>7, <1>8, <1>9, <1>10, <1>11,
              <1>12 DEF Next, Service, StalledCheck

(* TypeOK: whatever crashes, the wire, the queues and the outbox hold      *)
(* mails, no job was put back more than MaxStalls times.                   *)
THEOREM TypeCorrect == Spec => []TypeOK
  <1>1. Init => TypeOK
    <2>1. 0 \in 0..MaxStalls /\ 0 \in 0..MaxFaults /\ <<>> \in Seq(Mail)
      BY PipelineAssumption
    <2> QED  BY <2>1 DEF Init, TypeOK
  <1> QED  BY <1>1, StepsKeepTypes, PTL DEF Spec

-----------------------------------------------------------------------------
(* How often a mail can reach its reader.                                  *)

(* The processor is free only when its last job was answered for, and it   *)
(* works, like the workers that died, on mails that were asked for.        *)
WorkersAreAsked ==
    /\ active = None => ~ handled
    /\ orphans \cup ({active} \ {None}) \subseteq Elements(asked)

CopiesInv == CopiesNeedStalls /\ WorkersAreAsked

(* A term for the copy that the processor holds.                           *)
InHand(m) == IF active = m /\ ~ handled THEN 1 ELSE 0

LEMMA AskedGrows ==
    ASSUME NEW s \in Seq(Mail), NEW x \in Mail
    PROVE  Elements(Append(s, x)) = Elements(s) \cup {x}
  <1>1. /\ Len(Append(s, x)) = Len(s) + 1 /\ Len(s) \in Nat
        /\ \A i \in 1..Len(s) : Append(s, x)[i] = s[i]
        /\ Append(s, x)[Len(s) + 1] = x
    BY AppendProperties, LenProperties
  <1>2. 1..(Len(s) + 1) = (1..Len(s)) \cup {Len(s) + 1}
    BY <1>1
  <1> QED  BY <1>1, <1>2 DEF Elements

LEMMA CountsAreNat ==
    ASSUME TypeOK, NEW m \in Mail
    PROVE  /\ Copies(wire, m) \in Nat /\ Copies(adding, m) \in Nat
           /\ Copies(queue, m) \in Nat /\ Copies(outbox, m) \in Nat
           /\ stalls[m] \in Nat /\ InHand(m) \in {0, 1}
           /\ Unsent(m) = Copies(wire, m) + Copies(adding, m) + Copies(queue, m)
                             + InHand(m)
  BY CopiesAreNat DEF TypeOK, Unsent, InHand

LEMMA CountsAreNatAfter ==
    ASSUME TypeOK', NEW m \in Mail
    PROVE  /\ Copies(wire', m) \in Nat /\ Copies(adding', m) \in Nat
           /\ Copies(queue', m) \in Nat /\ Copies(outbox', m) \in Nat
           /\ stalls'[m] \in Nat /\ InHand(m)' \in {0, 1}
           /\ Unsent(m)' = Copies(wire', m) + Copies(adding', m) + Copies(queue', m)
                              + InHand(m)'
  BY CopiesAreNat DEF TypeOK, Unsent, InHand

(* What a step does to one mail: to whether it was asked for, to its       *)
(* copies, and to what is left of them when it is neither sent nor waiting.*)
SameAsked(m)   == m \in Elements(asked') <=> m \in Elements(asked)
SameSent(m)    == Copies(outbox', m) = Copies(outbox, m)
SameStalls(m)  == stalls'[m] = stalls[m]
Worked(m)      == m \in orphans \cup {active}

(* It is asked for, and is on its way or lost.                             *)
IsAsked(m) ==
    /\ m \notin Elements(asked) /\ m \in Elements(asked')
    /\ SameSent(m) /\ SameStalls(m) /\ Unsent(m)' <= Unsent(m) + 1

(* It moves on in the pipeline, or stays where it is.                      *)
MovesOn(m) ==
    /\ SameAsked(m) /\ SameSent(m) /\ SameStalls(m)
    /\ Unsent(m)' <= Unsent(m)
    /\ Unsent(m) > 0 \/ Worked(m) <=> Unsent(m)' > 0 \/ Worked(m)'

(* Its worker gives it to the transport.                                   *)
IsSent(m) ==
    /\ SameAsked(m) /\ SameStalls(m)
    /\ Copies(outbox', m) = Copies(outbox, m) + 1
    /\ Unsent(m) = Unsent(m)' + 1 /\ active = m

(* A copy is gone: the service crashed, or its job was completed or given  *)
(* up.                                                                     *)
IsDropped(m) ==
    /\ SameAsked(m) /\ SameSent(m) /\ SameStalls(m)
    /\ Unsent(m)' <= Unsent(m)
    /\ Unsent(m)' > 0 \/ Worked(m)' => Unsent(m) > 0 \/ Worked(m)

(* Its job has stalled and is put back.                                    *)
IsPutBack(m) ==
    /\ SameAsked(m) /\ SameSent(m) /\ m \in orphans
    /\ stalls'[m] = stalls[m] + 1 /\ Unsent(m)' = Unsent(m) + 1

Travels(m) == MovesOn(m) \/ IsDropped(m) \/ IsPutBack(m)

LEMMA EmitMoves ==
    ASSUME TypeOK, NEW m \in Mail, NEW x \in Mail, Emit(x)
    PROVE  IF x = m THEN IsAsked(m) ELSE MovesOn(m)
  <1>0. TypeOK'
    BY StepsKeepTypes DEF Next, Service
  <1>n. /\ Copies(wire, m) \in Nat /\ Copies(adding, m) \in Nat
        /\ Copies(queue, m) \in Nat /\ Copies(outbox, m) \in Nat
        /\ stalls[m] \in Nat /\ InHand(m) \in {0, 1}
        /\ Unsent(m) = Copies(wire, m) + Copies(adding, m) + Copies(queue, m)
                          + InHand(m)
    BY CountsAreNat
  <1>p. /\ Copies(wire', m) \in Nat /\ Copies(adding', m) \in Nat
        /\ Copies(queue', m) \in Nat /\ Copies(outbox', m) \in Nat
        /\ stalls'[m] \in Nat /\ InHand(m)' \in {0, 1}
        /\ Unsent(m)' = Copies(wire', m) + Copies(adding', m) + Copies(queue', m)
                           + InHand(m)'
    BY <1>0, CountsAreNatAfter
  <1>t. /\ asked \in Seq(Mail) /\ wire \in Seq(Mail) /\ adding \in Seq(Mail)
        /\ queue \in Seq(Mail) /\ outbox \in Seq(Mail) /\ m # None
    BY PipelineAssumption DEF TypeOK
  <1>1. /\ x \notin Elements(asked) /\ Elements(asked') = Elements(asked) \cup {x}
        /\ Copies(adding', m) = Copies(adding, m)
        /\ Copies(queue', m) = Copies(queue, m) /\ SameSent(m) /\ SameStalls(m)
        /\ InHand(m)' = InHand(m) /\ (Worked(m)' <=> Worked(m))
    BY <1>t, AskedGrows DEF Emit, SameSent, SameStalls, InHand, Worked
  <1>2. \/ Copies(wire', m) = Copies(wire, m)
        \/ Copies(wire', m) = Copies(wire, m) + (IF x = m THEN 1 ELSE 0)
    BY <1>t, CopiesOfAppend DEF Emit
  <1>3. CASE x = m
    BY <1>n, <1>p, <1>1, <1>2, <1>3 DEF IsAsked
  <1>4. CASE x # m
    BY <1>n, <1>p, <1>1, <1>2, <1>4 DEF MovesOn, SameAsked
  <1> QED  BY <1>3, <1>4

LEMMA SendMoves ==
    ASSUME TypeOK, NEW m \in Mail, Send
    PROVE  IF active = m THEN IsSent(m) ELSE MovesOn(m)
  <1>0. TypeOK'
    BY StepsKeepTypes DEF Next, Service
  <1>n. /\ Copies(wire, m) \in Nat /\ Copies(adding, m) \in Nat
        /\ Copies(queue, m) \in Nat /\ Copies(outbox, m) \in Nat
        /\ stalls[m] \in Nat /\ InHand(m) \in {0, 1}
        /\ Unsent(m) = Copies(wire, m) + Copies(adding, m) + Copies(queue, m)
                          + InHand(m)
    BY CountsAreNat
  <1>p. /\ Copies(wire', m) \in Nat /\ Copies(adding', m) \in Nat
        /\ Copies(queue', m) \in Nat /\ Copies(outbox', m) \in Nat
        /\ stalls'[m] \in Nat /\ InHand(m)' \in {0, 1}
        /\ Unsent(m)' = Copies(wire', m) + Copies(adding', m) + Copies(queue', m)
                           + InHand(m)'
    BY <1>0, CountsAreNatAfter
  <1>t. /\ asked \in Seq(Mail) /\ wire \in Seq(Mail) /\ adding \in Seq(Mail)
        /\ queue \in Seq(Mail) /\ outbox \in Seq(Mail) /\ m # None
    BY PipelineAssumption DEF TypeOK
  <1>1. /\ Copies(outbox', m) = Copies(outbox, m) + (IF active = m THEN 1 ELSE 0)
    BY <1>t, CopiesOfAppend DEF Send, TypeOK
  <1>2. /\ Copies(wire', m) = Copies(wire, m) /\ Copies(adding', m) = Copies(adding, m)
        /\ Copies(queue', m) = Copies(queue, m)
        /\ SameStalls(m) /\ SameAsked(m) /\ (Worked(m)' <=> Worked(m))
    BY DEF Send, inRedis, SameStalls, SameAsked, Worked
  <1>3. InHand(m)' = 0 /\ InHand(m) = IF active = m THEN 1 ELSE 0
    BY DEF Send, InHand
  <1>4. CASE active = m
    BY <1>n, <1>p, <1>1, <1>2, <1>3, <1>4 DEF IsSent
  <1>5. CASE active # m
    BY <1>n, <1>p, <1>1, <1>2, <1>3, <1>5 DEF MovesOn, SameSent
  <1> QED  BY <1>4, <1>5

LEMMA StepsOfMails ==
    ASSUME TypeOK, WorkersAreAsked, [Next]_vars, NEW m \in Mail
    PROVE  \/ \E x \in Mail : Emit(x)
           \/ Send
           \/ Travels(m)
  <1>0. TypeOK'
    BY StepsKeepTypes
  <1>n. /\ Copies(wire, m) \in Nat /\ Copies(adding, m) \in Nat
        /\ Copies(queue, m) \in Nat /\ Copies(outbox, m) \in Nat
        /\ stalls[m] \in Nat /\ InHand(m) \in {0, 1}
        /\ Unsent(m) = Copies(wire, m) + Copies(adding, m) + Copies(queue, m)
                          + InHand(m)
    BY CountsAreNat
  <1>p. /\ Copies(wire', m) \in Nat /\ Copies(adding', m) \in Nat
        /\ Copies(queue', m) \in Nat /\ Copies(outbox', m) \in Nat
        /\ stalls'[m] \in Nat /\ InHand(m)' \in {0, 1}
        /\ Unsent(m)' = Copies(wire', m) + Copies(adding', m) + Copies(queue', m)
                           + InHand(m)'
    BY <1>0, CountsAreNatAfter
  <1>t. /\ asked \in Seq(Mail) /\ wire \in Seq(Mail) /\ adding \in Seq(Mail)
        /\ queue \in Seq(Mail) /\ outbox \in Seq(Mail) /\ m # None
    BY PipelineAssumption DEF TypeOK
  <1>2. CASE Receive
    <2>1. /\ Copies(wire, m) = Copies(wire', m) + (IF Head(wire) = m THEN 1 ELSE 0)
          /\ Copies(adding', m) = Copies(adding, m) + (IF Head(wire) = m THEN 1 ELSE 0)
      BY <1>2, <1>t, CopiesOfTail, CopiesOfAppend DEF Receive
    <2>2. /\ Copies(queue', m) = Copies(queue, m) /\ SameSent(m) /\ SameStalls(m)
          /\ InHand(m)' = InHand(m) /\ (Worked(m)' <=> Worked(m)) /\ SameAsked(m)
      BY <1>2 DEF Receive, inRedis, SameSent, SameStalls, SameAsked, InHand, Worked
    <2>3. Unsent(m)' = Unsent(m)
      BY <1>n, <1>p, <2>1, <2>2
    <2> QED  BY <1>n, <2>2, <2>3 DEF MovesOn, Travels
  <1>3. CASE Added
    <2>1. /\ Copies(adding, m) = Copies(adding', m) + (IF Head(adding) = m THEN 1 ELSE 0)
          /\ Copies(queue', m) = Copies(queue, m) + (IF Head(adding) = m THEN 1 ELSE 0)
      BY <1>3, <1>t, CopiesOfTail, CopiesOfAppend DEF Added
    <2>2. /\ Copies(wire', m) = Copies(wire, m) /\ SameSent(m) /\ SameStalls(m)
          /\ InHand(m)' = InHand(m) /\ (Worked(m)' <=> Worked(m)) /\ SameAsked(m)
      BY <1>3 DEF Added, SameSent, SameStalls, SameAsked, InHand, Worked
    <2>3. Unsent(m)' = Unsent(m)
      BY <1>n, <1>p, <2>1, <2>2
    <2> QED  BY <1>n, <2>2, <2>3 DEF MovesOn, Travels
  <1>4. CASE Take
    <2>1. /\ Copies(queue, m) = Copies(queue', m) + (IF Head(queue) = m THEN 1 ELSE 0)
          /\ active' = Head(queue) /\ active = None
      BY <1>4, <1>t, CopiesOfTail DEF Take
    <2>2. /\ Copies(wire', m) = Copies(wire, m) /\ Copies(adding', m) = Copies(adding, m)
          /\ SameSent(m) /\ SameStalls(m) /\ SameAsked(m) /\ orphans' = orphans
      BY <1>4 DEF Take, SameSent, SameStalls, SameAsked
    <2>3. InHand(m) = 0 /\ InHand(m)' = IF Head(queue) = m THEN 1 ELSE 0
      BY <1>4, <1>t, <2>1 DEF Take, InHand, WorkersAreAsked
    <2>4. Unsent(m)' = Unsent(m)
      BY <1>n, <1>p, <2>1, <2>2, <2>3
    <2>5. /\ Worked(m) <=> m \in orphans
          /\ Worked(m)' <=> m \in orphans \/ Head(queue) = m
      BY <1>t, <2>1, <2>2 DEF Worked
    <2>6. Head(queue) = m => Unsent(m) > 0
      BY <1>n, <1>p, <2>1
    <2> QED  BY <1>n, <2>2, <2>4, <2>5, <2>6 DEF MovesOn, Travels
  <1>6. CASE SendFails
    <2>1. /\ Copies(wire', m) = Copies(wire, m) /\ Copies(adding', m) = Copies(adding, m)
          /\ Copies(queue', m) = Copies(queue, m) /\ SameSent(m)
          /\ SameStalls(m) /\ SameAsked(m) /\ (Worked(m)' <=> Worked(m))
      BY <1>6 DEF SendFails, inRedis, SameStalls, SameAsked, SameSent, Worked
    <2>2. InHand(m)' = 0
      BY <1>6 DEF SendFails, InHand
    <2>3. Unsent(m)' <= Unsent(m)
      BY <1>n, <1>p, <2>1, <2>2
    <2>4. Unsent(m)' > 0 => Unsent(m) > 0
      BY <1>n, <1>p, <2>3
    <2> QED  BY <2>1, <2>3, <2>4 DEF IsDropped, Travels
  <1>7. CASE Complete
    <2>1. /\ Copies(wire', m) = Copies(wire, m) /\ Copies(adding', m) = Copies(adding, m)
          /\ Copies(queue', m) = Copies(queue, m) /\ SameSent(m)
          /\ SameStalls(m) /\ SameAsked(m)
      BY <1>7 DEF Complete, inRedis, SameStalls, SameAsked, SameSent
    <2>2. InHand(m)' = 0 /\ InHand(m) = 0 /\ (Worked(m)' => Worked(m))
      BY <1>7, <1>t DEF Complete, inRedis, InHand, Worked
    <2>3. Unsent(m)' = Unsent(m)
      BY <1>n, <1>p, <2>1, <2>2
    <2> QED  BY <1>n, <2>1, <2>2, <2>3 DEF IsDropped, Travels
  <1>8. CASE Crash
    <2>1. PICK n \in 0..Len(adding) : queue' = queue \o SubSeq(adding, 1, n)
      BY <1>8 DEF Crash
    <2>2. /\ SubSeq(adding, 1, n) \in Seq(Mail)
          /\ Copies(SubSeq(adding, 1, n), m) <= Copies(adding, m)
          /\ Copies(SubSeq(adding, 1, n), m) \in Nat
      BY <1>t, CopiesOfPrefix, CopiesAreNat
    <2>3. Copies(queue', m) = Copies(queue, m) + Copies(SubSeq(adding, 1, n), m)
      <3> DEFINE kept == SubSeq(adding, 1, n)
      <3>1. queue \in Seq(Mail) /\ kept \in Seq(Mail)
        BY <1>t, <2>2
      <3> HIDE DEF kept
      <3>2. Copies(queue \o kept, m) = Copies(queue, m) + Copies(kept, m)
        BY <3>1, CopiesOfConcat
      <3> QED  BY <2>1, <3>2, Zenon DEF kept
    <2>4. Copies(wire', m) = 0 /\ Copies(adding', m) = 0
      BY <1>8, CopiesOfNothing DEF Crash
    <2>5. /\ SameSent(m) /\ SameStalls(m) /\ SameAsked(m)
          /\ InHand(m)' = 0 /\ (Worked(m)' => Worked(m))
      BY <1>8, <1>t DEF Crash, SameSent, SameStalls, SameAsked, InHand, Worked
    <2>6. Unsent(m)' <= Unsent(m)
      BY <1>n, <1>p, <2>2, <2>3, <2>4, <2>5
    <2>7. Unsent(m)' > 0 => Unsent(m) > 0
      BY <1>n, <1>p, <2>6, SMTT(60)
    <2> QED  BY <2>5, <2>6, <2>7 DEF IsDropped, Travels
  <1>9. CASE Restart \/ UNCHANGED vars
    <2>1. /\ UNCHANGED <<asked, outbox, stalls, orphans, active>>
          /\ Unsent(m)' = Unsent(m)
      BY <1>9 DEF Restart, vars, inService, inRedis, Unsent
    <2> QED  BY <1>n, <2>1
             DEF MovesOn, Travels, SameSent, SameStalls, SameAsked, Worked
  <1>10. ASSUME NEW x \in Mail, PutBack(x)
         PROVE  Travels(m)
    <2>1. /\ Copies(wire', m) = Copies(wire, m) /\ Copies(adding', m) = Copies(adding, m)
          /\ SameSent(m) /\ SameAsked(m) /\ InHand(m)' = InHand(m)
          /\ x \in orphans /\ orphans' = orphans \ {x} /\ active' = active
      BY <1>10 DEF PutBack, inService, SameSent, SameAsked, InHand
    <2>2. /\ Copies(queue', m) = Copies(queue, m) + (IF x = m THEN 1 ELSE 0)
      BY <1>10, <1>t, CopiesOfCons DEF PutBack
    <2>3. stalls'[m] = IF x = m THEN stalls[m] + 1 ELSE stalls[m]
      BY <1>10 DEF PutBack, TypeOK
    <2>4. CASE x = m
      BY <1>n, <1>p, <2>1, <2>2, <2>3, <2>4 DEF IsPutBack, Travels
    <2>5. CASE x # m
      <3>1. Unsent(m)' = Unsent(m)
        BY <1>n, <1>p, <2>1, <2>2, <2>5
      <3>2. (Worked(m)' <=> Worked(m)) /\ SameStalls(m)
        BY <2>1, <2>3, <2>5 DEF Worked, SameStalls
      <3> QED  BY <1>n, <2>1, <3>1, <3>2 DEF MovesOn, Travels
    <2> QED  BY <2>4, <2>5
  <1>11. ASSUME NEW x \in Mail, GiveUp(x)
         PROVE  Travels(m)
    <2>1. /\ UNCHANGED <<asked, outbox, stalls, active>>
          /\ Unsent(m)' = Unsent(m)
          /\ Worked(m)' => Worked(m)
      BY <1>11 DEF GiveUp, inService, Unsent, Worked
    <2> QED  BY <1>n, <2>1
             DEF IsDropped, Travels, SameSent, SameStalls, SameAsked
  <1> QED
    BY <1>2, <1>3, <1>4, <1>6, <1>7, <1>8, <1>9, <1>10, <1>11 DEF Next, Service, StalledCheck

LEMMA WorkersStayAsked ==
    ASSUME TypeOK, CopiesInv, [Next]_vars
    PROVE  WorkersAreAsked'
  <1>1. ASSUME NEW m \in Mail, Emit(m)
        PROVE  WorkersAreAsked'
    BY <1>1, AskedGrows DEF Emit, TypeOK, CopiesInv, WorkersAreAsked
  <1>2. CASE Take
    <2>1. Head(queue) \in Mail /\ Head(queue) # None
      BY <1>2, CopiesOfTail, PipelineAssumption DEF Take, TypeOK
    <2>2. Copies(queue, Head(queue)) = Copies(queue', Head(queue)) + 1
      BY <1>2, CopiesOfTail DEF Take, TypeOK
    <2>3. Copies(queue', Head(queue)) \in Nat
      BY <1>2, StepsKeepTypes, CopiesAreNat DEF TypeOK
    <2>4. Copies(outbox, Head(queue)) + Unsent(Head(queue)) > 0
      BY <2>1, <2>2, <2>3, CountsAreNat
    <2>5. Head(queue) \in Elements(asked)
      BY <2>1, <2>4, CountsAreNat DEF CopiesInv, CopiesNeedStalls
    <2> QED  BY <1>2, <2>1, <2>5 DEF Take, CopiesInv, WorkersAreAsked
  <1>3. CASE Receive \/ Added \/ Send \/ SendFails \/ Complete \/ Crash \/ Restart
    BY <1>3 DEF Receive, Added, Send, SendFails, Complete, Crash, Restart, inRedis,
                CopiesInv, WorkersAreAsked
  <1>4. ASSUME NEW m \in Mail, StalledCheck(m)
        PROVE  WorkersAreAsked'
    BY <1>4 DEF StalledCheck, PutBack, GiveUp, inService, CopiesInv, WorkersAreAsked
  <1>5. CASE UNCHANGED vars
    BY <1>5 DEF vars, inService, inRedis, CopiesInv, WorkersAreAsked
  <1> QED  BY <1>1, <1>2, <1>3, <1>4, <1>5 DEF Next, Service

LEMMA CopiesStayFew ==
    ASSUME TypeOK, CopiesInv, [Next]_vars
    PROVE  CopiesInv'
  <1> SUFFICES ASSUME NEW m \in Mail
               PROVE  Copies(outbox', m) + Unsent(m)'
                         <= (IF m \in Elements(asked') THEN 1 + stalls'[m] ELSE 0)
    BY WorkersStayAsked DEF CopiesInv, CopiesNeedStalls
  <1>0. TypeOK'
    BY StepsKeepTypes
  <1>1. /\ Copies(outbox, m) \in Nat /\ Unsent(m) \in Nat /\ stalls[m] \in Nat
    BY CountsAreNat
  <1>2. /\ Copies(outbox', m) \in Nat /\ Unsent(m)' \in Nat /\ stalls'[m] \in Nat
    BY <1>0, CountsAreNatAfter
  <1>3. Copies(outbox, m) + Unsent(m)
           <= (IF m \in Elements(asked) THEN 1 + stalls[m] ELSE 0)
    BY DEF CopiesInv, CopiesNeedStalls
  <1>4. CASE IsAsked(m)
    BY <1>1, <1>2, <1>3, <1>4 DEF IsAsked, SameSent, SameStalls
  <1>5. CASE MovesOn(m) \/ IsDropped(m)
    BY <1>1, <1>2, <1>3, <1>5 DEF MovesOn, IsDropped, SameSent, SameStalls, SameAsked
  <1>6. CASE IsSent(m)
    BY <1>1, <1>2, <1>3, <1>6 DEF IsSent, SameStalls, SameAsked
  <1>7. CASE IsPutBack(m)
    <2>1. m \in Elements(asked)
      BY <1>7, PipelineAssumption DEF IsPutBack, CopiesInv, WorkersAreAsked
    <2> QED  BY <1>1, <1>2, <1>3, <1>7, <2>1 DEF IsPutBack, SameSent, SameAsked
  <1>8. IsAsked(m) \/ IsSent(m) \/ Travels(m)
    BY StepsOfMails, EmitMoves, SendMoves DEF CopiesInv, Travels
  <1> QED  BY <1>4, <1>5, <1>6, <1>7, <1>8 DEF Travels

LEMMA CopiesCorrect == Spec => []CopiesInv
  <1>1. Init => CopiesInv
    <2> SUFFICES ASSUME Init
                 PROVE  CopiesInv
      OBVIOUS
    <2>1. ASSUME NEW m \in Mail
          PROVE  Copies(outbox, m) + Unsent(m) = 0 /\ Elements(asked) = {}
      <3>1. m # None
        BY PipelineAssumption
      <3> QED  BY <3>1, CopiesOfNothing DEF Init, Unsent
    <2>2. CopiesNeedStalls
      BY <2>1 DEF CopiesNeedStalls
    <2>3. WorkersAreAsked
      BY CopiesOfNothing DEF Init, WorkersAreAsked
    <2> QED  BY <2>2, <2>3 DEF CopiesInv
  <1>2. TypeOK /\ CopiesInv /\ [Next]_vars => CopiesInv'
    BY CopiesStayFew
  <1> QED  BY <1>1, <1>2, TypeCorrect, PTL DEF Spec

(* CopiesNeedStalls: however often the service crashes, a mail reaches its *)
(* reader at most once more than its job was put back, counting the copies *)
(* that are still under way.                                               *)
THEOREM DuplicatesNeedStalls == Spec => []CopiesNeedStalls
  <1>1. CopiesInv => CopiesNeedStalls
    BY DEF CopiesInv
  <1> QED  BY <1>1, CopiesCorrect, PTL

-----------------------------------------------------------------------------
(* The promise of Mailbox.                                                 *)

fates == [m \in Mail |-> Fate(m)]

(* A mail that was not asked for has no copy anywhere.                     *)
LEMMA UnaskedIsNowhere ==
    ASSUME TypeOK, CopiesInv, NEW m \in Mail, m \notin Elements(asked)
    PROVE  Copies(outbox, m) = 0 /\ m \notin Elements(outbox)
  <1>1. Copies(outbox, m) = 0
    BY CountsAreNat DEF CopiesInv, CopiesNeedStalls
  <1> QED  BY <1>1, NoCopies DEF TypeOK

LEMMA FateOfMail ==
    ASSUME NEW m \in Mail
    PROVE  /\ m \notin Elements(asked) \cup Elements(outbox) => Fate(m) = "none"
           /\ m \in Elements(asked) /\ m \in Elements(outbox) => Fate(m) = "delivered"
           /\ m \in Elements(asked) /\ m \notin Elements(outbox) =>
                 Fate(m) = IF Unsent(m) > 0 \/ Worked(m) THEN "asked" ELSE "lost"
  BY DEF Fate, Worked

LEMMA FateOfMailAfter ==
    ASSUME NEW m \in Mail
    PROVE  /\ m \notin Elements(asked') \cup Elements(outbox') => Fate(m)' = "none"
           /\ m \in Elements(asked') /\ m \in Elements(outbox') => Fate(m)' = "delivered"
           /\ m \in Elements(asked') /\ m \notin Elements(outbox') =>
                 Fate(m)' = IF Unsent(m)' > 0 \/ Worked(m)' THEN "asked" ELSE "lost"
  BY DEF Fate, Worked

(* What becomes of a mail in one step.                                     *)
LEMMA FatesMove ==
    ASSUME TypeOK, CopiesInv, [Next]_vars, NEW m \in Mail
    PROVE  /\ IsAsked(m) => Fate(m) = "none" /\ Fate(m)' \in {"asked", "lost"}
           /\ MovesOn(m) => Fate(m)' = Fate(m)
           /\ IsSent(m) => Fate(m) \in {"asked", "delivered"} /\ Fate(m)' = "delivered"
           /\ IsDropped(m) => \/ Fate(m)' = Fate(m)
                              \/ Fate(m) = "asked" /\ Fate(m)' = "lost"
           /\ IsPutBack(m) => Fate(m)' = Fate(m)
  <1>0. TypeOK' /\ CopiesInv'
    BY StepsKeepTypes, CopiesStayFew
  <1>c. /\ outbox \in Seq(Mail) /\ outbox' \in Seq(Mail)
    BY <1>0 DEF TypeOK
  <1>d. /\ m \notin Elements(outbox) <=> Copies(outbox, m) = 0
        /\ m \notin Elements(outbox') <=> Copies(outbox', m) = 0
    BY <1>c, NoCopies
  <1>e. Copies(outbox, m) \in Nat /\ Unsent(m) \in Nat
    BY CountsAreNat
  <1>1. /\ Copies(outbox, m) \in Nat /\ Unsent(m) \in Nat
        /\ m \in Elements(outbox) <=> Copies(outbox, m) # 0
    BY <1>d, <1>e
  <1>f. Copies(outbox', m) \in Nat /\ Unsent(m)' \in Nat
    BY <1>0, CountsAreNatAfter
  <1>2. /\ Copies(outbox', m) \in Nat /\ Unsent(m)' \in Nat
        /\ m \in Elements(outbox') <=> Copies(outbox', m) # 0
    BY <1>d, <1>f
  <1>3. m \in orphans \cup {active} => m \in Elements(asked)
    BY PipelineAssumption DEF CopiesInv, WorkersAreAsked
  <1>4. m \notin Elements(asked) => Copies(outbox, m) = 0
    BY UnaskedIsNowhere
  <1>5. ASSUME IsAsked(m)
        PROVE  Fate(m) = "none" /\ Fate(m)' \in {"asked", "lost"}
    BY <1>1, <1>2, <1>4, <1>5, FateOfMail, FateOfMailAfter DEF IsAsked, SameSent
  <1>6. ASSUME MovesOn(m)
        PROVE  Fate(m)' = Fate(m)
    <2>1. /\ m \in Elements(asked') <=> m \in Elements(asked)
          /\ m \in Elements(outbox') <=> m \in Elements(outbox)
      BY <1>1, <1>2, <1>6 DEF MovesOn, SameSent, SameAsked
    <2>2. (Unsent(m) > 0 \/ Worked(m)) <=> (Unsent(m)' > 0 \/ Worked(m)')
      BY <1>6 DEF MovesOn
    <2>3. CASE m \notin Elements(asked)
      BY <1>1, <1>4, <2>1, <2>3, FateOfMail, FateOfMailAfter
    <2>4. CASE m \in Elements(asked)
      BY <2>1, <2>2, <2>4, FateOfMail, FateOfMailAfter
    <2> QED  BY <2>3, <2>4
  <1>7. ASSUME IsSent(m)
        PROVE  Fate(m) \in {"asked", "delivered"} /\ Fate(m)' = "delivered"
    <2>1. m \in Elements(asked) /\ Worked(m)
      BY <1>3, <1>7 DEF IsSent, Worked
    <2> QED  BY <1>1, <1>2, <1>7, <2>1, FateOfMail, FateOfMailAfter DEF IsSent, SameAsked
  <1>8. ASSUME IsDropped(m)
        PROVE  \/ Fate(m)' = Fate(m)
               \/ Fate(m) = "asked" /\ Fate(m)' = "lost"
    <2>1. /\ m \in Elements(asked') <=> m \in Elements(asked)
          /\ m \in Elements(outbox') <=> m \in Elements(outbox)
      BY <1>1, <1>2, <1>8 DEF IsDropped, SameSent, SameAsked
    <2>2. (Unsent(m)' > 0 \/ Worked(m)') => (Unsent(m) > 0 \/ Worked(m))
      BY <1>8 DEF IsDropped
    <2>3. CASE m \notin Elements(asked)
      BY <1>1, <1>4, <2>1, <2>3, FateOfMail, FateOfMailAfter
    <2>4. CASE m \in Elements(asked)
      BY <2>1, <2>2, <2>4, FateOfMail, FateOfMailAfter
    <2> QED  BY <2>3, <2>4
  <1>9. ASSUME IsPutBack(m)
        PROVE  Fate(m)' = Fate(m)
    <2>1. m \in Elements(asked) /\ Worked(m) /\ Unsent(m)' > 0
      BY <1>1, <1>3, <1>9 DEF IsPutBack, Worked
    <2> QED  BY <1>1, <1>2, <1>9, <2>1, FateOfMail, FateOfMailAfter
             DEF IsPutBack, SameSent, SameAsked
  <1> QED  BY <1>5, <1>6, <1>7, <1>8, <1>9

(* The safety half of KeepsPromise: nothing is delivered that nobody asked *)
(* for, what is lost was under way, and what was delivered stays so, even  *)
(* when its worker dies before Bull learns that it was.                    *)
THEOREM PromiseIsKept == Spec => Promise!Init /\ [][Promise!Next]_fates
  <1>1. Init => Promise!Init
    <2> SUFFICES ASSUME Init, NEW m \in Mail
                 PROVE  Fate(m) = "none"
      BY DEF Promise!Init
    <2>1. m \notin Elements(asked) \cup Elements(outbox)
      BY CopiesOfNothing DEF Init
    <2> QED  BY <2>1, FateOfMail
  <1>2. TypeOK /\ CopiesInv /\ [Next]_vars => [Promise!Next]_fates
    <2> SUFFICES ASSUME TypeOK, CopiesInv, [Next]_vars
                 PROVE  Promise!Next \/ fates' = fates
      OBVIOUS
    <2>1. ASSUME NEW x \in Mail, Emit(x)
          PROVE  Promise!Ask(x)
      <3>1. Fate(x) = "none" /\ Fate(x)' \in {"asked", "lost"}
        BY <2>1, EmitMoves, FatesMove
      <3>2. \A m \in Mail : m # x => Fate(m)' = Fate(m)
        BY <2>1, EmitMoves, FatesMove
      <3>3. fates' = [fates EXCEPT ![x] = Fate(x)']
        BY <3>2 DEF fates
      <3>4. fates[x] = "none"
        BY <3>1 DEF fates
      <3> QED  BY <3>1, <3>3, <3>4 DEF Promise!Ask, fates
    <2>2. CASE Send
      <3>1. PICK x \in Mail : x = active
        BY <2>2 DEF Send, TypeOK
      <3>2. Fate(x) \in {"asked", "delivered"} /\ Fate(x)' = "delivered"
        BY <2>2, <3>1, SendMoves, FatesMove
      <3>3. \A m \in Mail : m # x => Fate(m)' = Fate(m)
        BY <2>2, <3>1, SendMoves, FatesMove
      <3>4. fates' = [fates EXCEPT ![x] = "delivered"]
        BY <3>2, <3>3 DEF fates
      <3>5. fates[x] = Fate(x)
        BY DEF fates
      <3>6. CASE Fate(x) = "asked"
        BY <3>4, <3>5, <3>6 DEF Promise!Next, Promise!Deliver, fates
      <3>7. CASE Fate(x) = "delivered"
        <4>1. \A m \in Mail : Fate(m)' = Fate(m)
          BY <3>2, <3>3, <3>7
        <4> QED  BY <4>1 DEF fates
      <3> QED  BY <3>2, <3>6, <3>7
    <2>3. ASSUME \A m \in Mail : Travels(m)
          PROVE  Promise!Next \/ fates' = fates
      <3> DEFINE S == {m \in Mail : Fate(m)' # Fate(m)}
      <3>1. \A m \in S : Fate(m) = "asked" /\ Fate(m)' = "lost"
        BY <2>3, FatesMove DEF Travels
      <3>2. fates' = [m \in Mail |-> IF m \in S THEN "lost" ELSE fates[m]]
        BY <3>1 DEF fates
      <3>3. CASE S = {}
        BY <3>3 DEF fates
      <3>4. CASE S # {}
        <4>1. \A m \in S : fates[m] = "asked"
          BY <3>1 DEF fates
        <4>2. Promise!Lose(S)
          BY <3>2, <3>4, <4>1 DEF Promise!Lose, fates
        <4> QED  BY <4>2 DEF Promise!Next
      <3> QED  BY <3>3, <3>4
    <2>4. CASE \E x \in Mail : Emit(x)
      BY <2>1, <2>4 DEF Promise!Next
    <2>5. CASE ~ Send /\ ~ \E x \in Mail : Emit(x)
      BY <2>3, <2>5, StepsOfMails DEF CopiesInv
    <2> QED  BY <2>2, <2>4, <2>5
  <1> QED  BY <1>1, <1>2, TypeCorrect, CopiesCorrect, PTL DEF Spec

-----------------------------------------------------------------------------
(* The order of a run without faults.                                      *)

Hand == IF active # None /\ ~ handled THEN <<active>> ELSE <<>>

(* As long as nothing fails, what was asked for is what was sent, followed *)
(* by what the processor, the queue, the handlers and the wire still hold. *)
NothingOvertakes ==
    faults = 0 =>
        /\ up
        /\ orphans = {}
        /\ asked = outbox \o (Hand \o (queue \o (adding \o wire)))

FifoInv == NothingOvertakes /\ WorkersAreAsked

LEMMA Regroup ==
    ASSUME NEW s \in Seq(Mail), NEW t \in Seq(Mail), NEW u \in Seq(Mail)
    PROVE  /\ s \o t \in Seq(Mail)
           /\ (s \o t) \o u = s \o (t \o u)
  <1>1. s \o t \in Seq(Mail)
    BY ConcatProperties
  <1>2. (s \o t) \o u = s \o (t \o u)
    BY ConcatAssociative
  <1> QED  BY <1>1, <1>2

(* Handing the first of one sequence over to the end of another.           *)
LEMMA HandOver ==
    ASSUME NEW s \in Seq(Mail), NEW t \in Seq(Mail), NEW u \in Seq(Mail), t # <<>>
    PROVE  /\ Append(s, Head(t)) \o (Tail(t) \o u) = s \o (t \o u)
           /\ Append(s, Head(t)) \o Tail(t) = s \o t
  <1> DEFINE h == <<Head(t)>>
             r == Tail(t)
  <1>1. /\ h \in Seq(Mail) /\ r \in Seq(Mail) /\ t = h \o r
        /\ Append(s, Head(t)) = s \o h
    BY HeadAndTail, AppendIsConcat
  <1> HIDE DEF h, r
  <1>2. r \o u \in Seq(Mail)
    BY <1>1, ConcatProperties
  <1>3. (s \o h) \o (r \o u) = s \o (h \o (r \o u))
    BY <1>1, <1>2, Regroup, SMTT(60)
  <1>4. h \o (r \o u) = (h \o r) \o u
    BY <1>1, Regroup, SMTT(60)
  <1>5. (s \o h) \o r = s \o (h \o r)
    BY <1>1, Regroup
  <1> QED  BY <1>1, <1>3, <1>4, <1>5 DEF r

LEMMA NothingIsOvertaken ==
    ASSUME TypeOK, FifoInv, [Next]_vars
    PROVE  NothingOvertakes'
  <1> DEFINE rest == queue \o (adding \o wire)
  <1> SUFFICES ASSUME faults' = 0
               PROVE  /\ up'
                      /\ orphans' = {}
                      /\ asked' = outbox' \o (Hand' \o (queue' \o (adding' \o wire')))
    BY DEF NothingOvertakes
  <1>t. /\ asked \in Seq(Mail) /\ wire \in Seq(Mail) /\ adding \in Seq(Mail)
        /\ queue \in Seq(Mail) /\ outbox \in Seq(Mail) /\ <<>> \in Seq(Mail)
        /\ active \in Mail \cup {None} /\ faults \in Nat
    BY DEF TypeOK
  <1>0. /\ faults = 0 /\ ~ SendFails /\ ~ Crash
    <2>1. SendFails \/ Crash => faults' = faults + 1
      BY DEF SendFails, Crash
    <2>2. SendFails \/ Crash \/ UNCHANGED faults
      BY DEF Next, Service, Emit, StalledCheck, PutBack, GiveUp, Receive, Added, Take,
             Send, Complete, Restart, vars
    <2> QED  BY <1>t, <2>1, <2>2
  <1>i. /\ up /\ orphans = {} /\ asked = outbox \o (Hand \o rest)
    BY <1>0 DEF FifoInv, NothingOvertakes
  <1>h. /\ Hand \in Seq(Mail) /\ adding \o wire \in Seq(Mail)
        /\ rest \in Seq(Mail)
    <2>1. Hand \in Seq(Mail)
      BY <1>t DEF Hand
    <2>2. adding \o wire \in Seq(Mail)
      BY <1>t, ConcatProperties
    <2> QED  BY <1>t, <2>1, <2>2, ConcatProperties
  <1>1. ASSUME NEW m \in Mail, Emit(m)
        PROVE  /\ up' /\ orphans' = {}
               /\ asked' = outbox' \o (Hand' \o (queue' \o (adding' \o wire')))
    <2> DEFINE x == <<m>>
    <2>1. /\ x \in Seq(Mail) /\ asked' = asked \o x /\ wire' = wire \o x
      BY <1>1, <1>i, <1>t, AppendIsConcat, SMTT(60) DEF Emit
    <2>2. /\ up' /\ orphans' = {} /\ UNCHANGED <<adding, queue, outbox>>
          /\ Hand' = Hand
      BY <1>1, <1>i DEF Emit, Hand
    <2> HIDE DEF x
    <2> DEFINE made   == adding \o wire
               waits  == queue \o made
               unsent == Hand \o waits
    <2>a. /\ adding \in Seq(Mail) /\ wire \in Seq(Mail)
      BY <1>t
    <2>q. queue \in Seq(Mail) /\ made \in Seq(Mail)
      BY <1>t, <1>h
    <2>h. Hand \in Seq(Mail) /\ waits \in Seq(Mail)
      BY <1>h
    <2>x. x \in Seq(Mail)
      BY <2>1
    <2>o. outbox \in Seq(Mail)
      BY <1>t
    <2>3. made \o x = adding \o (wire \o x)
      BY <2>a, <2>x, Regroup
    <2> HIDE DEF made
    <2>4. waits \o x = queue \o (made \o x)
      BY <2>q, <2>x, Regroup
    <2> HIDE DEF waits
    <2>5. unsent \in Seq(Mail) /\ unsent \o x = Hand \o (waits \o x)
      BY <2>h, <2>x, Regroup
    <2> HIDE DEF unsent
    <2>6. unsent \in Seq(Mail)
      BY <2>5
    <2>7. (outbox \o unsent) \o x = outbox \o (unsent \o x)
      BY <2>o, <2>x, <2>6, Regroup
    <2>8. asked \o x = outbox \o (Hand \o (queue \o (adding \o (wire \o x))))
      <3>1. asked = outbox \o unsent
        BY <1>i DEF unsent, waits, made
      <3> QED  BY <2>3, <2>4, <2>5, <2>7, <3>1, Zenon
    <2> QED  BY <2>1, <2>2, <2>8
  <1>2. CASE Receive
    <2>1. adding' \o wire' = adding \o wire
      BY <1>2, <1>t, HandOver DEF Receive
    <2> QED  BY <1>2, <1>i, <2>1 DEF Receive, inRedis, Hand
  <1>3. CASE Added
    <2>1. queue' \o (adding' \o wire) = queue \o (adding \o wire)
      BY <1>3, <1>t, HandOver, SMTT(60) DEF Added
    <2> QED  BY <1>3, <1>i, <2>1 DEF Added, Hand
  <1>4. CASE Take
    <2> DEFINE h == Head(queue)
               r == adding \o wire
    <2>1. /\ active = None /\ Hand = <<>> /\ active' = h /\ queue' = Tail(queue)
          /\ ~ handled' /\ queue # <<>>
          /\ UNCHANGED <<asked, wire, adding, outbox, up, orphans>>
      BY <1>4 DEF Take, Hand, FifoInv, WorkersAreAsked
    <2>2. h \in Mail /\ h # None /\ Append(<<>>, h) = <<h>>
      BY <1>t, <2>1, HeadAndTail, PipelineAssumption
    <2>3. Hand' = Append(<<>>, h)
      BY <2>1, <2>2 DEF Hand
    <2>4. Append(<<>>, h) \o (Tail(queue) \o r) = <<>> \o (queue \o r)
      BY <1>t, <1>h, <2>1, HandOver, SMTT(60)
    <2> QED  BY <1>i, <2>1, <2>3, <2>4
  <1>5. CASE Send
    <2> DEFINE x == <<active>>
    <2>1. /\ x \in Seq(Mail) /\ Hand = x /\ Hand' = <<>> /\ outbox' = outbox \o x
          /\ UNCHANGED <<asked, wire, adding, queue, orphans, up>>
      BY <1>5, <1>t, AppendIsConcat DEF Send, Hand, inRedis
    <2> HIDE DEF x, rest
    <2>o. outbox \in Seq(Mail)
      BY <1>t
    <2>r. rest \in Seq(Mail)
      BY <1>h
    <2>x. x \in Seq(Mail)
      BY <2>1
    <2>2. outbox \o (x \o rest) = (outbox \o x) \o rest
      BY <2>o, <2>r, <2>x, Regroup
    <2>3. <<>> \o rest = rest
      BY <1>h, ConcatEmptySeq
    <2> QED  BY <1>i, <2>1, <2>2, <2>3 DEF rest
  <1>6. CASE Complete
    <2>1. Hand = <<>> /\ Hand' = <<>>
      BY <1>6 DEF Complete, Hand
    <2> QED  BY <1>6, <1>i, <2>1 DEF Complete, inRedis
  <1>7. CASE Restart \/ UNCHANGED vars
    <2>1. UNCHANGED <<asked, wire, adding, queue, outbox, orphans, active, handled>>
      BY <1>7 DEF Restart, vars, inService, inRedis
    <2>2. up'
      BY <1>7, <1>i DEF Restart, vars, inService
    <2> QED  BY <1>i, <2>1, <2>2 DEF Hand
  <1>8. ASSUME NEW m \in Mail, StalledCheck(m)
        PROVE  FALSE
    BY <1>8, <1>i DEF StalledCheck, PutBack, GiveUp
  <1> QED  BY <1>0, <1>1, <1>2, <1>3, <1>4, <1>5, <1>6, <1>7, <1>8 DEF Next, Service

LEMMA FifoCorrect == Spec => []NothingOvertakes
  <1>1. Init => NothingOvertakes
    <2>1. <<>> \o <<>> = <<>>
      BY ConcatEmptySeq, EmptySeq
    <2> QED  BY <2>1 DEF Init, NothingOvertakes, Hand
  <1>2. TypeOK /\ CopiesInv /\ NothingOvertakes /\ [Next]_vars => NothingOvertakes'
    BY NothingIsOvertaken DEF FifoInv, CopiesInv
  <1> QED  BY <1>1, <1>2, TypeCorrect, CopiesCorrect, PTL DEF Spec

(* CleanRunIsFifo: as long as nothing fails, mails leave in the order in   *)
(* which the handlers asked for them, each once, so that the last link     *)
(* that a user asked for is the last that arrives.                         *)
THEOREM CleanRunKeepsOrder == Spec => []CleanRunIsFifo
  <1>1. TypeOK /\ NothingOvertakes => CleanRunIsFifo
    <2> SUFFICES ASSUME TypeOK, NothingOvertakes, faults = 0
                 PROVE  /\ Len(outbox) <= Len(asked)
                        /\ outbox = SubSeq(asked, 1, Len(outbox))
      BY DEF CleanRunIsFifo
    <2> DEFINE rest == Hand \o (queue \o (adding \o wire))
    <2>1. outbox \in Seq(Mail) /\ rest \in Seq(Mail) /\ asked = outbox \o rest
      <3>1. Hand \in Seq(Mail)
        BY DEF Hand, TypeOK
      <3>2. adding \o wire \in Seq(Mail)
        BY ConcatProperties DEF TypeOK
      <3>3. queue \o (adding \o wire) \in Seq(Mail)
        BY <3>2, ConcatProperties DEF TypeOK
      <3>4. rest \in Seq(Mail)
        BY <3>1, <3>3, ConcatProperties
      <3> QED  BY <3>4 DEF TypeOK, NothingOvertakes
    <2> HIDE DEF rest
    <2>2. Len(asked) = Len(outbox) + Len(rest) /\ Len(outbox) \in Nat /\ Len(rest) \in Nat
      BY <2>1, ConcatProperties, LenProperties
    <2> QED  BY <2>1, <2>2, SubSeqOfConcat1, SubSeqFull
  <1> QED  BY <1>1, FifoCorrect, TypeCorrect, PTL

-----------------------------------------------------------------------------
(* The pipeline comes to rest.  Every mail is handed on a bounded number   *)
(* of times, and only a fault, of which there are finitely many, sets one  *)
(* back.                                                                   *)

Worker   == IF active = None THEN 0 ELSE IF handled THEN 1 ELSE 2
Down     == IF up THEN 0 ELSE 1
Unasked  == Cardinality(Mail \ Elements(asked))
Orphaned == Cardinality(orphans)

(* The steps that can still come, each mail that nobody asked for yet and  *)
(* each fault that may still happen counted with all it can cause.         *)
Work ==
    6 * Unasked + 5 * Len(wire) + 4 * Len(adding) + 3 * Len(queue) + Worker
        + 4 * Orphaned + Down + 5 * (MaxFaults - faults)

LEMMA WorkIsCounted ==
    ASSUME IsFiniteSet(Mail), TypeOK
    PROVE  /\ Unasked \in Nat /\ Orphaned \in Nat
           /\ IsFiniteSet(Mail \ Elements(asked)) /\ IsFiniteSet(orphans)
           /\ Len(wire) \in Nat /\ Len(adding) \in Nat /\ Len(queue) \in Nat
           /\ Worker \in 0..2 /\ Down \in 0..1
           /\ MaxFaults \in Nat /\ faults \in 0..MaxFaults /\ Work \in Nat
  <1>1. (Mail \ Elements(asked)) \in SUBSET Mail /\ orphans \in SUBSET Mail
    BY DEF TypeOK
  <1>2. IsFiniteSet(Mail \ Elements(asked))
    BY <1>1, FS_Subset
  <1>3. IsFiniteSet(orphans)
    BY <1>1, FS_Subset
  <1>4. Unasked \in Nat
    BY <1>2, FS_CardinalityType DEF Unasked
  <1>5. Orphaned \in Nat
    BY <1>3, FS_CardinalityType DEF Orphaned
  <1>6. Len(wire) \in Nat /\ Len(adding) \in Nat /\ Len(queue) \in Nat
    BY DEF TypeOK
  <1>7. Worker \in 0..2 /\ Down \in 0..1
    BY DEF Worker, Down
  <1>8. MaxFaults \in Nat /\ faults \in 0..MaxFaults
    BY PipelineAssumption DEF TypeOK
  <1>9. Work \in Nat
    BY <1>4, <1>5, <1>6, <1>7, <1>8 DEF Work
  <1> QED  BY <1>2, <1>3, <1>4, <1>5, <1>6, <1>7, <1>8, <1>9

LEMMA WorkIsCountedAfter ==
    ASSUME IsFiniteSet(Mail), TypeOK'
    PROVE  Work' \in Nat
  <1>1. (Mail \ Elements(asked')) \in SUBSET Mail /\ orphans' \in SUBSET Mail
    BY DEF TypeOK
  <1>2. IsFiniteSet(Mail \ Elements(asked'))
    BY <1>1, FS_Subset
  <1>3. IsFiniteSet(orphans')
    BY <1>1, FS_Subset
  <1>4. Unasked' \in Nat
    <2>1. Unasked' = Cardinality(Mail \ Elements(asked'))
      BY DEF Unasked
    <2> QED  BY <1>2, <2>1, FS_CardinalityType
  <1>5. Orphaned' \in Nat
    <2>1. Orphaned' = Cardinality(orphans')
      BY DEF Orphaned
    <2> QED  BY <1>3, <2>1, FS_CardinalityType
  <1>6. Len(wire') \in Nat /\ Len(adding') \in Nat /\ Len(queue') \in Nat
    BY DEF TypeOK
  <1>7. Worker' \in 0..2 /\ Down' \in 0..1
    BY DEF Worker, Down
  <1>8. MaxFaults \in Nat /\ faults' \in 0..MaxFaults
    BY PipelineAssumption DEF TypeOK
  <1>9. Work' = 6 * Unasked' + 5 * Len(wire') + 4 * Len(adding') + 3 * Len(queue')
                  + Worker' + 4 * Orphaned' + Down' + 5 * (MaxFaults - faults')
    BY DEF Work
  <1>10. PICK u \in Nat : u = Unasked'
    BY <1>4
  <1>11. PICK o \in Nat : o = Orphaned'
    BY <1>5
  <1>12. PICK w \in 0..2 : w = Worker'
    BY <1>7
  <1>13. PICK d \in 0..1 : d = Down'
    BY <1>7
  <1>14. PICK f \in 0..MaxFaults : f = faults'
    BY <1>8
  <1>15. Work' = 6 * u + 5 * Len(wire') + 4 * Len(adding') + 3 * Len(queue')
                   + w + 4 * o + d + 5 * (MaxFaults - f)
    BY <1>9, <1>10, <1>11, <1>12, <1>13, <1>14, Zenon
  <1>16. MaxFaults \in Nat
    BY <1>8
  <1> QED  BY <1>6, <1>15, <1>16

LEMMA WorkGoesDown ==
    ASSUME IsFiniteSet(Mail), TypeOK, Next
    PROVE  Work' < Work
  <1>0. /\ Unasked \in Nat /\ Orphaned \in Nat
        /\ IsFiniteSet(Mail \ Elements(asked)) /\ IsFiniteSet(orphans)
        /\ Len(wire) \in Nat /\ Len(adding) \in Nat /\ Len(queue) \in Nat
        /\ Worker \in 0..2 /\ Down \in 0..1
        /\ MaxFaults \in Nat /\ faults \in 0..MaxFaults
    BY WorkIsCounted
  <1>t. /\ asked \in Seq(Mail) /\ wire \in Seq(Mail) /\ adding \in Seq(Mail)
        /\ queue \in Seq(Mail) /\ active \in Mail \cup {None} /\ None \notin Mail
        /\ orphans \subseteq Mail
    BY PipelineAssumption DEF TypeOK
  <1>w. Work' = 6 * Unasked' + 5 * Len(wire') + 4 * Len(adding') + 3 * Len(queue')
                  + Worker' + 4 * Orphaned' + Down' + 5 * (MaxFaults - faults')
    BY DEF Work
  <1>l. ASSUME NEW q \in Seq(Mail), q # <<>>
        PROVE  Len(Tail(q)) = Len(q) - 1 /\ Head(q) \in Mail
    BY <1>l, HeadTailProperties
  <1>1. ASSUME NEW m \in Mail, Emit(m)
        PROVE  Work' < Work
    <2>1. Elements(asked') = Elements(asked) \cup {m} /\ m \notin Elements(asked)
      BY <1>t, <1>1, AskedGrows DEF Emit
    <2>2. Mail \ Elements(asked') = (Mail \ Elements(asked)) \ {m}
      BY <2>1
    <2>3. Cardinality((Mail \ Elements(asked)) \ {m})
             = Cardinality(Mail \ Elements(asked)) - 1
      BY <1>0, <2>1, FS_RemoveElement
    <2>4. Unasked' = Unasked - 1
      BY <2>2, <2>3 DEF Unasked
    <2>5. Len(wire') \in {Len(wire), Len(wire) + 1}
      BY <1>t, <1>1, AppendProperties DEF Emit
    <2>6. /\ Worker' = Worker /\ Orphaned' = Orphaned /\ Down' = Down
          /\ UNCHANGED <<adding, queue, faults>>
      BY <1>1 DEF Emit, Worker, Orphaned, Down
    <2> QED  BY <1>0, <1>w, <2>4, <2>5, <2>6 DEF Work
  <1>2. CASE Receive
    <2>1. Len(wire') = Len(wire) - 1 /\ Len(adding') = Len(adding) + 1
      BY <1>t, <1>l, <1>2, AppendProperties DEF Receive
    <2>2. /\ Unasked' = Unasked /\ Worker' = Worker /\ Orphaned' = Orphaned
          /\ Down' = Down /\ UNCHANGED <<queue, faults>>
      BY <1>2 DEF Receive, inRedis, Unasked, Worker, Orphaned, Down
    <2> QED  BY <1>0, <1>w, <2>1, <2>2 DEF Work
  <1>3. CASE Added
    <2>1. Len(adding') = Len(adding) - 1 /\ Len(queue') = Len(queue) + 1
      BY <1>t, <1>l, <1>3, AppendProperties DEF Added
    <2>2. /\ Unasked' = Unasked /\ Worker' = Worker /\ Orphaned' = Orphaned
          /\ Down' = Down /\ UNCHANGED <<wire, faults>>
      BY <1>3 DEF Added, Unasked, Worker, Orphaned, Down
    <2> QED  BY <1>0, <1>w, <2>1, <2>2 DEF Work
  <1>4. CASE Take
    <2>1. Len(queue') = Len(queue) - 1
      BY <1>t, <1>l, <1>4 DEF Take
    <2>2. Worker = 0 /\ Worker' \in {1, 2}
      <3>1. active = None /\ active' \in Mail
        BY <1>t, <1>l, <1>4 DEF Take
      <3> QED  BY <1>t, <3>1 DEF Worker
    <2>3. /\ Unasked' = Unasked /\ Orphaned' = Orphaned
          /\ Down' = Down /\ UNCHANGED <<wire, adding, faults>>
      BY <1>4 DEF Take, Unasked, Orphaned, Down
    <2> QED  BY <1>0, <1>w, <2>1, <2>2, <2>3 DEF Work
  <1>5. CASE Send \/ SendFails
    <2>1. Worker = 2 /\ Worker' = 1
      BY <1>5 DEF Send, SendFails, Worker
    <2>2. faults' \in {faults, faults + 1}
      BY <1>5 DEF Send, SendFails
    <2>3. /\ Unasked' = Unasked /\ Orphaned' = Orphaned
          /\ Down' = Down /\ UNCHANGED <<wire, adding, queue>>
      <3>1. UNCHANGED <<asked, orphans, up, wire, adding, queue>>
        BY <1>5 DEF Send, SendFails, inRedis
      <3> QED  BY <3>1 DEF Unasked, Orphaned, Down
    <2> QED  BY <1>0, <1>w, <2>1, <2>2, <2>3 DEF Work
  <1>6. CASE Complete
    <2>1. Worker = 1 /\ Worker' = 0
      BY <1>6 DEF Complete, Worker
    <2>2. /\ Unasked' = Unasked /\ Orphaned' = Orphaned
          /\ Down' = Down /\ UNCHANGED <<wire, adding, queue, faults>>
      BY <1>6 DEF Complete, inRedis, Unasked, Orphaned, Down
    <2> QED  BY <1>0, <1>w, <2>1, <2>2 DEF Work
  <1>7. CASE Crash
    <2>1. PICK n \in 0..Len(adding) : queue' = queue \o SubSeq(adding, 1, n)
      BY <1>7 DEF Crash
    <2>2. Len(queue') <= Len(queue) + Len(adding) /\ Len(queue') \in Nat
      <3>1. n \in Int /\ 1 \in Int /\ \A i \in 1..n : adding[i] \in Mail
        BY <1>0, <1>t, <2>1, ElementOfSeq
      <3>2. /\ SubSeq(adding, 1, n) \in Seq(Mail)
            /\ Len(SubSeq(adding, 1, n)) = IF 1 <= n THEN n - 1 + 1 ELSE 0
        BY <3>1, SubSeqProperties
      <3>3. Len(queue') = Len(queue) + Len(SubSeq(adding, 1, n))
        BY <1>t, <2>1, <3>2, ConcatProperties
      <3> QED  BY <1>0, <2>1, <3>2, <3>3
    <2>3. /\ Len(wire') = 0 /\ Len(adding') = 0 /\ faults' = faults + 1
          /\ Worker' = 0 /\ Down = 0 /\ Down' = 1 /\ Unasked' = Unasked
      BY <1>7, EmptySeq DEF Crash, Worker, Down, Unasked
    <2>4. \/ Orphaned' = Orphaned
          \/ Worker >= 1 /\ Orphaned' \in {Orphaned, Orphaned + 1}
      <3>1. CASE active = None
        <4>1. orphans' = orphans
          BY <1>7, <3>1 DEF Crash
        <4> QED  BY <4>1 DEF Orphaned
      <3>2. CASE active # None
        <4>1. orphans' = orphans \cup {active}
          BY <1>7, <3>2 DEF Crash
        <4>2. Cardinality(orphans \cup {active})
                 \in {Cardinality(orphans), Cardinality(orphans) + 1}
          BY <1>0, FS_AddElement
        <4> QED  BY <3>2, <4>1, <4>2 DEF Orphaned, Worker
      <3> QED  BY <3>1, <3>2
    <2> QED  BY <1>0, <1>w, <2>2, <2>3, <2>4, SMTT(60) DEF Work
  <1>8. CASE Restart
    <2>1. /\ Down = 1 /\ Down' = 0 /\ Unasked' = Unasked /\ Orphaned' = Orphaned
          /\ Worker' = Worker /\ UNCHANGED <<wire, adding, queue, faults>>
      BY <1>8 DEF Restart, inRedis, Unasked, Orphaned, Down, Worker
    <2> QED  BY <1>0, <1>w, <2>1 DEF Work
  <1>9. ASSUME NEW m \in Mail, StalledCheck(m)
        PROVE  Work' < Work
    <2>1. m \in orphans /\ orphans' = orphans \ {m}
      BY <1>9 DEF StalledCheck, PutBack, GiveUp
    <2>2. Cardinality(orphans \ {m}) = Cardinality(orphans) - 1
      BY <1>0, <2>1, FS_RemoveElement
    <2>3. Orphaned' = Orphaned - 1
      BY <2>1, <2>2 DEF Orphaned
    <2>4. Len(queue') \in {Len(queue), Len(queue) + 1}
      <3>1. CASE GiveUp(m)
        BY <3>1 DEF GiveUp
      <3>2. CASE PutBack(m)
        <4>1. <<m>> \in Seq(Mail) /\ Len(<<m>>) = 1 /\ queue' = <<m>> \o queue
          BY <3>2 DEF PutBack
        <4>2. Len(<<m>> \o queue) = Len(<<m>>) + Len(queue)
          BY <1>t, <4>1, ConcatProperties
        <4> QED  BY <1>0, <4>1, <4>2
      <3> QED  BY <1>9, <3>1, <3>2 DEF StalledCheck
    <2>5. /\ Unasked' = Unasked /\ Worker' = Worker /\ Down' = Down
          /\ UNCHANGED <<wire, adding, faults>>
      <3>1. UNCHANGED <<asked, wire, adding, active, handled, up, faults>>
        BY <1>9 DEF StalledCheck, PutBack, GiveUp, inService
      <3> QED  BY <3>1 DEF Unasked, Worker, Down
    <2> QED  BY <1>0, <1>w, <2>3, <2>4, <2>5 DEF Work
  <1> QED  BY <1>1, <1>2, <1>3, <1>4, <1>5, <1>6, <1>7, <1>8, <1>9 DEF Next, Service

Draining == Work \in Nat /\ Work' \in Nat /\ Work' < Work

(* Whatever crashes and whatever the transport answers, no step of the     *)
(* pipeline can be taken for ever: each takes some of the work that is     *)
(* left, also those that put a job back or add what was half added.  This  *)
(* is the variant behind CleanRunDelivers and the liveness of KeepsPromise.*)
THEOREM PipelineRunsDry ==
    ASSUME IsFiniteSet(Mail)
    PROVE  Spec => [][Draining]_vars
  <1>1. TypeOK /\ TypeOK' /\ [Next]_vars => [Draining]_vars
    <2> SUFFICES ASSUME TypeOK, TypeOK', Next
                 PROVE  Draining
      OBVIOUS
    <2>1. Work \in Nat
      BY WorkIsCounted
    <2>2. Work' < Work
      BY WorkGoesDown
    <2>3. Work' \in Nat
      BY WorkIsCountedAfter
    <2> QED  BY <2>1, <2>2, <2>3 DEF Draining
  <1> QED  BY <1>1, TypeCorrect, PTL DEF Spec

AtRest ==
    /\ wire = <<>> /\ adding = <<>> /\ queue = <<>>
    /\ active = None /\ orphans = {}

(* When it has come to rest no mail is under way any more: each that was   *)
(* asked for was delivered or lost, and if nothing failed the outbox holds *)
(* exactly what was asked for.                                             *)
THEOREM RestIsSettled ==
    Spec => [](AtRest => /\ \A m \in Mail : Fate(m) # "asked"
                         /\ faults = 0 => outbox = asked)
  <1>1. ASSUME AtRest, NEW m \in Mail
        PROVE  Fate(m) # "asked"
    <2>1. m # active /\ m \notin orphans
      BY <1>1, PipelineAssumption DEF AtRest
    <2>2. Unsent(m) = 0
      BY <1>1, <2>1, CopiesOfNothing DEF AtRest, Unsent
    <2> QED  BY <2>1, <2>2 DEF Fate
  <1>2. ASSUME TypeOK, NothingOvertakes, AtRest, faults = 0
        PROVE  outbox = asked
    <2>1. asked = outbox \o (Hand \o (queue \o (adding \o wire)))
      BY <1>2 DEF NothingOvertakes
    <2>2. Hand = <<>> /\ queue = <<>> /\ adding = <<>> /\ wire = <<>>
      BY <1>2 DEF AtRest, Hand
    <2>3. <<>> \o <<>> = <<>> /\ outbox \o <<>> = outbox
      BY ConcatEmptySeq, EmptySeq DEF TypeOK
    <2> QED  BY <2>1, <2>2, <2>3
  <1>3. TypeOK /\ NothingOvertakes =>
           (AtRest => /\ \A m \in Mail : Fate(m) # "asked"
                      /\ faults = 0 => outbox = asked)
    BY <1>1, <1>2
  <1> QED  BY <1>3, TypeCorrect, FifoCorrect, PTL

=============================================================================
