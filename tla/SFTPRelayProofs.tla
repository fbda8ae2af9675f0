---------------------------- MODULE SFTPRelayProofs ----------------------------
(***************************************************************************)
(* Proofs about SFTPRelay, for any number of packets, handles and paths    *)
(* and reads of any size: the types, the order of the recorded operations, *)
(* and the paths they name.                                                *)
(***************************************************************************)
EXTENDS SFTPRelay, SequenceTheorems, NaturalsInduction, WellFoundedInduction, TLAPS

USE SFTPAssumption

-------------------------------------------------------------------------------
(***************************************************************************)
(* The stream of requests: what is written and not in the buffer is        *)
(* parsed, and the buffer starts with the first half of a packet.          *)
(***************************************************************************)
ParsedRequests == (fwd - Len(buf)) \div 2

StreamWhole ==
  /\ ParsedRequests \in Nat /\ fwd = 2 * ParsedRequests + Len(buf)
  /\ \A k \in 1 .. Len(buf) : buf[k] = Half(2 * ParsedRequests + k)
  /\ ~feeding => Len(buf) <= 1

-------------------------------------------------------------------------------
(***************************************************************************)
(* The client and the server: who has a handle, and since when.            *)
(***************************************************************************)
Opens(k, h) == replies[k].type = "handle" /\ replies[k].handle = h

Closes(m, h) == sent[m].op = "close" /\ sent[m].handle = h

\* No request after the k-th and up to the m-th closes h.
Unclosed(h, k, m) == \A x \in k + 1 .. m : ~Closes(x, h)

AnswersMatch ==
  /\ 2 * served <= fwd
  /\ \A k \in 1 .. served :
       /\ replies[k].id = k
       /\ replies[k].type = "handle" => sent[k].op \in {"open", "opendir"} /\ replies[k].handle \in Handles
       /\ replies[k].type = "data" => sent[k].op = "read"

\* The client was given h for the file f, and none of its first m requests since
\* closes it.
Given(h, f, m) ==
  \E k \in 1 .. rfwd : k <= m /\ Opens(k, h) /\ sent[k].path = f /\ Unclosed(h, k, m)

\* A request by handle follows the answer that gave the handle out.
GivenFor(q, i) ==
  /\ q.path # NoPath
  /\ q.op \in ByHandle => q.handle \in Handles /\ Given(q.handle, q.path, i - 1)

HandlesGiven == \A i \in 1 .. Len(sent) : GivenFor(sent[i], i)

ClientKnows == \A h \in Handles : mine[h] # NoPath => Given(h, mine[h], Len(sent))

\* The server gives a handle out again only after it was closed.
GivenAgain ==
  \A h \in Handles : \A j, k \in 1 .. served :
    j < k /\ Opens(j, h) /\ Opens(k, h) => ~Unclosed(h, j, k - 1)

ServerKnows ==
  \A h \in Handles : \A k \in 1 .. served :
    Opens(k, h) /\ Unclosed(h, k, served) => files[h] = sent[k].path

Exchange == AnswersMatch /\ HandlesGiven /\ ClientKnows /\ GivenAgain /\ ServerKnows

-------------------------------------------------------------------------------
(***************************************************************************)
(* The relay, as long as neither parser has overtaken the other.           *)
(***************************************************************************)
RelayKnows ==
  \A h \in Handles : \A k \in 1 .. rparsed :
    Opens(k, h) /\ Unclosed(h, k, ParsedRequests) => handles[h] = sent[k].path

AwaitsAnswers ==
  \A k \in rparsed + 1 .. ParsedRequests :
    /\ sent[k].op \in {"open", "opendir"} => pending[k] = [op |-> sent[k].op, path |-> sent[k].path, handle |-> 0]
    /\ sent[k].op = "read" => pending[k] = [op |-> "read", path |-> sent[k].path, handle |-> sent[k].handle]

EntriesTrue ==
  \A k \in 1 .. Len(fileLog) : fileLog[k].id \in 1 .. Len(sent) /\ fileLog[k].path = sent[fileLog[k].id].path

InTime == rparsed <= ParsedRequests /\ RelayKnows /\ AwaitsAnswers /\ EntriesTrue

\* What the client's side has recorded, packet by packet.
Own(k) == k \in 1 .. Len(fileLog) /\ fileLog[k].request

RecordedSoFar ==
  /\ \A i \in 1 .. ParsedRequests : sent[i].op \in Told => \E k \in 1 .. Len(fileLog) : Own(k) /\ fileLog[k].id = i
  /\ \A k \in 1 .. Len(fileLog) : Own(k) => fileLog[k].id \in 1 .. ParsedRequests /\ sent[fileLog[k].id].op \in Told
  /\ \A j, k \in 1 .. Len(fileLog) : Own(j) /\ Own(k) /\ j < k => fileLog[j].id < fileLog[k].id

SFTPInv ==
  SFTPTypeOK /\ StreamWhole /\ Exchange /\ RecordedSoFar /\ (overtaken \/ InTime)
-------------------------------------------------------------------------------
(***************************************************************************)
(* Numbers.                                                                *)
(***************************************************************************)

\* The halves of the i-th packet.
LEMMA HalvesOf ==
  ASSUME NEW i \in Nat \ {0}
  PROVE  Half(2 * i - 1) = <<i, 1>> /\ Half(2 * i) = <<i, 2>>
<1>1. ((2 * i - 1) + 1) \div 2 = i /\ (2 * i - 1) % 2 = 1
  OBVIOUS
<1>2. (2 * i + 1) \div 2 = i /\ (2 * i) % 2 = 0
  OBVIOUS
<1> QED
  BY <1>1, <1>2 DEF Half

\* A half that is written is one of a packet.
LEMMA HalfTyped ==
  ASSUME NEW k \in 1 .. 2 * MaxPackets
  PROVE  Half(k) \in Ids \X {1, 2}
<1>1. (k + 1) \div 2 \in 1 .. MaxPackets
  OBVIOUS
<1> QED
  BY <1>1 DEF Half, Ids

\* Halving an even number, and one that is not.
LEMMA Halved ==
  ASSUME NEW i \in Nat
  PROVE  (2 * i) \div 2 = i /\ (2 * i + 1) \div 2 = i
OBVIOUS

LessPairs == {p \in Nat \X Nat : p[1] < p[2]}

\* A set of handles has a least one.
LEMMA LeastHandle ==
  ASSUME NEW T \in SUBSET Nat, T # {}
  PROVE  \E x \in T : \A y \in T : x <= y
<1>1. IsWellFoundedOn(LessPairs, Nat)
  BY NatLessThanWellFounded, Zenon DEF OpToRel, LessPairs
<1>2. PICK x \in T : \A y \in T : <<y, x>> \notin LessPairs
  BY <1>1, WFMin, Zenon
<1>3. ASSUME NEW y \in T PROVE x <= y
  <2>1. <<y, x>>[1] = y /\ <<y, x>>[2] = x /\ <<y, x>> \in Nat \X Nat
    OBVIOUS
  <2>2. ~(y < x)
    BY <1>2, <2>1, Zenon DEF LessPairs
  <2> QED
    BY <2>2
<1> QED
  BY <1>3

\* The counters are in order.
LEMMA Counters ==
  ASSUME SFTPTypeOK, StreamWhole, AnswersMatch
  PROVE  /\ Len(sent) \in Nat /\ served \in Nat /\ rfwd \in Nat /\ rparsed \in Nat /\ fwd \in Nat
         /\ Len(buf) \in Nat /\ Len(fileLog) \in Nat /\ ParsedRequests \in Nat
         /\ rparsed <= rfwd /\ rfwd <= served /\ served <= Len(sent)
         /\ ParsedRequests <= Len(sent) /\ Len(replies) = served
         /\ 2 * served <= fwd /\ fwd = 2 * ParsedRequests + Len(buf) /\ fwd <= 2 * Len(sent)
         /\ Len(sent) <= MaxPackets
<1>1. Len(sent) \in Nat /\ Len(buf) \in Nat /\ Len(fileLog) \in Nat /\ Len(replies) \in Nat
  BY LenProperties DEF SFTPTypeOK
<1>2. /\ served \in 0 .. Len(sent) /\ rfwd \in 0 .. Len(replies) /\ rparsed \in 0 .. rfwd /\ Len(replies) = served
      /\ fwd \in 0 .. 2 * Len(sent) /\ Len(sent) <= MaxPackets
  BY DEF SFTPTypeOK
<1>3. ParsedRequests \in Nat /\ fwd = 2 * ParsedRequests + Len(buf) /\ 2 * served <= fwd
  BY DEF StreamWhole, AnswersMatch
<1> QED
  BY <1>1, <1>2, <1>3

\* The start.
LEMMA SFTPStart == SFTPInit => SFTPInv
<1> SUFFICES ASSUME SFTPInit PROVE SFTPInv
  OBVIOUS
<1>0. /\ sent = <<>> /\ replies = <<>> /\ buf = <<>> /\ fileLog = <<>> /\ fwd = 0 /\ served = 0
      /\ rfwd = 0 /\ rparsed = 0 /\ feeding = FALSE /\ overtaken = FALSE
      /\ mine = [h \in Handles |-> NoPath]
  BY DEF SFTPInit
<1>1. SFTPTypeOK
  <2>1. None \in Pending
    BY DEF None, Pending
  <2>2. pending \in [Ids -> Pending]
    BY <2>1 DEF SFTPInit
  <2>3. mine \in Names /\ files \in Names /\ handles \in Names
    BY DEF SFTPInit, Names
  <2>4. Len(sent) = 0 /\ Len(replies) = 0
    BY <1>0
  <2>5. sent \in Seq(Packet) /\ Len(sent) <= MaxPackets /\ replies \in Seq(Reply) /\ Len(replies) = served
    BY <1>0, <2>4
  <2>6. buf \in Seq(Ids \X {1, 2}) /\ fileLog \in Seq(Entry)
    BY <1>0
  <2>7. fwd \in 0 .. 2 * Len(sent) /\ served \in 0 .. Len(sent) /\ rfwd \in 0 .. Len(replies) /\ rparsed \in 0 .. rfwd
    BY <1>0, <2>4
  <2>8. feeding \in BOOLEAN /\ overtaken \in BOOLEAN
    BY <1>0
  <2> QED
    BY <2>2, <2>3, <2>5, <2>6, <2>7, <2>8 DEF SFTPTypeOK
<1>2. ParsedRequests = 0 /\ Len(buf) = 0 /\ Len(sent) = 0 /\ Len(fileLog) = 0
  <2>1. (0 - 0) \div 2 = 0
    OBVIOUS
  <2> QED
    BY <1>0, <2>1 DEF ParsedRequests
<1>3. StreamWhole
  BY <1>0, <1>2 DEF StreamWhole
<1>4. Exchange
  BY <1>0, <1>2 DEF Exchange, AnswersMatch, HandlesGiven, ClientKnows, GivenAgain, ServerKnows
<1>5. RecordedSoFar
  BY <1>2 DEF RecordedSoFar
<1>6. InTime
  BY <1>0, <1>2 DEF InTime, RelayKnows, AwaitsAnswers, EntriesTrue
<1> QED
  BY <1>1, <1>3, <1>4, <1>5, <1>6 DEF SFTPInv

-------------------------------------------------------------------------------
\* What does not change with the stream of requests as it is.
LEMMA StreamKept ==
  ASSUME StreamWhole, UNCHANGED <<fwd, buf, feeding>>
  PROVE  StreamWhole' /\ ParsedRequests' = ParsedRequests
BY DEF StreamWhole, ParsedRequests

\* The log and the relay's tables, when requests and answers are only added to
\* and none is parsed.
LEMMA RelayKept ==
  ASSUME SFTPTypeOK, StreamWhole, AnswersMatch, RecordedSoFar, overtaken \/ InTime,
         ParsedRequests' = ParsedRequests,
         UNCHANGED <<rparsed, pending, handles, fileLog, overtaken>>,
         Len(sent') \in Nat, Len(sent) <= Len(sent'),
         \A i \in 1 .. Len(sent) : sent'[i] = sent[i],
         \A k \in 1 .. served : replies'[k] = replies[k]
  PROVE  RecordedSoFar' /\ (overtaken' \/ InTime')
<1>0. /\ Len(sent) \in Nat /\ served \in Nat /\ rparsed \in Nat /\ Len(fileLog) \in Nat
      /\ ParsedRequests \in Nat /\ ParsedRequests <= Len(sent) /\ rparsed <= served
      /\ served <= Len(sent)
  BY Counters
<1>1. PICK p \in Nat : p = ParsedRequests /\ p = ParsedRequests' /\ p <= Len(sent)
  BY <1>0
<1>2. \A i \in 1 .. p : sent'[i] = sent[i]
  BY <1>0, <1>1
<1>3. RecordedSoFar'
  BY <1>1, <1>2 DEF RecordedSoFar, Own
<1>4. ASSUME InTime PROVE InTime'
  <2>1. RelayKnows'
    <3> SUFFICES ASSUME NEW h \in Handles, NEW k \in 1 .. rparsed, Opens(k, h)', Unclosed(h, k, ParsedRequests)'
                 PROVE  handles'[h] = sent'[k].path
      BY DEF RelayKnows
    <3>1. k \in 1 .. served /\ k \in 1 .. Len(sent)
      BY <1>0
    <3>2. Opens(k, h)
      BY <3>1 DEF Opens
    <3>3. \A x \in k + 1 .. p : x \in 1 .. p
      BY <1>1
    <3>4. Unclosed(h, k, p)
      BY <1>1, <1>2, <3>3 DEF Unclosed, Closes
    <3> QED
      BY <1>1, <1>4, <3>1, <3>2, <3>4 DEF InTime, RelayKnows
  <2>2. AwaitsAnswers'
    <3>1. \A k \in rparsed + 1 .. p : k \in 1 .. p
      BY <1>0, <1>1
    <3> QED
      BY <1>1, <1>2, <1>4, <3>1 DEF InTime, AwaitsAnswers
  <2>3. EntriesTrue'
    <3>1. \A i \in 1 .. Len(sent) : i \in 1 .. Len(sent')
      BY <1>0
    <3> QED
      BY <1>4, <3>1 DEF InTime, EntriesTrue
  <2> QED
    BY <1>1, <1>4, <2>1, <2>2, <2>3 DEF InTime
<1> QED
  BY <1>3, <1>4

-------------------------------------------------------------------------------
(***************************************************************************)
(* A request is added.                                                     *)
(***************************************************************************)
LEMMA SendsKept ==
  ASSUME SFTPInv, NEW p \in Packet, Sends(p), p.path # NoPath,
         p.op \in ByHandle => p.handle \in Handles /\ mine[p.handle] = p.path
  PROVE  SFTPInv'
<1>0. /\ SFTPTypeOK /\ StreamWhole /\ AnswersMatch /\ HandlesGiven /\ ClientKnows /\ GivenAgain /\ ServerKnows
      /\ RecordedSoFar /\ (overtaken \/ InTime)
  BY DEF SFTPInv, Exchange
<1>1. /\ Len(sent) < MaxPackets /\ sent' = Append(sent, p)
      /\ mine' = IF p.op = "close" THEN [mine EXCEPT ![p.handle] = NoPath] ELSE mine
      /\ UNCHANGED <<fwd, buf, feeding, served, files, replies, rfwd, rparsed, pending, handles, fileLog, overtaken>>
  BY DEF Sends
<1>2. /\ Len(sent) \in Nat /\ served \in Nat /\ rfwd \in Nat /\ rparsed \in Nat /\ fwd \in Nat
      /\ rfwd <= served /\ served <= Len(sent) /\ Len(replies) = served /\ fwd <= 2 * Len(sent)
  BY <1>0, Counters
<1>3. sent \in Seq(Packet) /\ mine \in Names
  BY <1>0 DEF SFTPTypeOK
<1>4. /\ sent' \in Seq(Packet) /\ Len(sent') = Len(sent) + 1 /\ sent'[Len(sent) + 1] = p
      /\ \A i \in 1 .. Len(sent) : sent'[i] = sent[i]
  BY <1>1, <1>3, AppendProperties
<1>5. SFTPTypeOK'
  <2>1. mine' \in Names
    BY <1>1, <1>3 DEF Names
  <2>2. fwd \in 0 .. 2 * Len(sent') /\ served \in 0 .. Len(sent') /\ Len(sent') <= MaxPackets
    BY <1>1, <1>2, <1>4
  <2> QED
    BY <1>0, <1>1, <1>4, <2>1, <2>2 DEF SFTPTypeOK
<1>6. StreamWhole' /\ ParsedRequests' = ParsedRequests
  BY <1>0, <1>1, StreamKept
<1>7. RecordedSoFar' /\ (overtaken' \/ InTime')
  <2>1. Len(sent') \in Nat /\ Len(sent) <= Len(sent')
    BY <1>2, <1>4
  <2> QED
    BY <1>0, <1>1, <1>4, <1>6, <2>1, RelayKept
<1>8. ASSUME NEW h \in Handles, NEW k \in Nat, NEW m \in 0 .. Len(sent)
      PROVE  Unclosed(h, k, m)' <=> Unclosed(h, k, m)
  <2>1. \A x \in k + 1 .. m : x \in 1 .. Len(sent)
    BY <1>2
  <2> QED
    BY <1>4, <2>1 DEF Unclosed, Closes
<1>9. ASSUME NEW h \in Handles, NEW f, NEW m \in 0 .. Len(sent), Given(h, f, m) PROVE Given(h, f, m)'
  <2>1. PICK k \in 1 .. rfwd : k <= m /\ Opens(k, h) /\ sent[k].path = f /\ Unclosed(h, k, m)
    BY <1>9 DEF Given
  <2>2. k \in Nat /\ k \in 1 .. Len(sent)
    BY <1>2
  <2>3. Unclosed(h, k, m)'
    BY <1>8, <2>1, <2>2
  <2>4. Opens(k, h)' /\ sent'[k].path = f
    BY <1>1, <1>4, <2>1, <2>2 DEF Opens
  <2> QED
    BY <1>1, <2>1, <2>3, <2>4 DEF Given
<1>10. AnswersMatch'
  <2>1. \A k \in 1 .. served : sent'[k] = sent[k]
    BY <1>2, <1>4
  <2>2. served' = served /\ fwd' = fwd /\ replies' = replies
    BY <1>1
  <2> QED
    BY <1>0, <2>1, <2>2 DEF AnswersMatch
<1>11. HandlesGiven'
  <2>1. ASSUME NEW i \in 1 .. Len(sent'), NEW q \in Packet, q = sent'[i] PROVE GivenFor(q, i)'
    <3>1. CASE i \in 1 .. Len(sent)
      <4>1. GivenFor(q, i)
        BY <1>0, <1>4, <2>1, <3>1 DEF HandlesGiven
      <4>2. i - 1 \in 0 .. Len(sent)
        BY <1>2, <3>1
      <4> QED
        BY <1>9, <4>1, <4>2 DEF GivenFor
    <3>2. CASE i = Len(sent) + 1
      <4>1. q = p /\ i - 1 = Len(sent) /\ i - 1 \in 0 .. Len(sent)
        BY <1>2, <1>4, <2>1, <3>2
      <4>2. ASSUME q.op \in ByHandle PROVE q.handle \in Handles /\ Given(q.handle, q.path, i - 1)
        BY <1>0, <4>1, <4>2 DEF ClientKnows
      <4> QED
        BY <1>9, <4>1, <4>2 DEF GivenFor
    <3> QED
      BY <1>2, <1>4, <3>1, <3>2
  <2>2. \A i \in 1 .. Len(sent') : sent'[i] \in Packet
    BY <1>4, ElementOfSeq
  <2> QED
    BY <2>1, <2>2 DEF HandlesGiven
<1>12. ClientKnows'
  <2>1. ASSUME NEW h \in Handles, NEW f, f = mine'[h], f # NoPath, NEW m \in Nat, m = Len(sent')
        PROVE  Given(h, f, m)'
    <3>1. f = mine[h] /\ ~(p.op = "close" /\ p.handle = h)
      BY <1>1, <1>3, <2>1 DEF Names
    <3>2. Given(h, f, Len(sent))
      BY <1>0, <2>1, <3>1 DEF ClientKnows
    <3>3. PICK k \in 1 .. rfwd : k <= Len(sent) /\ Opens(k, h) /\ sent[k].path = f /\ Unclosed(h, k, Len(sent))
      BY <3>2 DEF Given
    <3>4. k \in Nat /\ k \in 1 .. Len(sent)
      BY <1>2
    <3>5. m = Len(sent) + 1
      BY <1>2, <1>4, <2>1
    <3>6. Unclosed(h, k, m)'
      <4>1. ASSUME NEW x \in k + 1 .. m PROVE ~Closes(x, h)'
        <5>1. x \in k + 1 .. Len(sent) \/ x = Len(sent) + 1
          BY <1>2, <3>4, <3>5
        <5>2. CASE x = Len(sent) + 1
          BY <1>4, <3>1, <5>2 DEF Closes
        <5>3. CASE x \in k + 1 .. Len(sent)
          <6>1. x \in 1 .. Len(sent) /\ ~Closes(x, h)
            BY <1>2, <3>3, <3>4, <5>3 DEF Unclosed
          <6> QED
            BY <1>4, <6>1 DEF Closes
        <5> QED
          BY <5>1, <5>2, <5>3
      <4> QED
        BY <4>1 DEF Unclosed
    <3>7. Opens(k, h)' /\ sent'[k].path = f
      BY <1>1, <1>4, <3>3, <3>4 DEF Opens
    <3>8. k <= m
      BY <1>2, <3>4, <3>5
    <3> QED
      BY <1>1, <3>6, <3>7, <3>8 DEF Given
  <2>2. Len(sent') \in Nat
    BY <1>2, <1>4
  <2> QED
    BY <2>1, <2>2 DEF ClientKnows
<1>13. \A k \in 1 .. served : sent'[k] = sent[k] /\ k \in Nat /\ k - 1 \in 0 .. Len(sent)
  BY <1>2, <1>4
<1>14. GivenAgain'
  <2>1. ASSUME NEW h \in Handles, NEW j \in 1 .. served, NEW k \in 1 .. served, j < k, Opens(j, h)', Opens(k, h)'
        PROVE  ~Unclosed(h, j, k - 1)'
    <3>1. Opens(j, h) /\ Opens(k, h)
      BY <1>1, <2>1 DEF Opens
    <3>2. ~Unclosed(h, j, k - 1)
      BY <1>0, <2>1, <3>1 DEF GivenAgain
    <3> QED
      BY <1>8, <1>13, <3>2
  <2> QED
    BY <1>1, <2>1 DEF GivenAgain
<1>15. ServerKnows'
  <2>1. ASSUME NEW h \in Handles, NEW k \in 1 .. served, Opens(k, h)', NEW m \in Nat, m = served, Unclosed(h, k, m)'
        PROVE  files'[h] = sent'[k].path
    <3>1. Opens(k, h) /\ k \in Nat /\ m \in 0 .. Len(sent)
      BY <1>1, <1>2, <2>1 DEF Opens
    <3>2. Unclosed(h, k, m)
      BY <1>8, <2>1, <3>1
    <3> QED
      BY <1>0, <1>1, <1>13, <2>1, <3>1, <3>2 DEF ServerKnows
  <2> QED
    BY <1>1, <1>2, <2>1 DEF ServerKnows
<1> QED
  BY <1>5, <1>6, <1>7, <1>10, <1>11, <1>12, <1>14, <1>15 DEF SFTPInv, Exchange

LEMMA ClientSendsKept ==
  ASSUME SFTPInv, ClientSends
  PROVE  SFTPInv'
<1>1. ASSUME NEW a \in Asked, Sends([op |-> a[1], path |-> a[2], handle |-> 0]) PROVE SFTPInv'
  <2>1. a[1] \in ByPath /\ a[2] \in Paths /\ a[2] # NoPath
    BY DEF ByPath
  <2>2. a[1] \notin ByHandle
    BY <2>1 DEF ByPath, ByHandle
  <2>3. [op |-> a[1], path |-> a[2], handle |-> 0] \in Packet
    BY <2>1 DEF Packet
  <2> QED
    BY <1>1, <2>1, <2>2, <2>3, SendsKept
<1>2. ASSUME NEW op \in ByHandle, NEW h \in Handles, mine[h] # NoPath,
             Sends([op |-> op, path |-> mine[h], handle |-> h])
      PROVE  SFTPInv'
  <2>1. mine[h] \in Paths \cup {NoPath}
    BY DEF SFTPInv, SFTPTypeOK, Names
  <2>2. [op |-> op, path |-> mine[h], handle |-> h] \in Packet
    BY <2>1 DEF Packet
  <2> QED
    BY <1>2, <2>2, SendsKept
<1> QED
  BY <1>1, <1>2 DEF ClientSends

-------------------------------------------------------------------------------
(***************************************************************************)
(* The server answers: every handle it gives out is free, so a handle it   *)
(* gives out again was closed in between.                                  *)
(***************************************************************************)
LEMMA ServeKept ==
  ASSUME SFTPInv, NEW failing \in BOOLEAN, Serve(failing)
  PROVE  SFTPInv'
<1>0. /\ SFTPTypeOK /\ StreamWhole /\ AnswersMatch /\ HandlesGiven /\ ClientKnows /\ GivenAgain /\ ServerKnows
      /\ RecordedSoFar /\ (overtaken \/ InTime)
  BY DEF SFTPInv, Exchange
<1>1. /\ 2 * (served + 1) <= fwd /\ served' = served + 1
      /\ UNCHANGED <<sent, mine, fwd, buf, feeding, rfwd, rparsed, pending, handles, fileLog, overtaken>>
  BY DEF Serve
<1>2. /\ Len(sent) \in Nat /\ served \in Nat /\ rfwd \in Nat /\ rparsed \in Nat /\ fwd \in Nat
      /\ rfwd <= served /\ served <= Len(sent) /\ Len(replies) = served /\ fwd <= 2 * Len(sent)
      /\ rparsed <= rfwd /\ Len(sent) <= MaxPackets
  BY <1>0, Counters
<1>3. PICK i \in 1 .. Len(sent) : i = served + 1
  BY <1>1, <1>2
<1>4. sent \in Seq(Packet) /\ replies \in Seq(Reply) /\ files \in Names
  BY <1>0 DEF SFTPTypeOK
<1>5. PICK p \in Packet : p = sent[i]
  BY <1>4, ElementOfSeq
<1>6. p.path # NoPath /\ (p.op \in ByHandle => p.handle \in Handles)
  BY <1>0, <1>5 DEF HandlesGiven, GivenFor
<1>7. PICK opens \in BOOLEAN : opens = (p.op \in {"open", "opendir"} /\ ~failing /\ Free # {})
  OBVIOUS
<1>8. PICK h : h = IF opens THEN CHOOSE x \in Free : \A y \in Free : x <= y ELSE 0
  OBVIOUS
<1>9. PICK r : /\ r = [type |-> IF opens THEN "handle"
                               ELSE IF p.op = "read" /\ ~failing THEN "data"
                               ELSE IF p.op = "readdir" /\ ~failing THEN "name" ELSE "status",
                      id |-> i, handle |-> h]
  OBVIOUS
<1>10. /\ replies' = Append(replies, r)
       /\ files' = IF opens THEN [files EXCEPT ![h] = p.path]
                   ELSE IF p.op = "close" THEN [files EXCEPT ![p.handle] = NoPath] ELSE files
  BY <1>3, <1>5, <1>7, <1>8, <1>9 DEF Serve
<1>11. opens => h \in Handles /\ files[h] = NoPath
  <2>1. Free \in SUBSET Nat
    BY DEF Free
  <2>2. ASSUME opens PROVE h \in Free
    <3>1. \E x \in Free : \A y \in Free : x <= y
      BY <1>7, <2>1, <2>2, LeastHandle
    <3> QED
      BY <1>8, <2>2, <3>1
  <2> QED
    BY <2>2 DEF Free
<1>12. r \in Reply
  <2>1. h \in Handles \cup {0} /\ i \in Ids
    BY <1>2, <1>3, <1>8, <1>11 DEF Ids
  <2> QED
    BY <1>9, <2>1 DEF Reply
<1>13. /\ replies' \in Seq(Reply) /\ Len(replies') = served + 1 /\ replies'[i] = r
       /\ \A k \in 1 .. served : replies'[k] = replies[k]
  BY <1>2, <1>3, <1>4, <1>10, <1>12, AppendProperties
<1>14. SFTPTypeOK'
  <2>1. files' \in Names
    BY <1>4, <1>5, <1>10 DEF Names, Packet
  <2>2. /\ served' \in 0 .. Len(sent') /\ rfwd \in 0 .. Len(replies') /\ Len(replies') = served'
    BY <1>1, <1>2, <1>3, <1>13
  <2> QED
    BY <1>0, <1>1, <1>13, <2>1, <2>2 DEF SFTPTypeOK
<1>15. StreamWhole' /\ ParsedRequests' = ParsedRequests
  BY <1>0, <1>1, StreamKept
<1>16. RecordedSoFar' /\ (overtaken' \/ InTime')
  <2>1. Len(sent') \in Nat /\ Len(sent) <= Len(sent')
    BY <1>1, <1>2
  <2> QED
    BY <1>0, <1>1, <1>13, <1>15, <2>1, RelayKept
<1>17. \A k \in 1 .. served' : k \in 1 .. served \/ k = i
  BY <1>1, <1>2, <1>3
<1>18. AnswersMatch'
  <2>1. /\ r.id = i
        /\ r.type = "handle" => sent[i].op \in {"open", "opendir"} /\ r.handle \in Handles
        /\ r.type = "data" => sent[i].op = "read"
    BY <1>5, <1>7, <1>9, <1>11
  <2>2. 2 * served' <= fwd'
    BY <1>1
  <2> QED
    BY <1>0, <1>1, <1>13, <1>17, <2>1, <2>2 DEF AnswersMatch
<1>19. ASSUME NEW x \in Handles, NEW k \in 1 .. served PROVE Opens(k, x)' <=> Opens(k, x)
  BY <1>13 DEF Opens
<1>20. ASSUME NEW x \in Handles, NEW k, NEW m PROVE Unclosed(x, k, m)' <=> Unclosed(x, k, m)
  BY <1>1 DEF Unclosed, Closes
<1>21. ASSUME NEW x \in Handles, NEW f, NEW m, Given(x, f, m) PROVE Given(x, f, m)'
  <2>1. PICK k \in 1 .. rfwd : k <= m /\ Opens(k, x) /\ sent[k].path = f /\ Unclosed(x, k, m)
    BY <1>21 DEF Given
  <2>2. k \in 1 .. served
    BY <1>2
  <2>3. Opens(k, x)' /\ Unclosed(x, k, m)'
    BY <1>19, <1>20, <2>1, <2>2
  <2> QED
    BY <1>1, <2>1, <2>3 DEF Given
<1>22. HandlesGiven'
  <2>1. ASSUME NEW j \in 1 .. Len(sent), NEW q, q = sent[j] PROVE GivenFor(q, j)'
    <3>1. GivenFor(q, j)
      BY <1>0, <2>1 DEF HandlesGiven
    <3> QED
      BY <1>21, <3>1 DEF GivenFor
  <2> QED
    BY <1>1, <2>1 DEF HandlesGiven
<1>23. ClientKnows'
  <2>1. ASSUME NEW x \in Handles, NEW f, f = mine[x], f # NoPath, NEW m, m = Len(sent)
        PROVE  Given(x, f, m)'
    BY <1>0, <1>21, <2>1 DEF ClientKnows
  <2> QED
    BY <1>1, <2>1 DEF ClientKnows
<1>24. GivenAgain'
  <2>1. ASSUME NEW x \in Handles, NEW j \in 1 .. served', NEW k \in 1 .. served', j < k, Opens(j, x)', Opens(k, x)'
        PROVE  ~Unclosed(x, j, k - 1)'
    <3>1. j \in 1 .. served /\ Opens(j, x)
      <4>1. j \in 1 .. served
        BY <1>1, <1>2, <2>1
      <4> QED
        BY <1>19, <2>1, <4>1
    <3>2. CASE k \in 1 .. served
      BY <1>0, <1>19, <1>20, <2>1, <3>1, <3>2 DEF GivenAgain
    <3>3. CASE k = i
      <4>1. opens /\ x = h
        BY <1>9, <1>13, <2>1, <3>3 DEF Opens
      <4>2. SUFFICES ASSUME Unclosed(x, j, served) PROVE FALSE
        <5>1. k - 1 = served
          BY <1>2, <1>3, <3>3
        <5> QED
          BY <1>20, <4>2, <5>1
      <4>3. files[x] = sent[j].path
        BY <1>0, <3>1, <4>2 DEF ServerKnows
      <4>4. sent[j].path # NoPath
        <5>1. j \in 1 .. Len(sent)
          BY <1>2, <3>1
        <5> QED
          BY <1>0, <5>1 DEF HandlesGiven, GivenFor
      <4> QED
        BY <1>11, <4>1, <4>3, <4>4
    <3> QED
      BY <1>17, <3>2, <3>3
  <2> QED
    BY <2>1 DEF GivenAgain
<1>25. ServerKnows'
  <2>1. ASSUME NEW x \in Handles, NEW k \in 1 .. served', Opens(k, x)', NEW m, m = served', Unclosed(x, k, m)'
        PROVE  files'[x] = sent'[k].path
    <3>1. CASE k = i
      <4>1. opens /\ x = h
        BY <1>9, <1>13, <2>1, <3>1 DEF Opens
      <4> QED
        BY <1>1, <1>4, <1>5, <1>10, <3>1, <4>1 DEF Names
    <3>2. CASE k \in 1 .. served
      <4>1. Opens(k, x)
        BY <1>19, <2>1, <3>2
      <4>2. Unclosed(x, k, m) /\ m = i
        BY <1>1, <1>3, <1>20, <2>1
      <4>3. Unclosed(x, k, served)
        <5>1. \A y \in k + 1 .. served : y \in k + 1 .. m
          BY <1>2, <1>3, <4>2
        <5> QED
          BY <4>2, <5>1 DEF Unclosed
      <4>4. files[x] = sent[k].path
        BY <1>0, <3>2, <4>1, <4>3 DEF ServerKnows
      <4>5. ~Closes(i, x)
        <5>1. i \in k + 1 .. m
          BY <1>2, <1>3, <3>2, <4>2
        <5> QED
          BY <4>2, <5>1 DEF Unclosed
      <4>6. ~(p.op = "close" /\ p.handle = x)
        BY <1>5, <4>5 DEF Closes
      <4>7. sent[k].path # NoPath
        <5>1. k \in 1 .. Len(sent)
          BY <1>2, <3>2
        <5> QED
          BY <1>0, <5>1 DEF HandlesGiven, GivenFor
      <4>8. ~(opens /\ h = x)
        BY <1>11, <4>4, <4>7
      <4> QED
        BY <1>1, <1>4, <1>10, <4>4, <4>6, <4>8 DEF Names
    <3> QED
      BY <1>17, <3>1, <3>2
  <2> QED
    BY <2>1 DEF ServerKnows
<1> QED
  BY <1>14, <1>15, <1>16, <1>18, <1>22, <1>23, <1>24, <1>25 DEF SFTPInv, Exchange

-------------------------------------------------------------------------------
(***************************************************************************)
(* The copier from the client.                                             *)
(***************************************************************************)

\* The client and the server, when nothing passes between them.
LEMMA ExchangeKept ==
  ASSUME Exchange, UNCHANGED <<sent, mine, served, files, replies, rfwd>>,
         fwd \in Nat, fwd' \in Nat, fwd <= fwd', served \in Nat
  PROVE  Exchange'
<1>1. AnswersMatch'
  <2>1. 2 * served <= fwd
    BY DEF Exchange, AnswersMatch
  <2>2. 2 * served <= fwd'
    BY <2>1
  <2> QED
    BY <2>2 DEF Exchange, AnswersMatch
<1>2. HandlesGiven' /\ ClientKnows' /\ GivenAgain' /\ ServerKnows'
  BY DEF Exchange, HandlesGiven, GivenFor, Given, ClientKnows, GivenAgain, ServerKnows, Opens, Closes, Unclosed
<1> QED
  BY <1>1, <1>2 DEF Exchange

LEMMA ForwardChunkKept ==
  ASSUME SFTPInv, NEW n \in 1 .. MaxChunk, ForwardChunk(n)
  PROVE  SFTPInv'
<1>0. /\ SFTPTypeOK /\ StreamWhole /\ AnswersMatch /\ Exchange /\ RecordedSoFar /\ (overtaken \/ InTime)
  BY DEF SFTPInv, Exchange
<1>1. /\ ~feeding /\ fwd + n <= 2 * Len(sent) /\ fwd' = fwd + n /\ buf' = Buffered(n) /\ feeding' = TRUE
      /\ UNCHANGED <<sent, mine, served, files, replies, rfwd, rparsed, pending, handles, fileLog, overtaken>>
  BY DEF ForwardChunk
<1>2. /\ Len(sent) \in Nat /\ served \in Nat /\ fwd \in Nat /\ Len(buf) \in Nat /\ ParsedRequests \in Nat
      /\ fwd = 2 * ParsedRequests + Len(buf) /\ Len(sent) <= MaxPackets
  BY <1>0, Counters
<1>3. PICK P \in Nat : P = ParsedRequests
  BY <1>2
<1>4. PICK c : c = [k \in 1 .. n |-> Half(fwd + k)]
  OBVIOUS
<1>5. c \in Seq(Ids \X {1, 2}) /\ Len(c) = n /\ \A k \in 1 .. n : c[k] = Half(fwd + k)
  <2>1. \A k \in 1 .. n : fwd + k \in 1 .. 2 * MaxPackets
    BY <1>1, <1>2
  <2>2. \A k \in 1 .. n : Half(fwd + k) \in Ids \X {1, 2}
    BY <2>1, HalfTyped
  <2> QED
    BY <1>4, <2>2
<1>6. buf \in Seq(Ids \X {1, 2}) /\ buf' = buf \o c
  BY <1>0, <1>1, <1>4 DEF SFTPTypeOK, Buffered
<1>7. /\ buf' \in Seq(Ids \X {1, 2}) /\ Len(buf') = Len(buf) + n
      /\ \A k \in 1 .. Len(buf) + n : buf'[k] = IF k <= Len(buf) THEN buf[k] ELSE c[k - Len(buf)]
  BY <1>5, <1>6, ConcatProperties
<1>8. ParsedRequests' = P
  <2>1. fwd' - Len(buf') = 2 * P
    BY <1>1, <1>2, <1>3, <1>7
  <2> QED
    BY <2>1, Halved DEF ParsedRequests
<1>9. StreamWhole'
  <2>1. fwd' = 2 * P + Len(buf')
    BY <1>1, <1>2, <1>3, <1>7
  <2>2. ASSUME NEW k \in 1 .. Len(buf') PROVE buf'[k] = Half(2 * P + k)
    <3>1. CASE k <= Len(buf)
      <4>1. k \in 1 .. Len(buf) /\ buf'[k] = buf[k]
        BY <1>2, <1>7, <3>1
      <4> QED
        BY <1>0, <1>3, <4>1 DEF StreamWhole
    <3>2. CASE ~(k <= Len(buf))
      <4>1. k - Len(buf) \in 1 .. n /\ buf'[k] = c[k - Len(buf)]
        BY <1>2, <1>7, <3>2
      <4>2. fwd + (k - Len(buf)) = 2 * P + k
        BY <1>2, <1>3, <1>7
      <4> QED
        BY <1>5, <4>1, <4>2
    <3> QED
      BY <3>1, <3>2
  <2> QED
    BY <1>1, <1>8, <2>1, <2>2 DEF StreamWhole
<1>10. SFTPTypeOK'
  <2>1. fwd' \in 0 .. 2 * Len(sent')
    BY <1>1, <1>2
  <2> QED
    BY <1>0, <1>1, <1>7, <2>1 DEF SFTPTypeOK
<1>11. Exchange'
  <2>1. fwd' \in Nat /\ fwd <= fwd'
    BY <1>1, <1>2
  <2> QED
    BY <1>0, <1>1, <1>2, <2>1, ExchangeKept
<1>12. RecordedSoFar' /\ (overtaken' \/ InTime')
  <2>1. Len(sent') \in Nat /\ Len(sent) <= Len(sent')
    BY <1>1, <1>2
  <2> QED
    BY <1>0, <1>1, <1>3, <1>8, <2>1, RelayKept
<1> QED
  BY <1>9, <1>10, <1>11, <1>12 DEF SFTPInv

\* The log, when a request was parsed or an answer was.
LEMMA LogKept ==
  ASSUME RecordedSoFar, UNCHANGED <<sent, fileLog>>,
         NEW p \in Nat, p = ParsedRequests, NEW q \in Nat, q = ParsedRequests',
         q = p \/ (q = p + 1 /\ sent[q].op \notin Told)
  PROVE  RecordedSoFar'
<1>1. \A i \in 1 .. q : i \in 1 .. p \/ sent[i].op \notin Told
  OBVIOUS
<1>2. \A i \in 1 .. p : i \in 1 .. q
  OBVIOUS
<1> QED
  BY <1>1, <1>2 DEF RecordedSoFar, Own

LEMMA LogGrows ==
  ASSUME RecordedSoFar, UNCHANGED sent, fileLog \in Seq(Entry),
         NEW p \in Nat, p = ParsedRequests, NEW q \in Nat, q = ParsedRequests',
         NEW e \in Entry, fileLog' = Append(fileLog, e),
         \/ e.request /\ e.id = q /\ q = p + 1 /\ sent[q].op \in Told
         \/ ~e.request /\ q = p
         \/ ~e.request /\ q = p + 1 /\ sent[q].op \notin Told
  PROVE  RecordedSoFar'
<1>1. /\ Len(fileLog) \in Nat /\ Len(fileLog') = Len(fileLog) + 1 /\ fileLog'[Len(fileLog) + 1] = e
      /\ \A k \in 1 .. Len(fileLog) : fileLog'[k] = fileLog[k]
  BY AppendProperties, LenProperties
<1>2. PICK n \in Nat : n = Len(fileLog)
  BY <1>1
<1>3. \A k \in 1 .. n + 1 : k \in 1 .. n \/ k = n + 1
  BY <1>2
<1>4. \A k \in 1 .. n : k \in 1 .. n + 1
  BY <1>2
<1>5. n + 1 \in 1 .. n + 1
  BY <1>2
<1>6. Len(fileLog') = n + 1 /\ fileLog'[n + 1] = e /\ \A k \in 1 .. n : fileLog'[k] = fileLog[k]
  BY <1>1, <1>2
<1>7. /\ \A i \in 1 .. p : sent[i].op \in Told => \E k \in 1 .. n : fileLog[k].request /\ fileLog[k].id = i
      /\ \A k \in 1 .. n : fileLog[k].request => fileLog[k].id \in 1 .. p /\ sent[fileLog[k].id].op \in Told
      /\ \A j, k \in 1 .. n : fileLog[j].request /\ fileLog[k].request /\ j < k => fileLog[j].id < fileLog[k].id
  BY <1>2 DEF RecordedSoFar, Own
<1>8. ASSUME NEW i \in 1 .. q, sent[i].op \in Told
      PROVE  \E k \in 1 .. n + 1 : fileLog'[k].request /\ fileLog'[k].id = i
  <2>1. CASE i \in 1 .. p
    BY <1>4, <1>6, <1>7, <1>8, <2>1
  <2>2. CASE i \notin 1 .. p
    <3>1. q = p + 1 /\ i = q
      BY <2>2
    <3> QED
      BY <1>5, <1>6, <1>8, <3>1
  <2> QED
    BY <2>1, <2>2
<1>9. ASSUME NEW k \in 1 .. n + 1, fileLog'[k].request
      PROVE  fileLog'[k].id \in 1 .. q /\ sent[fileLog'[k].id].op \in Told
  <2>1. CASE k \in 1 .. n
    <3>1. fileLog[k].id \in 1 .. p /\ sent[fileLog[k].id].op \in Told /\ fileLog'[k] = fileLog[k]
      BY <1>6, <1>7, <1>9, <2>1
    <3>2. \A i \in 1 .. p : i \in 1 .. q
      OBVIOUS
    <3> QED
      BY <3>1, <3>2
  <2>2. CASE k = n + 1
    <3>1. e.id = q /\ sent[q].op \in Told /\ q \in 1 .. q /\ fileLog'[k] = e
      BY <1>6, <1>9, <2>2
    <3> QED
      BY <3>1
  <2> QED
    BY <1>3, <2>1, <2>2
<1>10. ASSUME NEW j \in 1 .. n + 1, NEW k \in 1 .. n + 1, fileLog'[j].request, fileLog'[k].request, j < k
       PROVE  fileLog'[j].id < fileLog'[k].id
  <2>1. j \in 1 .. n
    BY <1>2, <1>10
  <2>2. CASE k \in 1 .. n
    <3>1. fileLog'[j] = fileLog[j] /\ fileLog'[k] = fileLog[k]
      BY <1>6, <2>1, <2>2
    <3>2. fileLog[j].request /\ fileLog[k].request
      BY <1>10, <3>1
    <3>3. fileLog[j].id < fileLog[k].id
      BY <1>7, <1>10, <2>1, <2>2, <3>2
    <3> QED
      BY <3>1, <3>3
  <2>3. CASE k = n + 1
    <3>1. fileLog'[j].id \in 1 .. p
      BY <1>6, <1>7, <1>10, <2>1
    <3>2. fileLog'[k].id = p + 1
      BY <1>6, <1>10, <2>3
    <3>3. \A a \in 1 .. p : a < p + 1
      OBVIOUS
    <3> QED
      BY <3>1, <3>2, <3>3
  <2> QED
    BY <1>3, <2>2, <2>3
<1> QED
  BY <1>6, <1>8, <1>9, <1>10 DEF RecordedSoFar, Own

\* A request by handle names the file that the relay has for the handle, when
\* the answer that gave it out is parsed.
LEMMA HandleNamed ==
  ASSUME SFTPTypeOK, StreamWhole, Exchange, InTime,
         NEW i \in 1 .. Len(sent), i = ParsedRequests + 1,
         sent[i].op \in ByHandle, ~Unparsed(sent[i].handle)
  PROVE  sent[i].handle \in Handles /\ handles[sent[i].handle] = sent[i].path
<1>0. rparsed \in Nat /\ rfwd \in Nat /\ ParsedRequests \in Nat
  BY Counters DEF Exchange
<1>1. sent[i].handle \in Handles /\ Given(sent[i].handle, sent[i].path, i - 1) /\ i - 1 = ParsedRequests
  BY <1>0 DEF Exchange, HandlesGiven, GivenFor
<1>2. PICK h \in Handles : h = sent[i].handle
  BY <1>1
<1>3. PICK k \in 1 .. rfwd : Opens(k, h) /\ sent[k].path = sent[i].path /\ Unclosed(h, k, ParsedRequests)
  BY <1>1, <1>2 DEF Given
<1>4. k \notin rparsed + 1 .. rfwd
  BY <1>2, <1>3 DEF Unparsed, Opens
<1>5. k \in 1 .. rparsed
  BY <1>0, <1>4
<1> QED
  BY <1>2, <1>3, <1>5 DEF InTime, RelayKnows

\* A request is parsed: the buffer's first packet, which is the next of the stream.
LEMMA ParseRequestKept ==
  ASSUME SFTPInv, NEW w \in BOOLEAN, Feed(w), Len(buf) >= 2
  PROVE  SFTPInv'
<1>0. /\ SFTPTypeOK /\ StreamWhole /\ AnswersMatch /\ Exchange /\ RecordedSoFar /\ (overtaken \/ InTime)
      /\ HandlesGiven
  BY DEF SFTPInv, Exchange
<1>1. /\ Len(sent) \in Nat /\ served \in Nat /\ fwd \in Nat /\ Len(buf) \in Nat /\ ParsedRequests \in Nat
      /\ fwd = 2 * ParsedRequests + Len(buf) /\ fwd <= 2 * Len(sent) /\ Len(sent) <= MaxPackets /\ rparsed \in Nat
  BY <1>0, Counters
<1>2. PICK i \in 1 .. Len(sent) : i = ParsedRequests + 1 /\ 2 * ParsedRequests + 1 = 2 * i - 1
  BY <1>1
<1>3. buf[1] = <<i, 1>>
  <2>1. buf[1] = Half(2 * ParsedRequests + 1)
    BY <1>0, <1>1 DEF StreamWhole
  <2>2. Half(2 * i - 1) = <<i, 1>>
    <3>1. i \in Nat \ {0}
      BY <1>2
    <3> QED
      BY <3>1, HalvesOf
  <2> QED
    BY <1>2, <2>1, <2>2
<1>4. buf[1][1] = i /\ buf[1][2] = 1
  BY <1>3
<1>5. ParseRequest(i, w) /\ buf' = Tail(Tail(buf)) /\ feeding' = (Len(buf) >= 4)
  BY <1>4 DEF Feed
<1>6. UNCHANGED <<sent, mine, fwd, served, files, replies, rfwd, rparsed>>
  BY DEF Feed
<1>7. sent \in Seq(Packet) /\ fileLog \in Seq(Entry) /\ handles \in Names /\ pending \in [Ids -> Pending]
      /\ buf \in Seq(Ids \X {1, 2}) /\ overtaken \in BOOLEAN
  BY <1>0 DEF SFTPTypeOK
<1>8. PICK p \in Packet : p = sent[i]
  BY <1>7, ElementOfSeq
<1>9. p.path # NoPath /\ (p.op \in ByHandle => p.handle \in Handles) /\ i \in Ids
  BY <1>0, <1>1, <1>8 DEF HandlesGiven, GivenFor, Ids
<1>10. /\ buf' \in Seq(Ids \X {1, 2}) /\ Len(buf') = Len(buf) - 2
       /\ \A k \in 1 .. Len(buf) - 2 : buf'[k] = buf[k + 2]
  <2>1. PICK t : t = Tail(buf)
    OBVIOUS
  <2>2. t \in Seq(Ids \X {1, 2}) /\ Len(t) = Len(buf) - 1 /\ \A k \in 1 .. Len(buf) - 1 : t[k] = buf[k + 1]
    BY <1>1, <1>7, <2>1, HeadTailProperties
  <2>3. /\ Tail(t) \in Seq(Ids \X {1, 2}) /\ Len(Tail(t)) = Len(t) - 1
        /\ \A k \in 1 .. Len(t) - 1 : Tail(t)[k] = t[k + 1]
    BY <1>1, <2>2, HeadTailProperties
  <2>4. \A k \in 1 .. Len(buf) - 2 : k \in 1 .. Len(t) - 1 /\ k + 1 \in 1 .. Len(buf) - 1 /\ (k + 1) + 1 = k + 2
    BY <1>1, <2>2
  <2>5. Len(Tail(t)) = Len(buf) - 2
    BY <1>1, <2>2, <2>3
  <2> QED
    BY <1>5, <2>1, <2>2, <2>3, <2>4, <2>5
<1>11. ParsedRequests' = i
  <2>1. fwd' - Len(buf') = 2 * i
    BY <1>1, <1>2, <1>6, <1>10
  <2> QED
    BY <2>1, Halved DEF ParsedRequests
<1>12. StreamWhole'
  <2>1. fwd' = 2 * i + Len(buf')
    BY <1>1, <1>2, <1>6, <1>10
  <2>2. ASSUME NEW k \in 1 .. Len(buf') PROVE buf'[k] = Half(2 * i + k)
    <3>0. k \in 1 .. Len(buf) - 2
      BY <1>10, <2>2
    <3>1. k + 2 \in 1 .. Len(buf) /\ buf'[k] = buf[k + 2] /\ 2 * ParsedRequests + (k + 2) = 2 * i + k
      BY <1>1, <1>2, <1>10, <3>0
    <3>2. buf[k + 2] = Half(2 * ParsedRequests + (k + 2))
      BY <1>0, <3>1 DEF StreamWhole
    <3> QED
      BY <3>1, <3>2
  <2>3. ASSUME ~feeding' PROVE Len(buf') <= 1
    <3>1. ~(Len(buf) >= 4)
      BY <1>5, <2>3, Zenon
    <3> QED
      BY <1>1, <1>10, <3>1
  <2> QED
    BY <1>11, <2>1, <2>2, <2>3 DEF StreamWhole
<1>13. Exchange'
  BY <1>0, <1>1, <1>6, ExchangeKept
<1>14. /\ pending' = CASE p.op \in {"open", "opendir"} ->
                             [pending EXCEPT ![i] = [op |-> p.op, path |-> p.path, handle |-> 0]]
                        [] p.op = "read" -> [pending EXCEPT ![i] = ReadPending(p.handle)]
                        [] OTHER -> pending
       /\ handles' = IF p.op = "close" THEN [handles EXCEPT ![p.handle] = NoPath] ELSE handles
       /\ fileLog' = CASE p.op \in {"opendir", "path"} -> Record(i, p.path, TRUE, w)
                        [] p.op = "write" -> Record(i, handles[p.handle], TRUE, w)
                        [] p.op = "readdir" /\ handles[p.handle] # NoPath ->
                             Record(i, handles[p.handle], FALSE, w)
                        [] OTHER -> fileLog
       /\ overtaken' = (overtaken \/ (p.op \in ByHandle /\ Unparsed(p.handle)))
  BY <1>5, <1>8 DEF ParseRequest
<1>15. handles' \in Names /\ \A h \in Handles : (p.op = "close" /\ p.handle = h) \/ handles'[h] = handles[h]
  BY <1>7, <1>14 DEF Names
<1>16. /\ pending' \in [Ids -> Pending] /\ \A k \in Ids : k # i => pending'[k] = pending[k]
       /\ p.op \in {"open", "opendir"} => pending'[i] = [op |-> p.op, path |-> p.path, handle |-> 0]
       /\ p.op = "read" => pending'[i] = [op |-> "read", path |-> handles[p.handle], handle |-> p.handle]
  <2>1. CASE p.op \in {"open", "opendir"}
    <3>1. [op |-> p.op, path |-> p.path, handle |-> 0] \in Pending
      BY <1>9, <2>1 DEF Pending, Packet
    <3>2. pending' = [pending EXCEPT ![i] = [op |-> p.op, path |-> p.path, handle |-> 0]] /\ p.op # "read"
      BY <1>14, <2>1
    <3> QED
      BY <1>7, <1>9, <3>1, <3>2
  <2>2. CASE p.op = "read"
    <3>1. p.handle \in Handles
      BY <1>9, <2>2 DEF ByHandle
    <3>2. [op |-> "read", path |-> handles[p.handle], handle |-> p.handle] \in Pending
      BY <1>7, <3>1 DEF Pending, Names
    <3>3. pending' = [pending EXCEPT ![i] = [op |-> "read", path |-> handles[p.handle], handle |-> p.handle]]
      BY <1>14, <2>2 DEF ReadPending
    <3> QED
      BY <1>7, <1>9, <2>2, <3>2, <3>3
  <2>3. CASE p.op \notin {"open", "opendir"} /\ p.op # "read"
    BY <1>7, <1>14, <2>3
  <2> QED
    BY <2>1, <2>2, <2>3
<1>17. \/ fileLog' = fileLog /\ p.op \notin Told
       \/ \E e \in Entry :
            /\ fileLog' = Append(fileLog, e) /\ e.id = i /\ (e.request <=> p.op \in Told)
            /\ e.path = p.path \/ (p.op \in ByHandle /\ e.path = handles[p.handle])
  <2>1. CASE p.op \in {"opendir", "path"}
    <3>1. [id |-> i, path |-> p.path, request |-> TRUE, written |-> w] \in Entry
      BY <1>9 DEF Entry, Packet
    <3>2. fileLog' = Append(fileLog, [id |-> i, path |-> p.path, request |-> TRUE, written |-> w]) /\ p.op \in Told
      BY <1>14, <2>1 DEF Record, Told
    <3> QED
      BY <3>1, <3>2
  <2>2. CASE p.op = "write"
    <3>1. p.op \in ByHandle /\ p.handle \in Handles /\ p.op \in Told
      BY <1>9, <2>2 DEF ByHandle, Told
    <3>2. [id |-> i, path |-> handles[p.handle], request |-> TRUE, written |-> w] \in Entry
      BY <1>7, <1>9, <3>1 DEF Entry, Names
    <3>3. fileLog' = Append(fileLog, [id |-> i, path |-> handles[p.handle], request |-> TRUE, written |-> w])
      BY <1>14, <2>2 DEF Record
    <3> QED
      BY <3>1, <3>2, <3>3
  <2>3. CASE p.op = "readdir" /\ handles[p.handle] # NoPath
    <3>1. p.op \in ByHandle /\ p.handle \in Handles /\ p.op \notin Told
      BY <1>9, <2>3 DEF ByHandle, Told
    <3>2. [id |-> i, path |-> handles[p.handle], request |-> FALSE, written |-> w] \in Entry
      BY <1>7, <1>9, <3>1 DEF Entry, Names
    <3>3. fileLog' = Append(fileLog, [id |-> i, path |-> handles[p.handle], request |-> FALSE, written |-> w])
      BY <1>14, <2>3 DEF Record
    <3> QED
      BY <3>1, <3>2, <3>3
  <2>4. CASE p.op \notin {"opendir", "path"} /\ p.op # "write" /\ ~(p.op = "readdir" /\ handles[p.handle] # NoPath)
    BY <1>14, <2>4 DEF Told
  <2> QED
    BY <2>1, <2>2, <2>3, <2>4
<1>18. RecordedSoFar'
  <2>1. PICK P \in Nat, q \in Nat : P = ParsedRequests /\ q = ParsedRequests' /\ q = i /\ q = P + 1
    BY <1>1, <1>2, <1>11
  <2>2. CASE fileLog' = fileLog /\ p.op \notin Told
    BY <1>0, <1>6, <1>8, <2>1, <2>2, LogKept
  <2>3. ASSUME NEW e \in Entry, fileLog' = Append(fileLog, e), e.id = i, e.request <=> p.op \in Told
        PROVE  RecordedSoFar'
    BY <1>0, <1>6, <1>7, <1>8, <2>1, <2>3, LogGrows
  <2> QED
    BY <1>17, <2>2, <2>3
<1>19. SFTPTypeOK'
  <2>1. fileLog' \in Seq(Entry)
    <3>1. ASSUME NEW e \in Entry, fileLog' = Append(fileLog, e) PROVE fileLog' \in Seq(Entry)
      BY <1>7, <3>1, AppendProperties
    <3> QED
      BY <1>7, <1>17, <3>1
  <2>2. overtaken' \in BOOLEAN /\ feeding' \in BOOLEAN
    BY <1>5, <1>14
  <2> QED
    BY <1>0, <1>6, <1>10, <1>15, <1>16, <2>1, <2>2 DEF SFTPTypeOK
<1>20. ASSUME ~overtaken' PROVE InTime'
  <2>0. InTime /\ (p.op \in ByHandle => ~Unparsed(p.handle))
    BY <1>0, <1>14, <1>20
  <2>1. p.op \in ByHandle => handles[p.handle] = p.path
    BY <1>0, <1>2, <1>8, <2>0, HandleNamed
  <2>2. rparsed <= ParsedRequests /\ RelayKnows /\ AwaitsAnswers /\ EntriesTrue
    BY <2>0 DEF InTime
  <2>3. ASSUME NEW h \in Handles, NEW k \in 1 .. rparsed, Opens(k, h)', Unclosed(h, k, i)'
        PROVE  handles'[h] = sent'[k].path
    <3>1. Opens(k, h) /\ Unclosed(h, k, i)
      BY <1>6, <2>3 DEF Opens, Unclosed, Closes
    <3>2. Unclosed(h, k, ParsedRequests)
      <4>1. \A x \in k + 1 .. ParsedRequests : x \in k + 1 .. i
        BY <1>1, <1>2
      <4> QED
        BY <3>1, <4>1 DEF Unclosed
    <3>3. handles[h] = sent[k].path
      BY <2>2, <3>1, <3>2 DEF RelayKnows
    <3>4. ~Closes(i, h)
      <4>1. i \in k + 1 .. i
        BY <1>1, <1>2, <2>2
      <4> QED
        BY <3>1, <4>1 DEF Unclosed
    <3>5. handles'[h] = handles[h]
      BY <1>8, <1>15, <3>4 DEF Closes
    <3> QED
      BY <1>6, <3>3, <3>5
  <2>4. RelayKnows'
    BY <1>6, <1>11, <2>3 DEF RelayKnows
  <2>5. AwaitsAnswers'
    <3>1. ASSUME NEW k \in rparsed + 1 .. i
          PROVE  /\ sent[k].op \in {"open", "opendir"} => pending'[k] = [op |-> sent[k].op, path |-> sent[k].path, handle |-> 0]
                 /\ sent[k].op = "read" => pending'[k] = [op |-> "read", path |-> sent[k].path, handle |-> sent[k].handle]
      <4>1. CASE k = i
        <5>1. p.op = "read" => p.op \in ByHandle
          BY DEF ByHandle
        <5> QED
          BY <1>8, <1>16, <2>1, <4>1, <5>1
      <4>2. CASE k # i
        <5>1. k \in rparsed + 1 .. ParsedRequests /\ k \in Ids
          BY <1>1, <1>2, <4>2 DEF Ids
        <5> QED
          BY <1>16, <2>2, <4>2, <5>1 DEF AwaitsAnswers
      <4> QED
        BY <4>1, <4>2
    <3> QED
      BY <1>6, <1>11, <3>1 DEF AwaitsAnswers
  <2>6. EntriesTrue'
    <3>1. CASE fileLog' = fileLog
      BY <1>6, <2>2, <3>1 DEF EntriesTrue
    <3>2. ASSUME NEW e \in Entry, fileLog' = Append(fileLog, e), e.id = i,
                 e.path = p.path \/ (p.op \in ByHandle /\ e.path = handles[p.handle])
          PROVE  EntriesTrue'
      <4>1. e.path = sent[e.id].path /\ e.id \in 1 .. Len(sent)
        BY <1>8, <2>1, <3>2
      <4>2. /\ Len(fileLog) \in Nat /\ Len(fileLog') = Len(fileLog) + 1 /\ fileLog'[Len(fileLog) + 1] = e
            /\ \A k \in 1 .. Len(fileLog) : fileLog'[k] = fileLog[k]
        BY <1>7, <3>2, AppendProperties, LenProperties
      <4>3. \A k \in 1 .. Len(fileLog') : k \in 1 .. Len(fileLog) \/ k = Len(fileLog) + 1
        BY <4>2
      <4> QED
        BY <1>6, <2>2, <4>1, <4>2, <4>3 DEF EntriesTrue
    <3> QED
      BY <1>17, <3>1, <3>2
  <2>7. rparsed' <= ParsedRequests'
    BY <1>1, <1>2, <1>6, <1>11, <2>2
  <2> QED
    BY <2>4, <2>5, <2>6, <2>7 DEF InTime
<1> QED
  BY <1>12, <1>13, <1>18, <1>19, <1>20 DEF SFTPInv

\* Feed parses a packet, or returns when the buffer holds none; what is left is
\* the start of one, so it is never dropped.
LEMMA FeedKept ==
  ASSUME SFTPInv, NEW w \in BOOLEAN, Feed(w)
  PROVE  SFTPInv'
<1>0. /\ SFTPTypeOK /\ StreamWhole /\ AnswersMatch /\ Exchange /\ RecordedSoFar /\ (overtaken \/ InTime)
  BY DEF SFTPInv, Exchange
<1>1. CASE Len(buf) >= 2
  BY <1>1, ParseRequestKept
<1>2. CASE ~(Len(buf) >= 2)
  <2>1. Len(buf) \in Nat /\ Len(sent) \in Nat /\ served \in Nat /\ fwd \in Nat
    BY <1>0, Counters
  <2>2. Len(buf) < 2 /\ Len(buf) <= 1
    BY <1>2, <2>1
  <2>3. /\ buf' = buf /\ feeding' = FALSE
        /\ UNCHANGED <<sent, mine, fwd, served, files, replies, rfwd, rparsed, pending, handles, fileLog, overtaken>>
    BY <1>2, <2>2 DEF Feed
  <2>4. ParsedRequests' = ParsedRequests
    BY <2>3 DEF ParsedRequests
  <2>5. StreamWhole'
    BY <1>0, <2>2, <2>3, <2>4 DEF StreamWhole
  <2>6. SFTPTypeOK'
    BY <1>0, <2>3 DEF SFTPTypeOK
  <2>7. Exchange'
    BY <1>0, <2>1, <2>3, ExchangeKept
  <2>8. RecordedSoFar' /\ (overtaken' \/ InTime')
    BY <1>0, <2>1, <2>3, <2>4, RelayKept
  <2> QED
    BY <2>5, <2>6, <2>7, <2>8 DEF SFTPInv
<1> QED
  BY <1>1, <1>2

-------------------------------------------------------------------------------
(***************************************************************************)
(* The copier to the client.                                               *)
(***************************************************************************)

\* A handle that reaches the client now was not closed since it was given out:
\* a client closes only what it was given, and the server gives a handle out
\* again only after it was closed.
LEMMA FreshHandle ==
  ASSUME SFTPTypeOK, StreamWhole, Exchange,
         NEW h \in Handles, NEW k \in 1 .. served, rfwd < k, Opens(k, h)
  PROVE  Unclosed(h, k, Len(sent))
<1>0. rfwd \in Nat /\ served \in Nat /\ Len(sent) \in Nat /\ served <= Len(sent) /\ rfwd <= served
  BY Counters DEF Exchange
<1> SUFFICES ASSUME NEW m \in k + 1 .. Len(sent), Closes(m, h)
             PROVE  FALSE
  BY DEF Unclosed
<1>1. GivenFor(sent[m], m) /\ sent[m].op \in ByHandle /\ sent[m].handle = h
  <2>1. m \in 1 .. Len(sent)
    BY <1>0
  <2> QED
    BY <2>1 DEF Exchange, HandlesGiven, Closes, ByHandle
<1>2. Given(h, sent[m].path, m - 1)
  BY <1>1 DEF GivenFor
<1>3. PICK j \in 1 .. rfwd : Opens(j, h) /\ Unclosed(h, j, m - 1)
  BY <1>2 DEF Given
<1>4. j \in 1 .. served /\ j < k
  BY <1>0
<1>5. ~Unclosed(h, j, k - 1)
  BY <1>3, <1>4 DEF Exchange, GivenAgain
<1>6. \A x \in j + 1 .. k - 1 : x \in j + 1 .. m - 1
  BY <1>0
<1> QED
  BY <1>3, <1>5, <1>6 DEF Unclosed

LEMMA ForwardRepliesKept ==
  ASSUME SFTPInv, NEW n \in 1 .. MaxPackets, ForwardReplies(n)
  PROVE  SFTPInv'
<1>0. /\ SFTPTypeOK /\ StreamWhole /\ AnswersMatch /\ HandlesGiven /\ ClientKnows /\ GivenAgain /\ ServerKnows
      /\ Exchange /\ RecordedSoFar /\ (overtaken \/ InTime)
  BY DEF SFTPInv, Exchange
<1>1. /\ rparsed = rfwd /\ rfwd + n <= Len(replies) /\ rfwd' = rfwd + n
      /\ UNCHANGED <<sent, fwd, buf, feeding, served, files, replies, rparsed, pending, handles, fileLog, overtaken>>
  BY DEF ForwardReplies
<1>2. /\ Len(sent) \in Nat /\ served \in Nat /\ rfwd \in Nat /\ rparsed \in Nat
      /\ rfwd <= served /\ served <= Len(sent) /\ Len(replies) = served
  BY <1>0, Counters
<1>3. sent \in Seq(Packet) /\ mine \in Names
  BY <1>0 DEF SFTPTypeOK
<1>4. \A k \in rfwd + 1 .. rfwd + n : k \in 1 .. served /\ k \in 1 .. Len(sent) /\ rfwd < k /\ replies[k].id = k
  <2>1. \A k \in rfwd + 1 .. rfwd + n : k \in 1 .. served /\ k \in 1 .. Len(sent) /\ rfwd < k
    BY <1>1, <1>2
  <2> QED
    BY <1>0, <2>1 DEF AnswersMatch
<1>5. mine' = [h \in Handles |->
                 LET got == {k \in rfwd + 1 .. rfwd + n : Opens(k, h)}
                 IN  IF got = {} THEN mine[h] ELSE sent[replies[CHOOSE k \in got : TRUE].id].path]
  BY DEF ForwardReplies, Opens
<1>6. ASSUME NEW h \in Handles
      PROVE  \/ mine'[h] = mine[h]
             \/ \E k \in rfwd + 1 .. rfwd + n : Opens(k, h) /\ mine'[h] = sent[k].path
  <2>1. PICK got : got = {k \in rfwd + 1 .. rfwd + n : Opens(k, h)}
    OBVIOUS
  <2>2. mine'[h] = IF got = {} THEN mine[h] ELSE sent[replies[CHOOSE k \in got : TRUE].id].path
    BY <1>5, <2>1
  <2>3. CASE got = {}
    BY <2>2, <2>3
  <2>4. CASE got # {}
    <3>1. PICK k \in got : k = CHOOSE x \in got : TRUE
      BY <2>4
    <3>2. mine'[h] = sent[replies[k].id].path
      BY <2>2, <2>4, <3>1
    <3>3. k \in rfwd + 1 .. rfwd + n /\ Opens(k, h)
      BY <2>1, <3>1
    <3>4. replies[k].id = k
      BY <1>4, <3>3
    <3> QED
      BY <3>2, <3>3, <3>4
  <2> QED
    BY <2>3, <2>4
<1>7. SFTPTypeOK'
  <2>1. ASSUME NEW h \in Handles PROVE mine'[h] \in Paths \cup {NoPath}
    <3>1. \A k \in 1 .. Len(sent) : sent[k].path \in Paths \cup {NoPath}
      <4>1. \A q \in Packet : q.path \in Paths \cup {NoPath}
        BY DEF Packet
      <4>2. \A k \in 1 .. Len(sent) : sent[k] \in Packet
        BY <1>3, ElementOfSeq
      <4> QED
        BY <4>1, <4>2
    <3>2. mine[h] \in Paths \cup {NoPath}
      BY <1>3 DEF Names
    <3> QED
      BY <1>4, <1>6, <3>1, <3>2
  <2>2. mine' \in Names
    BY <1>5, <2>1 DEF Names
  <2>3. rfwd' \in 0 .. Len(replies') /\ rparsed' \in 0 .. rfwd'
    BY <1>1, <1>2
  <2> QED
    BY <1>0, <1>1, <2>2, <2>3 DEF SFTPTypeOK
<1>8. StreamWhole' /\ ParsedRequests' = ParsedRequests
  BY <1>0, <1>1, StreamKept
<1>9. RecordedSoFar' /\ (overtaken' \/ InTime')
  BY <1>0, <1>1, <1>2, <1>8, RelayKept
<1>10. ASSUME NEW h \in Handles, NEW f, NEW m, Given(h, f, m) PROVE Given(h, f, m)'
  <2>1. PICK k \in 1 .. rfwd : k <= m /\ Opens(k, h) /\ sent[k].path = f /\ Unclosed(h, k, m)
    BY <1>10 DEF Given
  <2>2. k \in 1 .. rfwd'
    BY <1>1, <1>2
  <2>3. Opens(k, h)' /\ Unclosed(h, k, m)' /\ sent'[k].path = f
    BY <1>1, <2>1 DEF Opens, Unclosed, Closes
  <2> QED
    BY <2>1, <2>2, <2>3 DEF Given
<1>11. HandlesGiven'
  <2>1. ASSUME NEW j \in 1 .. Len(sent), NEW q, q = sent[j] PROVE GivenFor(q, j)'
    <3>1. GivenFor(q, j)
      BY <1>0, <2>1 DEF HandlesGiven
    <3> QED
      BY <1>10, <3>1 DEF GivenFor
  <2> QED
    BY <1>1, <2>1 DEF HandlesGiven
<1>12. ClientKnows'
  <2>1. ASSUME NEW h \in Handles, NEW f, f = mine'[h], f # NoPath, NEW m \in Nat, m = Len(sent)
        PROVE  Given(h, f, m)'
    <3>1. CASE f = mine[h]
      BY <1>0, <1>10, <2>1, <3>1 DEF ClientKnows
    <3>2. ASSUME NEW k \in rfwd + 1 .. rfwd + n, Opens(k, h), f = sent[k].path PROVE Given(h, f, m)'
      <4>1. Unclosed(h, k, m)
        BY <1>0, <1>4, <2>1, <3>2, FreshHandle
      <4>2. Opens(k, h)' /\ Unclosed(h, k, m)' /\ sent'[k].path = f
        BY <1>1, <3>2, <4>1 DEF Opens, Unclosed, Closes
      <4>3. k \in 1 .. rfwd' /\ k <= m
        BY <1>1, <1>2, <1>4, <2>1
      <4> QED
        BY <4>2, <4>3 DEF Given
    <3> QED
      BY <1>6, <2>1, <3>1, <3>2
  <2> QED
    BY <1>1, <1>2, <2>1 DEF ClientKnows
<1>13. AnswersMatch' /\ GivenAgain' /\ ServerKnows'
  BY <1>0, <1>1 DEF AnswersMatch, GivenAgain, ServerKnows, Opens, Unclosed, Closes
<1> QED
  BY <1>7, <1>8, <1>9, <1>11, <1>12, <1>13 DEF SFTPInv, Exchange

\* An answer to a request that has left the buffer is one to a parsed request.
LEMMA AnswerToParsed ==
  ASSUME SFTPTypeOK, StreamWhole, AnswersMatch, NEW j \in 1 .. served, ~Unread(j)
  PROVE  j <= ParsedRequests
<1>0. /\ served \in Nat /\ fwd \in Nat /\ Len(buf) \in Nat /\ ParsedRequests \in Nat
      /\ 2 * served <= fwd /\ fwd = 2 * ParsedRequests + Len(buf)
  BY Counters
<1> SUFFICES ASSUME ~(j <= ParsedRequests) PROVE FALSE
  OBVIOUS
<1>1. PICK k \in 1 .. Len(buf) : 2 * ParsedRequests + k = 2 * j - 1
  <2>1. 2 * j - 1 - 2 * ParsedRequests \in 1 .. Len(buf)
    BY <1>0
  <2>2. 2 * ParsedRequests + (2 * j - 1 - 2 * ParsedRequests) = 2 * j - 1
    BY <1>0
  <2> QED
    BY <2>1, <2>2
<1>2. buf[k] = Half(2 * j - 1)
  BY <1>1 DEF StreamWhole
<1>3. j \in Nat \ {0}
  BY <1>0
<1>4. buf[k] = <<j, 1>>
  BY <1>2, <1>3, HalvesOf
<1>5. buf \in Seq(Ids \X {1, 2})
  BY DEF SFTPTypeOK
<1>6. k \in DOMAIN buf
  BY <1>5, LenProperties
<1> QED
  BY <1>4, <1>6 DEF Unread

LEMMA ParseReplyKept ==
  ASSUME SFTPInv, NEW w \in BOOLEAN, ParseReply(w)
  PROVE  SFTPInv'
<1>0. /\ SFTPTypeOK /\ StreamWhole /\ AnswersMatch /\ HandlesGiven /\ GivenAgain
      /\ Exchange /\ RecordedSoFar /\ (overtaken \/ InTime)
  BY DEF SFTPInv, Exchange
<1>1. /\ rparsed < rfwd /\ rparsed' = rparsed + 1
      /\ UNCHANGED <<sent, mine, fwd, buf, feeding, served, files, replies, rfwd>>
  BY DEF ParseReply
<1>2. /\ Len(sent) \in Nat /\ served \in Nat /\ rfwd \in Nat /\ rparsed \in Nat /\ fwd \in Nat
      /\ rfwd <= served /\ served <= Len(sent) /\ Len(replies) = served /\ Len(sent) <= MaxPackets
      /\ ParsedRequests \in Nat /\ ParsedRequests <= Len(sent)
  BY <1>0, Counters
<1>3. PICK j \in 1 .. served : j = rparsed + 1 /\ j \in 1 .. Len(sent) /\ j \in Ids
  BY <1>1, <1>2 DEF Ids
<1>4. /\ sent \in Seq(Packet) /\ fileLog \in Seq(Entry) /\ handles \in Names /\ pending \in [Ids -> Pending]
      /\ replies \in Seq(Reply) /\ overtaken \in BOOLEAN
  BY <1>0 DEF SFTPTypeOK
<1>5. PICK r \in Reply : r = replies[j]
  BY <1>2, <1>4, ElementOfSeq
<1>6. /\ r.id = j
      /\ r.type = "handle" => sent[j].op \in {"open", "opendir"} /\ r.handle \in Handles
      /\ r.type = "data" => sent[j].op = "read"
  BY <1>0, <1>5 DEF AnswersMatch
<1>7. PICK q \in Pending : q = pending[j]
  BY <1>3, <1>4
<1>8. /\ pending' = [pending EXCEPT ![j] = None]
      /\ handles' = IF r.type = "handle" /\ q.op \in {"open", "opendir"}
                      THEN [handles EXCEPT ![r.handle] = q.path] ELSE handles
      /\ fileLog' = IF r.type = "data" /\ q.op = "read"
                      THEN Record(j, IF q.path = NoPath THEN handles[q.handle] ELSE q.path, FALSE, w)
                    ELSE fileLog
      /\ overtaken' = (overtaken \/ Unread(j))
  BY <1>3, <1>5, <1>6, <1>7 DEF ParseReply
<1>9. StreamWhole' /\ ParsedRequests' = ParsedRequests
  BY <1>0, <1>1, StreamKept
<1>10. Exchange'
  BY <1>0, <1>1, <1>2, ExchangeKept
<1>11. handles' \in Names
  <2>1. q.op \in {"open", "opendir"} => q.path \in Paths
    BY DEF Pending, None
  <2> QED
    BY <1>4, <1>6, <1>8, <2>1 DEF Names
<1>12. pending' \in [Ids -> Pending]
  <2>1. None \in Pending
    BY DEF Pending
  <2> QED
    BY <1>4, <1>8, <2>1
<1>13. PICK f : f = IF q.path = NoPath THEN handles[q.handle] ELSE q.path
  OBVIOUS
<1>14. \/ fileLog' = fileLog
       \/ \E e \in Entry : /\ fileLog' = Append(fileLog, e) /\ e.id = j /\ ~e.request /\ e.path = f
                           /\ r.type = "data" /\ q.op = "read"
  <2>1. CASE r.type = "data" /\ q.op = "read"
    <3>1. q.handle \in Handles /\ q.path \in Paths \cup {NoPath}
      BY <2>1 DEF Pending, None
    <3>2. f \in Paths \cup {NoPath}
      BY <1>4, <1>13, <3>1 DEF Names
    <3>3. [id |-> j, path |-> f, request |-> FALSE, written |-> w] \in Entry
      BY <1>3, <3>2 DEF Entry
    <3>4. fileLog' = Append(fileLog, [id |-> j, path |-> f, request |-> FALSE, written |-> w])
      BY <1>8, <1>13, <2>1 DEF Record
    <3> QED
      BY <2>1, <3>3, <3>4
  <2>2. CASE ~(r.type = "data" /\ q.op = "read")
    BY <1>8, <2>2
  <2> QED
    BY <2>1, <2>2
<1>15. SFTPTypeOK'
  <2>1. fileLog' \in Seq(Entry)
    <3>1. ASSUME NEW e \in Entry, fileLog' = Append(fileLog, e) PROVE fileLog' \in Seq(Entry)
      BY <1>4, <3>1, AppendProperties
    <3> QED
      BY <1>4, <1>14, <3>1
  <2>2. overtaken' \in BOOLEAN /\ rparsed' \in 0 .. rfwd'
    <3>1. overtaken' \in BOOLEAN
      BY <1>8
    <3> QED
      BY <1>1, <1>2, <3>1
  <2> QED
    BY <1>0, <1>1, <1>11, <1>12, <2>1, <2>2 DEF SFTPTypeOK
<1>16. RecordedSoFar'
  <2>1. PICK P \in Nat : P = ParsedRequests /\ P = ParsedRequests'
    BY <1>2, <1>9
  <2>2. CASE fileLog' = fileLog
    BY <1>0, <1>1, <2>1, <2>2, LogKept
  <2>3. ASSUME NEW e \in Entry, fileLog' = Append(fileLog, e), ~e.request PROVE RecordedSoFar'
    BY <1>0, <1>1, <1>4, <2>1, <2>3, LogGrows
  <2> QED
    BY <1>14, <2>2, <2>3
<1>17. ASSUME ~overtaken' PROVE InTime'
  <2>1. InTime /\ ~Unread(j)
    BY <1>0, <1>8, <1>17
  <2>2. j <= ParsedRequests
    BY <1>0, <2>1, AnswerToParsed
  <2>3. RelayKnows /\ AwaitsAnswers /\ EntriesTrue
    BY <2>1 DEF InTime
  <2>4. j \in rparsed + 1 .. ParsedRequests
    BY <1>2, <1>3, <2>2
  <2>5. /\ sent[j].op \in {"open", "opendir"} => q.op = sent[j].op /\ q.path = sent[j].path
        /\ sent[j].op = "read" => q.op = "read" /\ q.path = sent[j].path
    <3>1. /\ sent[j].op \in {"open", "opendir"} => q = [op |-> sent[j].op, path |-> sent[j].path, handle |-> 0]
          /\ sent[j].op = "read" => q = [op |-> "read", path |-> sent[j].path, handle |-> sent[j].handle]
      BY <1>7, <2>3, <2>4, Zenon DEF AwaitsAnswers
    <3>2. CASE sent[j].op \in {"open", "opendir"}
      <4>1. q = [op |-> sent[j].op, path |-> sent[j].path, handle |-> 0] /\ sent[j].op # "read"
        BY <3>1, <3>2
      <4> QED
        BY <4>1
    <3>3. CASE sent[j].op = "read"
      <4>1. q = [op |-> "read", path |-> sent[j].path, handle |-> sent[j].handle]
        BY <3>1, <3>3
      <4> QED
        BY <3>3, <4>1
    <3> QED
      BY <3>2, <3>3, Zenon
  <2>6. ASSUME NEW h \in Handles, NEW k \in 1 .. rparsed', Opens(k, h)', NEW m, m = ParsedRequests, Unclosed(h, k, m)'
        PROVE  handles'[h] = sent'[k].path
    <3>1. Opens(k, h) /\ Unclosed(h, k, m)
      BY <1>1, <2>6 DEF Opens, Unclosed, Closes
    <3>2. CASE k = j
      <4>1. r.type = "handle" /\ r.handle = h
        BY <1>5, <3>1, <3>2 DEF Opens
      <4>2. q.op \in {"open", "opendir"} /\ q.path = sent[j].path
        BY <1>6, <2>5, <4>1
      <4>3. handles' = [handles EXCEPT ![h] = q.path]
        BY <1>8, <4>1, <4>2
      <4> QED
        BY <1>1, <1>4, <3>2, <4>2, <4>3 DEF Names
    <3>3. CASE k # j
      <4>1. k \in 1 .. rparsed /\ k \in 1 .. served /\ k < j
        BY <1>1, <1>2, <1>3, <3>3
      <4>2. handles[h] = sent[k].path
        BY <2>3, <2>6, <3>1, <4>1 DEF RelayKnows
      <4>3. ~(r.type = "handle" /\ r.handle = h)
        <5> SUFFICES ASSUME Opens(j, h) PROVE FALSE
          BY <1>5 DEF Opens
        <5>1. ~Unclosed(h, k, j - 1)
          BY <1>0, <3>1, <4>1 DEF GivenAgain
        <5>2. \A x \in k + 1 .. j - 1 : x \in k + 1 .. m
          BY <1>2, <1>3, <2>2, <2>6
        <5> QED
          BY <3>1, <5>1, <5>2 DEF Unclosed
      <4>4. handles'[h] = handles[h]
        BY <1>4, <1>8, <4>3 DEF Names
      <4> QED
        BY <1>1, <4>2, <4>4
    <3> QED
      BY <3>2, <3>3
  <2>7. RelayKnows'
    BY <1>9, <2>6 DEF RelayKnows
  <2>8. AwaitsAnswers'
    <3>1. ASSUME NEW k \in rparsed' + 1 .. ParsedRequests
          PROVE  pending'[k] = pending[k] /\ k \in rparsed + 1 .. ParsedRequests
      <4>1. k \in rparsed + 1 .. ParsedRequests /\ k # j /\ k \in Ids
        BY <1>1, <1>2, <1>3 DEF Ids
      <4> QED
        BY <1>4, <1>8, <4>1
    <3> QED
      BY <1>1, <1>9, <2>3, <3>1 DEF AwaitsAnswers
  <2>9. EntriesTrue'
    <3>1. CASE fileLog' = fileLog
      BY <1>1, <2>3, <3>1 DEF EntriesTrue
    <3>2. ASSUME NEW e \in Entry, fileLog' = Append(fileLog, e), e.id = j, e.path = f, r.type = "data"
          PROVE  EntriesTrue'
      <4>1. q.path = sent[j].path
        BY <1>6, <2>5, <3>2
      <4>2. sent[j].path # NoPath
        BY <1>0, <1>3 DEF HandlesGiven, GivenFor
      <4>3. e.path = sent[e.id].path /\ e.id \in 1 .. Len(sent)
        BY <1>3, <1>13, <3>2, <4>1, <4>2
      <4>4. /\ Len(fileLog) \in Nat /\ Len(fileLog') = Len(fileLog) + 1 /\ fileLog'[Len(fileLog) + 1] = e
            /\ \A k \in 1 .. Len(fileLog) : fileLog'[k] = fileLog[k]
        BY <1>4, <3>2, AppendProperties, LenProperties
      <4>5. \A k \in 1 .. Len(fileLog') : k \in 1 .. Len(fileLog) \/ k = Len(fileLog) + 1
        BY <4>4
      <4> QED
        BY <1>1, <2>3, <4>3, <4>4, <4>5 DEF EntriesTrue
    <3> QED
      BY <1>14, <3>1, <3>2
  <2>10. rparsed' <= ParsedRequests'
    BY <1>1, <1>3, <1>9, <2>2
  <2> QED
    BY <2>7, <2>8, <2>9, <2>10 DEF InTime
<1> QED
  BY <1>9, <1>10, <1>15, <1>16, <1>17 DEF SFTPInv

-------------------------------------------------------------------------------
\* A step that leaves the relay alone.
LEMMA SFTPStutter ==
  ASSUME SFTPInv, UNCHANGED sftp
  PROVE  SFTPInv'
<1>0. /\ SFTPTypeOK /\ StreamWhole /\ AnswersMatch /\ Exchange /\ RecordedSoFar /\ (overtaken \/ InTime)
  BY DEF SFTPInv, Exchange
<1>1. /\ sent' = sent /\ mine' = mine /\ fwd' = fwd /\ buf' = buf /\ feeding' = feeding /\ served' = served
      /\ files' = files /\ replies' = replies /\ rfwd' = rfwd /\ rparsed' = rparsed /\ pending' = pending
      /\ handles' = handles /\ fileLog' = fileLog /\ overtaken' = overtaken
  BY DEF sftp
<1>2. Len(sent) \in Nat /\ served \in Nat /\ fwd \in Nat
  BY <1>0, Counters
<1>3. SFTPTypeOK'
  BY <1>0, <1>1 DEF SFTPTypeOK
<1>4. StreamWhole' /\ ParsedRequests' = ParsedRequests
  BY <1>0, <1>1, StreamKept
<1>5. Exchange'
  BY <1>0, <1>1, <1>2, ExchangeKept
<1>6. RecordedSoFar' /\ (overtaken' \/ InTime')
  BY <1>0, <1>1, <1>2, <1>4, RelayKept
<1> QED
  BY <1>3, <1>4, <1>5, <1>6 DEF SFTPInv

\* Every step of the relay keeps the invariant.
LEMMA SFTPStep == SFTPInv /\ [SFTPNext]_sftp => SFTPInv'
<1> SUFFICES ASSUME SFTPInv, [SFTPNext]_sftp PROVE SFTPInv'
  OBVIOUS
<1>1. CASE ClientSends
  BY <1>1, ClientSendsKept
<1>2. ASSUME NEW failing \in BOOLEAN, Serve(failing) PROVE SFTPInv'
  BY <1>2, ServeKept
<1>3. ASSUME NEW n \in 1 .. MaxChunk, ForwardChunk(n) PROVE SFTPInv'
  BY <1>3, ForwardChunkKept
<1>4. ASSUME NEW w \in BOOLEAN, Feed(w) PROVE SFTPInv'
  BY <1>4, FeedKept
<1>5. ASSUME NEW n \in 1 .. MaxPackets, ForwardReplies(n) PROVE SFTPInv'
  BY <1>5, ForwardRepliesKept
<1>6. ASSUME NEW w \in BOOLEAN, ParseReply(w) PROVE SFTPInv'
  BY <1>6, ParseReplyKept
<1>7. CASE UNCHANGED sftp
  BY <1>7, SFTPStutter
<1>8. \A w \in Writes : w \in BOOLEAN
  BY DEF Writes
<1> QED
  BY <1>1, <1>2, <1>3, <1>4, <1>5, <1>6, <1>7, <1>8 DEF SFTPNext

\* What the invariant says of the events: the paths are those of the requests.
LEMMA PathsFollow == SFTPInv => PathsTrue
<1> SUFFICES ASSUME SFTPInv, ~overtaken PROVE \A e \in ToSet(fileLog) : e.path = sent[e.id].path
  BY DEF PathsTrue
<1>1. EntriesTrue /\ fileLog \in Seq(Entry)
  BY DEF SFTPInv, InTime, SFTPTypeOK
<1>2. DOMAIN fileLog = 1 .. Len(fileLog)
  BY <1>1, LenProperties
<1> QED
  BY <1>1, <1>2 DEF ToSet, EntriesTrue

\* Between two calls of Feed every written request but a half one is parsed.
LEMMA RecordedFollow == SFTPInv => OperationsRecorded
<1> SUFFICES ASSUME SFTPInv, ~feeding
             PROVE  LET own == {k \in DOMAIN fileLog : fileLog[k].request} IN
                    /\ \A i \in 1 .. fwd \div 2 : sent[i].op \in Told => \E k \in own : fileLog[k].id = i
                    /\ \A k \in own : fileLog[k].id \in 1 .. fwd \div 2 /\ sent[fileLog[k].id].op \in Told
                    /\ \A j, k \in own : j < k => fileLog[j].id < fileLog[k].id
  BY DEF OperationsRecorded
<1>1. SFTPTypeOK /\ StreamWhole /\ AnswersMatch /\ RecordedSoFar
  BY DEF SFTPInv, Exchange
<1>2. fwd \div 2 = ParsedRequests
  <2>1. ParsedRequests \in Nat /\ Len(buf) \in Nat /\ fwd = 2 * ParsedRequests + Len(buf)
    BY <1>1, Counters
  <2>2. Len(buf) <= 1
    BY <1>1 DEF StreamWhole
  <2>3. fwd = 2 * ParsedRequests \/ fwd = 2 * ParsedRequests + 1
    BY <2>1, <2>2
  <2> QED
    BY <2>1, <2>3, Halved
<1>3. DOMAIN fileLog = 1 .. Len(fileLog)
  BY <1>1, LenProperties DEF SFTPTypeOK
<1> QED
  BY <1>1, <1>2, <1>3 DEF RecordedSoFar, Own

===============================================================================
