----------------------------- MODULE ChatLogProofs -----------------------------
(***************************************************************************)
(* Theorems about ChatLog, for all websockets and bounds.                  *)
(***************************************************************************)
EXTENDS ChatLog, SequenceTheorems, WellFoundedInduction, TLAPS

(***************************************************************************)
(* The inductive invariant.  A log has no more lines than messages were    *)
(* written, a line in the middle of its writing included.                  *)
(***************************************************************************)
Lines ==
  /\ runs > 0
  /\ \A r \in Run : Len(log[r]) + (IF cut[r] = None THEN 0 ELSE 1) <= clock

\* Sessions that were not put yet have had nothing.
Unused ==
  /\ cur <= used
  /\ \A i \in Sid : i > used =>
       /\ sess[i].seen = {} /\ sess[i].subs = {} /\ sess[i].out = {} /\ sess[i].todo = << >>
       /\ \A m \in Message : <<i, m>> \notin said

\* What is in the buffer has been seen.
BufferSeen == \A i \in Sid : Range(sess[i].buffer) \subseteq sess[i].seen

\* Somebody listens to the session, or may yet.
Heard(i) == i = cur \/ sess[i].subs # {}

\* What is in flight has been seen, and has been appended once.
Flight ==
  \A i \in Sid : Heard(i) => \A m \in Message :
    /\ m \in sess[i].out => m \in sess[i].seen
    /\ <<i, m>> \in said => m \in sess[i].seen /\ m \notin sess[i].out

(***************************************************************************)
(* A websocket gets messages between subscribe and disconnect only, of the *)
(* session that it has subscribed to.                                      *)
(***************************************************************************)
Subscribed ==
  \A w \in Socket :
    /\ sock[w].sub <= used
    /\ sock[w].at = "off" => sock[w] = Closed
    /\ sock[w].at = "history" => sock[w].queue = << >>
    /\ cur # None /\ w \in sess[cur].subs => sock[w].at = "on" /\ sock[w].sub = cur
    /\ sock[w].at = "history" /\ sock[w].sub # None => w \notin sess[sock[w].sub].subs

\* The websocket gets, or is about to get, the messages of the session.
Listens(w, i) ==
  /\ sock[w].sub = i
  /\ w \in sess[i].subs \/ (sock[w].at = "history" /\ i = cur)

\* What a websocket got or is going to get its session has seen and dispatched.
SentSettled ==
  \A w \in Socket : \A i \in Sid : Listens(w, i) =>
    \A m \in Range(sock[w].queue) \cup sock[w].sent :
      m \in sess[i].seen /\ m \notin InFlight(i)

\* The session that end_session waits for is not in the map.
Ending == \A c \in Creator : pc[c] = "join" => ending[c] # cur /\ ending[c] \in Sid /\ ending[c] <= used

IInv ==
  /\ TypeOK
  /\ Lines
  /\ Unused
  /\ BufferSeen
  /\ Flight
  /\ Subscribed
  /\ SentSettled
  /\ Ending
  /\ SentTwiceByRaceOnly
  /\ MapSessionLive

-----------------------------------------------------------------------------

\* Induction: a set of numbers that has no first member is empty.
LEMMA NoFirst ==
  ASSUME NEW Bad \in SUBSET Nat, 0 \notin Bad, \A m \in Nat : m + 1 \in Bad => m \in Bad
  PROVE  Bad = {}
<1>. DEFINE Less == OpToRel(<, Nat)
<1>1. \A x, y \in Nat : <<y, x>> \in Less <=> y < x
  BY DEF OpToRel
<1>2. IsWellFoundedOn(Less, Nat)
  BY NatLessThanWellFounded, Zenon
<1>. HIDE DEF Less
<1>3. SUFFICES ASSUME Bad # {} PROVE FALSE
  OBVIOUS
<1>4. PICK x \in Bad : \A y \in Bad : ~(<<y, x>> \in Less)
  BY <1>2, <1>3, WFMin, Zenon
<1>5. x \in Nat /\ x # 0
  OBVIOUS
<1>6. x - 1 \in Nat /\ x - 1 < x /\ (x - 1) + 1 = x
  BY <1>5
<1>7. x - 1 \in Bad
  BY <1>6
<1>. QED
  BY <1>1, <1>4, <1>5, <1>6, <1>7

\* A set of numbers with a member and a bound has a greatest one.
LEMMA Greatest ==
  ASSUME NEW N \in Nat, NEW S \in SUBSET (0 .. N), 0 \in S
  PROVE  \E n \in S : \A m \in S : m <= n
<1>. DEFINE Bad == {m \in Nat : m <= N /\ ~\E n \in S : \A k \in S : k <= m => k <= n}
<1>1. 0 \notin Bad
  OBVIOUS
<1>2. \A m \in Nat : m + 1 \in Bad => m \in Bad
  <2>1. SUFFICES ASSUME NEW m \in Nat, m + 1 <= N, m \notin Bad
                 PROVE  \E n \in S : \A k \in S : k <= m + 1 => k <= n
    OBVIOUS
  <2>2. PICK n \in S : \A k \in S : k <= m => k <= n
    BY <2>1
  <2>3. CASE m + 1 \in S
    BY <2>3
  <2>4. CASE m + 1 \notin S
    BY <2>2, <2>4
  <2>. QED
    BY <2>3, <2>4
<1>3. Bad = {}
  <2>. HIDE DEF Bad
  <2>1. Bad \in SUBSET Nat
    BY DEF Bad
  <2>. QED
    BY <1>1, <1>2, <2>1, NoFirst
<1>4. PICK n \in S : \A k \in S : k <= N => k <= n
  BY <1>3
<1>. QED
  BY <1>4

\* The newest messages of a sequence.
LEMMA NewerSeq ==
  ASSUME NEW S, NEW s \in Seq(S), NEW n \in Nat
  PROVE  /\ Newer(n, s) \in Seq(S) /\ Len(Newer(n, s)) <= n
         /\ Range(Newer(n, s)) \subseteq Range(s)
         /\ NoTwice(s) => NoTwice(Newer(n, s))
<1>. DEFINE m == IF Len(s) > n THEN Len(s) - n + 1 ELSE 1
            t == SubSeq(s, m, Len(s))
<1>1. Len(s) \in Nat /\ m \in Nat /\ m >= 1 /\ Newer(n, s) = t
  BY DEF Newer
<1>2. t \in Seq(S) /\ Len(t) = (IF m <= Len(s) THEN Len(s) - m + 1 ELSE 0)
  BY <1>1, SubSeqProperties, ElementOfSeq
<1>3. \A i \in 1 .. Len(s) - m + 1 : t[i] = s[m + i - 1]
  BY <1>1, SubSeqProperties, ElementOfSeq
<1>. HIDE DEF m, t
<1>4. \A i \in 1 .. Len(t) : t[i] = s[m + i - 1] /\ m + i - 1 \in 1 .. Len(s)
  BY <1>1, <1>2, <1>3
<1>5. DOMAIN t = 1 .. Len(t) /\ DOMAIN s = 1 .. Len(s)
  BY <1>2, LenProperties
<1>6. Range(t) \subseteq Range(s)
  BY <1>4, <1>5 DEF Range
<1>7. NoTwice(s) => NoTwice(t)
  <2>1. SUFFICES ASSUME NoTwice(s), NEW j \in 1 .. Len(t), NEW k \in 1 .. Len(t), t[j] = t[k]
                 PROVE  j = k
    BY <1>5 DEF NoTwice
  <2>2. /\ m + j - 1 \in DOMAIN s /\ m + k - 1 \in DOMAIN s
        /\ s[m + j - 1] = s[m + k - 1]
    BY <1>4, <1>5, <2>1
  <2>3. m + j - 1 = m + k - 1
    BY <2>1, <2>2 DEF NoTwice
  <2>. QED
    BY <1>1, <1>2, <2>1, <2>3
<1>8. Len(t) <= n
  BY <1>1, <1>2 DEF m
<1>. QED
  BY <1>1, <1>2, <1>6, <1>7, <1>8

-----------------------------------------------------------------------------
\* What NewOnes does with a message.
NewStep(f, k, i, msgs) ==
  IF k = 0 THEN << >>
  ELSE IF IsNew(i, msgs[k]) THEN Append(f[k - 1], msgs[k])
  ELSE f[k - 1]

\* A function as NewOnes defines it; there is one.
Defines(f, n, i, msgs) == f = [k \in 0 .. n |-> NewStep(f, k, i, msgs)]

\* Such a function exists for every number of messages.
LEMMA NewExists ==
  ASSUME NEW i, NEW msgs, NEW n \in Nat
  PROVE  \E f : Defines(f, n, i, msgs)
<1>. USE DEF Defines
<1>. DEFINE Bad == {m \in Nat : ~\E f : f = [k \in 0 .. m |-> NewStep(f, k, i, msgs)]}
<1>1. 0 \notin Bad
  <2>. DEFINE f == [k \in 0 .. 0 |-> << >>]
  <2>1. f = [k \in 0 .. 0 |-> NewStep(f, k, i, msgs)]
    BY DEF NewStep
  <2>. HIDE DEF f
  <2>. QED
    BY <2>1
<1>2. \A m \in Nat : m + 1 \in Bad => m \in Bad
  <2>1. SUFFICES ASSUME NEW m \in Nat, m \notin Bad
                 PROVE  \E g : g = [k \in 0 .. m + 1 |-> NewStep(g, k, i, msgs)]
    OBVIOUS
  <2>2. PICK f : f = [k \in 0 .. m |-> NewStep(f, k, i, msgs)]
    BY <2>1
  <2>. DEFINE g == [k \in 0 .. m + 1 |-> IF k <= m THEN f[k] ELSE NewStep(f, m + 1, i, msgs)]
  <2>3. \A k \in 0 .. m + 1 : k # 0 => k - 1 \in 0 .. m /\ g[k - 1] = f[k - 1]
    OBVIOUS
  <2>4. \A k \in 0 .. m + 1 : NewStep(g, k, i, msgs) = NewStep(f, k, i, msgs)
    BY <2>3 DEF NewStep
  <2>5. \A k \in 0 .. m + 1 : g[k] = NewStep(f, k, i, msgs)
    <3>1. \A k \in 0 .. m : f[k] = NewStep(f, k, i, msgs)
      BY <2>2
    <3>2. \A k \in 0 .. m + 1 : k \in 0 .. m \/ k = m + 1
      OBVIOUS
    <3>3. \A k \in 0 .. m : g[k] = f[k]
      OBVIOUS
    <3>4. g[m + 1] = NewStep(f, m + 1, i, msgs)
      OBVIOUS
    <3>. HIDE DEF g
    <3>. QED
      BY <3>1, <3>2, <3>3, <3>4
  <2>6. g = [k \in 0 .. m + 1 |-> g[k]]
    OBVIOUS
  <2>. HIDE DEF g
  <2>7. g = [k \in 0 .. m + 1 |-> NewStep(g, k, i, msgs)]
    BY <2>4, <2>5, <2>6
  <2>. QED
    BY <2>7
<1>3. Bad = {}
  <2>. HIDE DEF Bad
  <2>1. Bad \in SUBSET Nat
    BY DEF Bad
  <2>. QED
    BY <1>1, <1>2, <2>1, NoFirst
<1>. QED
  BY <1>3

\* New messages are messages.
LEMMA NewOnesSeq ==
  ASSUME NEW i, NEW S, NEW msgs \in Seq(S)
  PROVE  NewOnes(i, msgs) \in Seq(S)
<1>. DEFINE n == Len(msgs)
            new == CHOOSE f : f = [k \in 0 .. n |-> NewStep(f, k, i, msgs)]
            Bad == {k \in Nat : k <= n /\ new[k] \notin Seq(S)}
<1>1. n \in Nat /\ \A k \in 1 .. n : msgs[k] \in S
  BY LenProperties, ElementOfSeq
<1>2. new = [k \in 0 .. n |-> NewStep(new, k, i, msgs)]
  <2>1. PICK f : Defines(f, n, i, msgs)
    BY <1>1, NewExists
  <2>2. f = [k \in 0 .. n |-> NewStep(f, k, i, msgs)]
    BY <2>1 DEF Defines
  <2>. QED
    BY <2>2, Zenon
<1>3. NewOnes(i, msgs) = new[n]
  BY Zenon DEF NewOnes, NewStep
<1>. HIDE DEF new
<1>4. \A k \in 0 .. n : new[k] = NewStep(new, k, i, msgs)
  BY <1>2
<1>5. 0 \notin Bad
  <2>1. new[0] = << >>
    BY <1>1, <1>4 DEF NewStep
  <2>. QED
    BY <2>1, EmptySeq
<1>6. \A k \in Nat : k + 1 \in Bad => k \in Bad
  <2>1. SUFFICES ASSUME NEW k \in Nat, k + 1 <= n, new[k] \in Seq(S) PROVE new[k + 1] \in Seq(S)
    BY <1>1
  <2>2. new[k + 1] = IF IsNew(i, msgs[k + 1]) THEN Append(new[k], msgs[k + 1]) ELSE new[k]
    BY <1>1, <1>4, <2>1 DEF NewStep
  <2>3. msgs[k + 1] \in S
    BY <1>1, <2>1
  <2>4. Append(new[k], msgs[k + 1]) \in Seq(S)
    BY <2>1, <2>3, AppendProperties
  <2>. QED
    BY <2>1, <2>2, <2>4
<1>7. Bad = {}
  <2>. HIDE DEF Bad
  <2>1. Bad \in SUBSET Nat
    BY DEF Bad
  <2>. QED
    BY <1>5, <1>6, <2>1, NoFirst
<1>. QED
  BY <1>1, <1>3, <1>7

-----------------------------------------------------------------------------
\* What FlattenSeq does with a sequence, and a function as it defines it.
FlatStep(f, k, seqs) == IF k = 1 THEN seqs[k] ELSE f[k - 1] \o seqs[k]
Flattens(f, n, seqs) == f = [k \in 1 .. n |-> FlatStep(f, k, seqs)]

\* Such a function exists for every number of sequences.
LEMMA FlattenExists ==
  ASSUME NEW seqs, NEW n \in Nat
  PROVE  \E f : Flattens(f, n, seqs)
<1>. USE DEF Flattens
<1>. DEFINE Bad == {m \in Nat : ~\E f : Flattens(f, m, seqs)}
<1>1. 0 \notin Bad
  <2>. DEFINE f == [k \in 1 .. 0 |-> << >>]
  <2>1. f = [k \in 1 .. 0 |-> FlatStep(f, k, seqs)]
    OBVIOUS
  <2>. HIDE DEF f
  <2>. QED
    BY <2>1
<1>2. \A m \in Nat : m + 1 \in Bad => m \in Bad
  <2>1. SUFFICES ASSUME NEW m \in Nat, m \notin Bad
                 PROVE  \E g : g = [k \in 1 .. m + 1 |-> FlatStep(g, k, seqs)]
    OBVIOUS
  <2>2. PICK f : f = [k \in 1 .. m |-> FlatStep(f, k, seqs)]
    BY <2>1
  <2>. DEFINE g == [k \in 1 .. m + 1 |-> IF k <= m THEN f[k] ELSE FlatStep(f, m + 1, seqs)]
  <2>3. \A k \in 1 .. m + 1 : k # 1 => k - 1 \in 1 .. m /\ g[k - 1] = f[k - 1]
    OBVIOUS
  <2>4. \A k \in 1 .. m + 1 : FlatStep(g, k, seqs) = FlatStep(f, k, seqs)
    BY <2>3 DEF FlatStep
  <2>5. \A k \in 1 .. m + 1 : g[k] = FlatStep(f, k, seqs)
    <3>1. \A k \in 1 .. m : f[k] = FlatStep(f, k, seqs)
      BY <2>2
    <3>2. \A k \in 1 .. m + 1 : k \in 1 .. m \/ k = m + 1
      OBVIOUS
    <3>3. \A k \in 1 .. m : g[k] = f[k]
      OBVIOUS
    <3>4. g[m + 1] = FlatStep(f, m + 1, seqs)
      OBVIOUS
    <3>. HIDE DEF g
    <3>. QED
      BY <3>1, <3>2, <3>3, <3>4
  <2>6. g = [k \in 1 .. m + 1 |-> g[k]]
    OBVIOUS
  <2>. HIDE DEF g
  <2>7. g = [k \in 1 .. m + 1 |-> FlatStep(g, k, seqs)]
    BY <2>4, <2>5, <2>6
  <2>. QED
    BY <2>7
<1>3. Bad = {}
  <2>. HIDE DEF Bad
  <2>1. Bad \in SUBSET Nat
    BY DEF Bad
  <2>. QED
    BY <1>1, <1>2, <2>1, NoFirst
<1>. QED
  BY <1>3

\* The concatenation of sequences is one.
LEMMA FlattenType ==
  ASSUME NEW S, NEW seqs \in Seq(Seq(S))
  PROVE  FlattenSeq(seqs) \in Seq(S)
<1>. DEFINE n == Len(seqs)
            flatten == CHOOSE f : f = [k \in 1 .. n |-> FlatStep(f, k, seqs)]
            Bad == {k \in Nat : k + 1 <= n /\ flatten[k + 1] \notin Seq(S)}
<1>1. n \in Nat /\ \A k \in 1 .. n : seqs[k] \in Seq(S)
  BY LenProperties, ElementOfSeq
<1>2. flatten = [k \in 1 .. n |-> FlatStep(flatten, k, seqs)]
  <2>1. PICK f : Flattens(f, n, seqs)
    BY <1>1, FlattenExists
  <2>2. f = [k \in 1 .. n |-> FlatStep(f, k, seqs)]
    BY <2>1 DEF Flattens
  <2>. QED
    BY <2>2, Zenon
<1>3. FlattenSeq(seqs) = IF n = 0 THEN seqs ELSE flatten[n]
  BY Zenon DEF FlattenSeq, FlatStep
<1>. HIDE DEF flatten
<1>4. \A k \in 1 .. n : flatten[k] = FlatStep(flatten, k, seqs)
  BY <1>2
<1>5. 0 \notin Bad
  <2>1. SUFFICES ASSUME 1 <= n PROVE flatten[1] \in Seq(S)
    BY <1>1
  <2>2. 1 \in 1 .. n
    BY <1>1, <2>1
  <2>. QED
    BY <1>1, <1>4, <2>2 DEF FlatStep
<1>6. \A k \in Nat : k + 1 \in Bad => k \in Bad
  <2>1. SUFFICES ASSUME NEW k \in Nat, k + 2 <= n, flatten[k + 1] \in Seq(S)
                 PROVE  flatten[k + 2] \in Seq(S)
    BY <1>1
  <2>2. k + 2 \in 1 .. n /\ (k + 2) - 1 = k + 1 /\ k + 2 # 1
    BY <1>1, <2>1
  <2>3. flatten[k + 2] = flatten[k + 1] \o seqs[k + 2]
    BY <1>4, <2>2 DEF FlatStep
  <2>. QED
    BY <1>1, <2>1, <2>2, <2>3, ConcatProperties
<1>7. Bad = {}
  <2>. HIDE DEF Bad
  <2>1. Bad \in SUBSET Nat
    BY DEF Bad
  <2>. QED
    BY <1>5, <1>6, <2>1, NoFirst
<1>8. CASE n = 0
  <2>1. seqs = << >>
    BY <1>8, EmptySeq
  <2>. QED
    BY <1>3, <1>8, <2>1, EmptySeq
<1>9. CASE n # 0
  <2>1. n - 1 \in Nat /\ (n - 1) + 1 = n
    BY <1>1, <1>9
  <2>2. flatten[n] \in Seq(S)
    <3>1. PICK k \in Nat : k + 1 = n
      BY <2>1
    <3>2. flatten[k + 1] \in Seq(S)
      <4>1. k \notin Bad
        <5>. HIDE DEF Bad
        <5>. QED
          BY <1>7
      <4>2. k + 1 <= n
        BY <1>1, <3>1
      <4>. HIDE DEF n
      <4>. QED
        BY <3>1, <4>1, <4>2
    <3>. QED
      BY <3>1, <3>2
  <2>. QED
    BY <1>3, <1>9, <2>2
<1>. QED
  BY <1>8, <1>9

\* What a reader of a log, and of all of them, finds are messages.
LEMMA ParsedType ==
  ASSUME TypeOK
  PROVE  AllParsed \in Seq(Message) /\ \A r \in Run : Parsed(r) \in Seq(Message)
<1>1. ASSUME NEW r \in Run PROVE Parsed(r) \in Seq(Message)
  <2>. DEFINE lines == [k \in 1 .. Len(log[r]) |-> <<log[r][k], TRUE>>]
  <2>1. log[r] \in Seq(Time) /\ cut[r] \in Time \cup {None}
    BY DEF TypeOK
  <2>2. Len(log[r]) \in Nat /\ \A k \in 1 .. Len(log[r]) : log[r][k] \in Time
    BY <2>1, LenProperties, ElementOfSeq
  <2>3. lines \in [1 .. Len(log[r]) -> Message]
    BY <2>2 DEF Message
  <2>4. lines \in Seq(Message)
    BY <2>2, <2>3, SeqDef
  <2>5. cut[r] # None => << <<cut[r], FALSE>> >> \in Seq(Message)
    <3>1. cut[r] # None => <<cut[r], FALSE>> \in Message
      BY <2>1 DEF Message
    <3>. QED
      BY <3>1
  <2>6. (IF cut[r] = None THEN << >> ELSE << <<cut[r], FALSE>> >>) \in Seq(Message)
    BY <2>5
  <2>. QED
    BY <2>4, <2>6, ConcatProperties DEF Parsed
<1>2. [r \in Run |-> Parsed(r)] \in Seq(Seq(Message))
  <2>1. [r \in Run |-> Parsed(r)] \in [1 .. MaxRuns -> Seq(Message)] /\ MaxRuns \in Nat
    BY <1>1, BoundAssumption DEF Run
  <2>. QED
    BY <2>1, SeqDef
<1>. QED
  BY <1>1, <1>2, FlattenType DEF AllParsed

\* The newest log is one of them, if there is any.
LEMMA NewestLog == Newest \in Run \cup {None} /\ (Newest # None => Newest \in Logs)
<1>1. Logs \cup {None} \in SUBSET (0 .. MaxRuns) /\ 0 \in Logs \cup {None} /\ MaxRuns \in Nat
  BY BoundAssumption DEF Logs, Run, None
<1>2. \E r \in Logs \cup {None} : \A q \in Logs \cup {None} : q <= r
  BY <1>1, Greatest
<1>3. Newest \in Logs \cup {None}
  BY <1>2 DEF Newest
<1>. QED
  BY <1>3 DEF Logs

-----------------------------------------------------------------------------
Session ==
  [path : Run \cup {None}, pos : 0 .. MaxTime, partial : {"none", "held", "lost"},
   todo : Seq(Message), out : SUBSET Message, buffer : Seq(Message), seen : SUBSET Message,
   subs : SUBSET Socket, thread : {"begun", "runs", "over"}]
Sock == [at : {"off", "history", "on"}, sub : Sid \cup {None}, queue : Seq(Message),
         sent : SUBSET Message]

\* Sessions, websockets and the map are of their types.
ObjectsTyped ==
  /\ cur \in Sid \cup {None} /\ used \in 0 .. MaxSessions
  /\ sess \in [Sid -> Session] /\ \A i \in Sid : Len(sess[i].buffer) <= BufferMax
  /\ said \subseteq Sid \X Message
  /\ sock \in [Socket -> Sock] /\ \A w \in Socket : Len(sock[w].queue) <= QueueMax

\* The part of the invariant that is about sessions and websockets.
Delivery ==
  /\ ObjectsTyped
  /\ Unused
  /\ BufferSeen
  /\ Flight
  /\ Subscribed
  /\ SentSettled
  /\ SentTwiceByRaceOnly
  /\ MapSessionLive

\* No buffer gets a message that its session has had.
Quiet ==
  \A i \in Sid : sess[i].seen \cap (Range(sess'[i].buffer) \ Range(sess[i].buffer)) = {}

\* The inductive invariant contains it.
LEMMA DeliveryHolds == IInv => Delivery
  BY DEF IInv, Delivery, ObjectsTyped, TypeOK, Session, Sock

\* The bounds are numbers.
LEMMA Bounds ==
  /\ MaxRuns \in Nat /\ MaxTime \in Nat /\ MaxSessions \in Nat
  /\ BufferMax \in Nat /\ QueueMax \in Nat
  /\ MaxRuns > 0 /\ MaxTime > 0 /\ MaxSessions > 0 /\ BufferMax > 0 /\ QueueMax > 0
  BY BoundAssumption

\* What the parts of Delivery say of the variables.
LEMMA DeliveryTypes ==
  ASSUME Delivery
  PROVE  /\ cur \in Sid \cup {None} /\ used \in Nat /\ used <= MaxSessions /\ cur <= used
         /\ sess \in [Sid -> Session] /\ sock \in [Socket -> Sock] /\ said \subseteq Sid \X Message
         /\ Sid \subseteq Nat /\ None \notin Sid /\ None = 0
         /\ \A w \in Socket : sock[w].sub \in Sid \cup {None} /\ sock[w].at \in {"off", "history", "on"}
         /\ cur # None => cur \in Sid
         /\ \A i \in Sid : sess[i] \in Session /\ sess[i].out \subseteq Message /\ sess[i].seen \subseteq Message
<1>1. /\ cur \in Sid \cup {None} /\ used \in Nat /\ used <= MaxSessions /\ cur <= used
      /\ sess \in [Sid -> Session] /\ sock \in [Socket -> Sock] /\ said \subseteq Sid \X Message
      /\ Sid \subseteq Nat /\ None \notin Sid /\ None = 0 /\ (cur # None => cur \in Sid)
  BY Bounds DEF Delivery, ObjectsTyped, Unused, Sid, None
<1>2. \A w \in Socket : sock[w].sub \in Sid \cup {None} /\ sock[w].at \in {"off", "history", "on"}
  BY <1>1 DEF Sock
<1>3. \A s \in Session : s.out \subseteq Message /\ s.seen \subseteq Message
  BY DEF Session
<1>. QED
  BY <1>1, <1>2, <1>3

\* What is in flight of a session.
LEMMA InFlightIs ==
  ASSUME NEW i, NEW m \in Message
  PROVE  m \in InFlight(i) <=> m \in sess[i].out \/ <<i, m>> \in said
  BY DEF InFlight

\* A sequence with one more member.
LEMMA AppendedSeq ==
  ASSUME NEW S, NEW s \in Seq(S), NEW m \in S
  PROVE  /\ Append(s, m) \in Seq(S) /\ Range(Append(s, m)) = Range(s) \cup {m}
         /\ NoTwice(s) /\ m \notin Range(s) => NoTwice(Append(s, m))
<1>. DEFINE t == Append(s, m)
<1>1. t \in Seq(S) /\ Len(t) = Len(s) + 1 /\ t[Len(s) + 1] = m /\ \A j \in 1 .. Len(s) : t[j] = s[j]
  BY AppendProperties
<1>2. DOMAIN t = 1 .. Len(s) + 1 /\ DOMAIN s = 1 .. Len(s) /\ Len(s) \in Nat
  BY <1>1, LenProperties
<1>. HIDE DEF t
<1>3. \A j \in 1 .. Len(s) + 1 : j \in 1 .. Len(s) \/ j = Len(s) + 1
  BY <1>2
<1>4. Range(t) = Range(s) \cup {m}
  BY <1>1, <1>2, <1>3 DEF Range
<1>5. ASSUME NoTwice(s), m \notin Range(s) PROVE NoTwice(t)
  <2>1. \A j \in 1 .. Len(s) : s[j] # m
    BY <1>5, <1>2 DEF Range
  <2>. QED
    BY <1>5, <1>1, <1>2, <1>3, <2>1 DEF NoTwice
<1>. QED
  BY <1>1, <1>4, <1>5 DEF t

\* A session or a websocket with some of its fields assigned.
LEMMA SessionFields ==
  ASSUME NEW s \in Session
  PROVE  /\ \A b \in Seq(Message), e \in SUBSET Message : [s EXCEPT !.seen = e, !.buffer = b] \in Session
         /\ \A u \in SUBSET Socket : [s EXCEPT !.subs = u] \in Session
         /\ \A o \in SUBSET Message : [s EXCEPT !.out = o] \in Session
         /\ \A t \in Seq(Message) :
              /\ [s EXCEPT !.todo = t] \in Session
              /\ [s EXCEPT !.todo = t, !.thread = "runs"] \in Session
              /\ \A n \in 0 .. MaxTime, l \in {"none", "held", "lost"} :
                   /\ [s EXCEPT !.todo = t, !.pos = n, !.partial = l] \in Session
                   /\ \A p \in Run \cup {None} :
                        [s EXCEPT !.path = p, !.pos = n, !.partial = l, !.todo = t] \in Session
         /\ \A n \in 0 .. MaxTime, l \in {"none", "held", "lost"}, p \in Run \cup {None} :
              [s EXCEPT !.path = p, !.pos = n, !.partial = l] \in Session
<1>1. s = [path |-> s.path, pos |-> s.pos, partial |-> s.partial, todo |-> s.todo, out |-> s.out,
           buffer |-> s.buffer, seen |-> s.seen, subs |-> s.subs, thread |-> s.thread]
      /\ s.path \in Run \cup {None} /\ s.pos \in 0 .. MaxTime /\ s.partial \in {"none", "held", "lost"}
      /\ s.todo \in Seq(Message) /\ s.out \in SUBSET Message /\ s.buffer \in Seq(Message)
      /\ s.seen \in SUBSET Message /\ s.subs \in SUBSET Socket /\ s.thread \in {"begun", "runs", "over"}
  BY DEF Session
<1>2. \A b \in Seq(Message), e \in SUBSET Message : [s EXCEPT !.seen = e, !.buffer = b] \in Session
  BY <1>1 DEF Session
<1>3. \A u \in SUBSET Socket : [s EXCEPT !.subs = u] \in Session
  BY <1>1 DEF Session
<1>4. \A o \in SUBSET Message : [s EXCEPT !.out = o] \in Session
  BY <1>1 DEF Session
<1>5. \A t \in Seq(Message) : [s EXCEPT !.todo = t] \in Session
  BY <1>1 DEF Session
<1>6. \A t \in Seq(Message) : [s EXCEPT !.todo = t, !.thread = "runs"] \in Session
  BY <1>1 DEF Session
<1>7. \A t \in Seq(Message), n \in 0 .. MaxTime, l \in {"none", "held", "lost"} :
        [s EXCEPT !.todo = t, !.pos = n, !.partial = l] \in Session
  BY <1>1 DEF Session
<1>8. \A t \in Seq(Message), n \in 0 .. MaxTime, l \in {"none", "held", "lost"}, p \in Run \cup {None} :
        [s EXCEPT !.path = p, !.pos = n, !.partial = l, !.todo = t] \in Session
  BY <1>1 DEF Session
<1>9. \A n \in 0 .. MaxTime, l \in {"none", "held", "lost"}, p \in Run \cup {None} :
        [s EXCEPT !.path = p, !.pos = n, !.partial = l] \in Session
  BY <1>1 DEF Session
<1>. QED
  BY <1>2, <1>3, <1>4, <1>5, <1>6, <1>7, <1>8, <1>9

\* The same of a websocket.
LEMMA SockFields ==
  ASSUME NEW k \in Sock
  PROVE  \A q \in Seq(Message) : [k EXCEPT !.queue = q] \in Sock
  BY DEF Sock

\* _append_message: the buffer gets the message, which has been seen then.
LEMMA AppendedFields ==
  ASSUME NEW s \in Session, NEW m \in Message
  PROVE  /\ Appended(s, m) \in Session
         /\ Appended(s, m).seen = s.seen \cup {m}
         /\ Len(Appended(s, m).buffer) <= BufferMax
         /\ Range(Appended(s, m).buffer) \subseteq Range(s.buffer) \cup {m}
         /\ Appended(s, m).subs = s.subs /\ Appended(s, m).thread = s.thread
         /\ Appended(s, m).out = s.out /\ Appended(s, m).todo = s.todo
<1>. DEFINE b == Newer(BufferMax, Append(s.buffer, m))
            e == s.seen \cup {m}
            new == [s EXCEPT !.seen = e, !.buffer = b]
<1>1. s.buffer \in Seq(Message) /\ s.seen \in SUBSET Message
  BY DEF Session
<1>2. Append(s.buffer, m) \in Seq(Message) /\ Range(Append(s.buffer, m)) = Range(s.buffer) \cup {m}
  BY <1>1, AppendedSeq
<1>3. b \in Seq(Message) /\ Len(b) <= BufferMax /\ Range(b) \subseteq Range(s.buffer) \cup {m}
  BY <1>2, Bounds, NewerSeq
<1>4. Appended(s, m) = new
  BY DEF Appended, Session
<1>5. e \in SUBSET Message
  BY <1>1
<1>. HIDE DEF b, e
<1>6. new \in Session
  BY <1>3, <1>5, SessionFields
<1>7. /\ new.seen = e /\ new.buffer = b /\ new.subs = s.subs /\ new.thread = s.thread
      /\ new.out = s.out /\ new.todo = s.todo
  BY DEF Session
<1>. HIDE DEF new
<1>. QED
  BY <1>3, <1>4, <1>6, <1>7 DEF e

-----------------------------------------------------------------------------
\* Neither the position of a session in a log nor what its thread has read and
\* not processed is its subscribers' concern.
Alike(s, t) ==
  /\ s.seen = t.seen /\ s.buffer = t.buffer /\ s.subs = t.subs /\ s.out = t.out
  /\ s.thread = "over" <=> t.thread = "over"

\* A step that changes nothing else.
LEMMA Untouched ==
  ASSUME Delivery, NEW i \in Sid, i <= used, NEW s \in Session, Alike(s, sess[i]),
         sess' = [sess EXCEPT ![i] = s], UNCHANGED <<cur, used, said, sock>>
  PROVE  Delivery' /\ Quiet
<1>1. /\ cur \in Sid \cup {None} /\ used \in Nat /\ sess \in [Sid -> Session] /\ Sid \subseteq Nat
      /\ \A w \in Socket : sock[w].sub \in Sid \cup {None}
  BY DeliveryTypes
<1>2. \A j \in Sid : Alike(sess'[j], sess[j]) /\ (j > used => sess'[j] = sess[j])
  BY <1>1 DEF Alike
<1>3. sess' \in [Sid -> Session]
  BY <1>1
<1>4. ObjectsTyped' /\ Unused' /\ BufferSeen' /\ SentTwiceByRaceOnly' /\ MapSessionLive'
  BY <1>1, <1>2, <1>3 DEF Delivery, ObjectsTyped, Unused, BufferSeen, SentTwiceByRaceOnly, MapSessionLive, Alike
<1>5. Flight'
  BY <1>1, <1>2 DEF Delivery, Flight, Heard, Alike
<1>6. Subscribed'
  BY <1>1, <1>2 DEF Delivery, Subscribed, Alike
<1>7. SentSettled'
  <2>1. \A j \in Sid : InFlight(j)' = InFlight(j)
    BY <1>2 DEF InFlight, Alike
  <2>. QED
    BY <1>1, <1>2, <2>1 DEF Delivery, SentSettled, Listens, Alike
<1>8. Quiet
  BY <1>2 DEF Quiet, Alike
<1>. QED
  BY <1>4, <1>5, <1>6, <1>7, <1>8 DEF Delivery

\* A message is appended: it is in flight, out of the thread or said.
LEMMA Fed ==
  ASSUME Delivery, NEW i \in Sid, i <= used, NEW m \in Message, m \notin sess[i].seen,
         NEW s \in Session, s.seen = sess[i].seen \cup {m}, Len(s.buffer) <= BufferMax,
         Range(s.buffer) \subseteq Range(sess[i].buffer) \cup {m},
         s.subs = sess[i].subs, s.thread = sess[i].thread,
         \/ said' = said /\ s.out = {m}
         \/ said' = said \cup {<<i, m>>} /\ s.out = sess[i].out,
         sess' = [sess EXCEPT ![i] = s], UNCHANGED <<cur, used, sock>>
  PROVE  Delivery' /\ Quiet
<1>1. /\ cur \in Sid \cup {None} /\ used \in Nat /\ sess \in [Sid -> Session] /\ Sid \subseteq Nat
      /\ \A w \in Socket : sock[w].sub \in Sid \cup {None}
      /\ said \subseteq Sid \X Message /\ \A j \in Sid : sess[j].out \subseteq Message
  BY DeliveryTypes
<1>2. ObjectsTyped /\ Unused /\ BufferSeen /\ Flight /\ Subscribed /\ SentSettled /\ SentTwiceByRaceOnly /\ MapSessionLive
  BY DEF Delivery
<1>3. \A j \in Sid : sess'[j] = IF j = i THEN s ELSE sess[j]
  BY <1>1
<1>4. sess' \in [Sid -> Session] /\ said' \subseteq Sid \X Message
  BY <1>1
<1>5. ObjectsTyped'
  BY <1>1, <1>2, <1>3, <1>4 DEF ObjectsTyped
<1>6. Unused'
  BY <1>1, <1>2, <1>3 DEF Unused
<1>7. BufferSeen' /\ MapSessionLive' /\ SentTwiceByRaceOnly'
  BY <1>1, <1>2, <1>3 DEF BufferSeen, MapSessionLive, SentTwiceByRaceOnly
<1>8. \A j \in Sid : Heard(j)' <=> Heard(j)
  BY <1>3 DEF Heard
<1>9. Flight'
  <2>1. SUFFICES ASSUME NEW j \in Sid, Heard(j), NEW k \in Message
                 PROVE  /\ k \in sess'[j].out => k \in sess'[j].seen
                        /\ <<j, k>> \in said' => k \in sess'[j].seen /\ k \notin sess'[j].out
    BY <1>8 DEF Flight
  <2>2. /\ k \in sess[j].out => k \in sess[j].seen
        /\ <<j, k>> \in said => k \in sess[j].seen /\ k \notin sess[j].out
    BY <1>2, <2>1 DEF Flight
  <2>3. CASE j # i
    BY <1>3, <2>2, <2>3
  <2>4. CASE j = i
    BY <1>3, <2>2, <2>4
  <2>. QED
    BY <2>3, <2>4
<1>10. Subscribed'
  BY <1>1, <1>2, <1>3 DEF Subscribed
<1>11. SentSettled'
  <2>1. SUFFICES ASSUME NEW w \in Socket, NEW j \in Sid, Listens(w, j),
                        NEW k \in Range(sock[w].queue) \cup sock[w].sent
                 PROVE  k \in sess'[j].seen /\ k \notin InFlight(j)'
    BY <1>1, <1>3 DEF SentSettled, Listens
  <2>2. k \in sess[j].seen /\ k \notin InFlight(j)
    BY <1>2, <2>1 DEF SentSettled
  <2>3. CASE j # i
    BY <1>3, <2>2, <2>3 DEF InFlight
  <2>4. CASE j = i
    BY <1>3, <2>2, <2>4 DEF InFlight
  <2>. QED
    BY <2>3, <2>4
<1>12. Quiet
  BY <1>3 DEF Quiet
<1>. QED
  BY <1>5, <1>6, <1>7, <1>9, <1>10, <1>11, <1>12 DEF Delivery

\* A message in flight is dispatched: the queues of the subscribers get it.
LEMMA Dispatched ==
  ASSUME Delivery, NEW i \in Sid, i <= used, NEW m \in InFlight(i), Dispatch(i, m),
         UNCHANGED <<cur, used>>, sess' \in [Sid -> Session], said' \subseteq said,
         \A j \in Sid : /\ sess'[j].seen = sess[j].seen /\ sess'[j].buffer = sess[j].buffer
                        /\ sess'[j].subs = sess[j].subs /\ sess'[j].thread = sess[j].thread
                        /\ sess'[j].todo = sess[j].todo /\ sess'[j].out \subseteq sess[j].out,
         sess[i].subs # {} => m \notin InFlight(i)'
  PROVE  Delivery' /\ Quiet
<1>1. /\ cur \in Sid \cup {None} /\ used \in Nat /\ sess \in [Sid -> Session] /\ Sid \subseteq Nat
      /\ None \notin Sid /\ sock \in [Socket -> Sock]
      /\ \A w \in Socket : sock[w].sub \in Sid \cup {None} /\ sock[w].at \in {"off", "history", "on"}
      /\ said \subseteq Sid \X Message /\ \A j \in Sid : sess[j].out \subseteq Message
  BY DeliveryTypes
<1>2. ObjectsTyped /\ Unused /\ BufferSeen /\ Flight /\ Subscribed /\ SentSettled /\ SentTwiceByRaceOnly /\ MapSessionLive
  BY DEF Delivery
<1>3. m \in Message /\ \A j \in Sid : InFlight(j)' \subseteq InFlight(j)
  BY <1>1 DEF InFlight
<1>. DEFINE fed(w) == Newer(QueueMax, Append(sock[w].queue, m))
            Gets(w) == w \in sess[i].subs /\ sock[w].sub = i
<1>4. \A w \in Socket : sock'[w] = IF Gets(w) THEN [sock[w] EXCEPT !.queue = fed(w)] ELSE sock[w]
  BY DEF Dispatch
<1>5. DOMAIN sock' = Socket /\ sock' = [w \in Socket |-> sock'[w]]
  BY DEF Dispatch
<1>6. ASSUME NEW w \in Socket, Gets(w)
      PROVE  /\ sock[w].at = "on" /\ fed(w) \in Seq(Message) /\ Len(fed(w)) <= QueueMax
             /\ Range(fed(w)) \subseteq Range(sock[w].queue) \cup {m}
             /\ NoTwice(fed(w)) /\ Range(fed(w)) \cap sock[w].sent = {}
  <2>1. sock[w] \in Sock /\ sock[w].queue \in Seq(Message)
    BY <1>1 DEF Sock
  <2>2. sock[w].at # "off"
    <3>1. Closed.sub = None
      BY DEF Closed
    <3>. QED
      BY <1>1, <1>2, <1>6, <3>1 DEF Subscribed
  <2>3. sock[w].at # "history"
    BY <1>1, <1>2, <1>6 DEF Subscribed
  <2>4. sock[w].at = "on"
    BY <1>1, <2>2, <2>3
  <2>5. NoTwice(sock[w].queue) /\ Range(sock[w].queue) \cap sock[w].sent = {}
    BY <1>2, <2>4 DEF SentTwiceByRaceOnly
  <2>6. m \notin Range(sock[w].queue) \cup sock[w].sent
    BY <1>2, <1>6 DEF SentSettled, Listens
  <2>7. /\ Append(sock[w].queue, m) \in Seq(Message) /\ NoTwice(Append(sock[w].queue, m))
        /\ Range(Append(sock[w].queue, m)) = Range(sock[w].queue) \cup {m}
    BY <1>3, <2>1, <2>5, <2>6, AppendedSeq
  <2>8. /\ fed(w) \in Seq(Message) /\ Len(fed(w)) <= QueueMax
        /\ Range(fed(w)) \subseteq Range(sock[w].queue) \cup {m} /\ NoTwice(fed(w))
    BY <2>7, Bounds, NewerSeq
  <2>. QED
    BY <2>4, <2>5, <2>6, <2>8
<1>. HIDE DEF fed, Gets
<1>7. ASSUME NEW w \in Socket
      PROVE  /\ sock'[w] \in Sock /\ Len(sock'[w].queue) <= QueueMax
             /\ sock'[w].at = sock[w].at /\ sock'[w].sub = sock[w].sub /\ sock'[w].sent = sock[w].sent
             /\ sock'[w].queue = IF Gets(w) THEN fed(w) ELSE sock[w].queue
             /\ sock[w].at # "on" => sock'[w] = sock[w]
  <2>1. sock[w] \in Sock /\ Len(sock[w].queue) <= QueueMax /\ sock[w].sent \in SUBSET Message
    BY <1>1, <1>2 DEF ObjectsTyped, Sock
  <2>2. CASE ~Gets(w)
    BY <1>4, <2>1, <2>2
  <2>3. CASE Gets(w)
    <3>1. sock'[w] = [sock[w] EXCEPT !.queue = fed(w)]
      BY <1>4, <2>3
    <3>2. sock'[w] \in Sock
      <4>1. fed(w) \in Seq(Message)
        BY <1>6, <2>3
      <4>. QED
        BY <2>1, <3>1, <4>1, SockFields
    <3>3. /\ sock'[w].at = sock[w].at /\ sock'[w].sub = sock[w].sub /\ sock'[w].sent = sock[w].sent
          /\ sock'[w].queue = fed(w)
      BY <2>1, <3>1 DEF Sock
    <3>. QED
      BY <1>6, <2>3, <3>2, <3>3
  <2>. QED
    BY <2>2, <2>3
<1>8. ObjectsTyped'
  <2>1. sock' \in [Socket -> Sock]
    BY <1>5, <1>7
  <2>. QED
    BY <1>1, <1>2, <1>7, <2>1 DEF ObjectsTyped
<1>9. Unused'
  BY <1>2 DEF Unused
<1>10. BufferSeen' /\ MapSessionLive'
  BY <1>1, <1>2 DEF BufferSeen, MapSessionLive
<1>11. Flight'
  BY <1>2 DEF Flight, Heard
<1>12. Subscribed'
  BY <1>1, <1>2, <1>7 DEF Subscribed
<1>13. SentSettled'
  <2>1. SUFFICES ASSUME NEW w \in Socket, NEW j \in Sid, Listens(w, j),
                        NEW k \in Range(sock'[w].queue) \cup sock[w].sent
                 PROVE  k \in sess[j].seen /\ k \notin InFlight(j)'
    BY <1>1, <1>7 DEF SentSettled, Listens
  <2>2. CASE k \in Range(sock[w].queue) \cup sock[w].sent
    BY <1>2, <1>3, <2>1, <2>2 DEF SentSettled
  <2>3. CASE k \notin Range(sock[w].queue) \cup sock[w].sent
    <3>1. Gets(w) /\ k = m
      BY <1>6, <1>7, <2>1, <2>3
    <3>2. j = i /\ Heard(i) /\ sess[i].subs # {}
      BY <2>1, <3>1 DEF Gets, Listens, Heard
    <3>3. m \in sess[i].seen
      BY <1>2, <1>3, <3>2, InFlightIs DEF Flight
    <3>. QED
      BY <3>1, <3>2, <3>3
  <2>. QED
    BY <2>2, <2>3
<1>14. SentTwiceByRaceOnly'
  <2>1. SUFFICES ASSUME NEW w \in Socket, sock'[w].at = "on"
                 PROVE  NoTwice(sock'[w].queue) /\ Range(sock'[w].queue) \cap sock'[w].sent = {}
    BY DEF SentTwiceByRaceOnly
  <2>2. NoTwice(sock[w].queue) /\ Range(sock[w].queue) \cap sock[w].sent = {}
    BY <1>2, <1>7, <2>1 DEF SentTwiceByRaceOnly
  <2>. QED
    BY <1>6, <1>7, <2>2
<1>15. Quiet
  BY DEF Quiet
<1>. QED
  BY <1>8, <1>9, <1>10, <1>11, <1>12, <1>13, <1>14, <1>15 DEF Delivery


-----------------------------------------------------------------------------
\* The steps of a session's thread.
LEMMA RescanKeeps ==
  ASSUME IInv, NEW i \in Sid, Rescan(i)
  PROVE  Delivery' /\ Quiet
<1>. DEFINE t == NewOnes(i, AllParsed)
            s == [sess[i] EXCEPT !.todo = t, !.thread = "runs"]
<1>1. Delivery /\ sess[i] \in Session
  BY DeliveryHolds, DeliveryTypes
<1>2. i <= used /\ sess[i].thread # "over" /\ sess' = [sess EXCEPT ![i] = s] /\ UNCHANGED <<cur, used, said, sock>>
  BY DEF Rescan, Turns, Others, creators
<1>3. t \in Seq(Message)
  BY ParsedType, NewOnesSeq DEF IInv
<1>. HIDE DEF t
<1>4. s \in Session
  BY <1>1, <1>3, SessionFields
<1>5. Alike(s, sess[i])
  BY <1>1, <1>2 DEF Session, Alike
<1>. HIDE DEF s
<1>. QED
  BY <1>1, <1>2, <1>4, <1>5, Untouched

\* A newer log: what the recent logs have is read once more.
LEMMA SwitchKeeps ==
  ASSUME IInv, NEW i \in Sid, Switch(i)
  PROVE  Delivery' /\ Quiet
<1>. DEFINE t == NewOnes(i, AllParsed)
            s == [sess[i] EXCEPT !.path = Newest, !.pos = 0, !.partial = "none", !.todo = t]
<1>1. Delivery /\ sess[i] \in Session
  BY DeliveryHolds, DeliveryTypes
<1>2. i <= used /\ sess' = [sess EXCEPT ![i] = s] /\ UNCHANGED <<cur, used, said, sock>>
  BY DEF Switch, Follows, Turns, Others, creators
<1>3. t \in Seq(Message)
  BY ParsedType, NewOnesSeq DEF IInv
<1>. HIDE DEF t
<1>4. s \in Session
  <2>1. Newest \in Run \cup {None} /\ 0 \in 0 .. MaxTime
    BY NewestLog, Bounds
  <2>. QED
    BY <1>1, <1>3, <2>1, SessionFields
<1>5. Alike(s, sess[i])
  BY <1>1 DEF Session, Alike
<1>. HIDE DEF s
<1>. QED
  BY <1>1, <1>2, <1>4, <1>5, Untouched

\* A log's length is a position.
LEMMA LogTyped ==
  ASSUME IInv, NEW r \in Run
  PROVE  log[r] \in Seq(Time) /\ Len(log[r]) \in 0 .. MaxTime
<1>1. log[r] \in Seq(Time) /\ Len(log[r]) \in Nat /\ clock \in 0 .. MaxTime
  BY LenProperties DEF IInv, TypeOK
<1>2. Len(log[r]) + (IF cut[r] = None THEN 0 ELSE 1) <= clock
  BY DEF IInv, Lines
<1>3. Len(log[r]) <= clock
  <2>1. Len(log[r]) \in Nat /\ clock \in Nat
    BY <1>1, Bounds
  <2>2. CASE cut[r] = None
    <3>1. Len(log[r]) + 0 <= clock
      BY <1>2, <2>2, Zenon
    <3>. QED
      BY <2>1, <3>1
  <2>3. CASE cut[r] # None
    <3>1. Len(log[r]) + 1 <= clock
      BY <1>2, <2>3, Zenon
    <3>. QED
      BY <2>1, <3>1
  <2>. QED
    BY <2>2, <2>3
<1>. HIDE DEF Time
<1>. QED
  BY <1>1, <1>3, Bounds

\* Lines at the end of the log, without the rest of one whose beginning was skipped.
LEMMA ReadKeeps ==
  ASSUME IInv, NEW i \in Sid, Read(i)
  PROVE  Delivery' /\ Quiet
<1>. DEFINE p == sess[i].path
            skip == IF sess[i].partial = "lost" THEN 1 ELSE 0
            n == Len(log[p]) - sess[i].pos - skip
            msgs == [k \in 1 .. n |-> <<log[p][sess[i].pos + skip + k], TRUE>>]
            t == NewOnes(i, msgs)
            l == IF cut[p] = None THEN "none" ELSE "held"
            s == [sess[i] EXCEPT !.todo = t, !.pos = Len(log[p]), !.partial = l]
<1>1. Delivery /\ sess[i] \in Session
  BY DeliveryHolds, DeliveryTypes
<1>2. i <= used /\ p # None /\ sess' = [sess EXCEPT ![i] = s] /\ UNCHANGED <<cur, used, said, sock>>
  BY DEF Read, Others, Follows, Turns, creators
<1>3. p \in Run /\ sess[i].pos \in Nat
  BY <1>1, <1>2, Bounds DEF Session
<1>4. log[p] \in Seq(Time) /\ Len(log[p]) \in 0 .. MaxTime
  BY <1>3, LogTyped
<1>5. msgs \in Seq(Message)
  <2>0. skip \in {0, 1}
    BY Zenon
  <2>. HIDE DEF skip, p
  <2>a. Len(log[p]) \in Nat /\ sess[i].pos \in Nat
    BY <1>3, <1>4, Bounds
  <2>1. Len(log[p]) \in Nat /\ skip \in Nat /\ n \in Int /\ sess[i].pos \in Nat
    <3>. HIDE DEF msgs
    <3>. QED
      BY <2>0, <2>a
  <2>2. \A k \in 1 .. n : sess[i].pos + skip + k \in 1 .. Len(log[p])
    BY <2>1
  <2>3. \A k \in 1 .. n : log[p][sess[i].pos + skip + k] \in Time
    BY <1>4, <2>2, ElementOfSeq
  <2>. HIDE DEF n
  <2>4. msgs \in [1 .. n -> Message]
    BY <2>3 DEF Message
  <2>5. \E m \in Nat : 1 .. n = 1 .. m
    <3>1. CASE n >= 0
      BY <2>1, <3>1
    <3>2. CASE n < 0
      <4>1. 1 .. n = 1 .. 0
        BY <2>1, <3>2
      <4>. QED
        BY <4>1
    <3>. QED
      BY <2>1, <3>1, <3>2
  <2>6. PICK m \in Nat : 1 .. n = 1 .. m
    BY <2>5
  <2>7. msgs \in [1 .. m -> Message]
    BY <2>4, <2>6
  <2>. HIDE DEF msgs
  <2>. QED
    BY <2>7, SeqDef
<1>. HIDE DEF msgs
<1>6. t \in Seq(Message)
  BY <1>5, NewOnesSeq
<1>. HIDE DEF t, p
<1>7. s \in Session
  <2>1. l \in {"none", "held", "lost"}
    OBVIOUS
  <2>. HIDE DEF l
  <2>. QED
    BY <1>1, <1>4, <1>6, <2>1, SessionFields
<1>8. Alike(s, sess[i])
  BY <1>1 DEF Session, Alike
<1>. HIDE DEF s
<1>. QED
  BY <1>1, <1>2, <1>7, <1>8, Untouched

\* The first log.
LEMMA AttachKeeps ==
  ASSUME IInv, NEW i \in Sid, Attach(i)
  PROVE  Delivery' /\ Quiet
<1>. DEFINE n == Len(log[Newest])
            l == IF cut[Newest] = None THEN "none" ELSE "lost"
            s == [sess[i] EXCEPT !.path = Newest, !.pos = n, !.partial = l]
<1>1. Delivery /\ sess[i] \in Session
  BY DeliveryHolds, DeliveryTypes
<1>2. i <= used /\ UNCHANGED <<cur, used, said, sock>> /\ sess' = [sess EXCEPT ![i] = s]
  BY <1>1 DEF Attach, Others, Follows, Turns, creators, Session
<1>3. Newest \in Run /\ n \in 0 .. MaxTime
  BY NewestLog, LogTyped DEF Attach
<1>4. s \in Session
  <2>1. l \in {"none", "held", "lost"}
    OBVIOUS
  <2>. HIDE DEF l, n
  <2>. QED
    BY <1>1, <1>3, <2>1, SessionFields
<1>5. Alike(s, sess[i])
  BY <1>1 DEF Session, Alike
<1>. HIDE DEF s
<1>. QED
  BY <1>1, <1>2, <1>4, <1>5, Untouched

\* The next message is appended, if it is new.
LEMMA AppendKeeps ==
  ASSUME IInv, NEW i \in Sid, AppendNext(i)
  PROVE  Delivery' /\ Quiet
<1>. DEFINE m == Head(sess[i].todo)
            t == Tail(sess[i].todo)
            s == [sess[i] EXCEPT !.todo = t]
            a == Appended(s, m)
            o == [a EXCEPT !.out = {m}]
<1>1. /\ Delivery /\ sess[i] \in Session /\ sess[i].todo \in Seq(Message) /\ used \in Nat /\ i \in Nat
      /\ Unused
  BY DeliveryHolds, DeliveryTypes DEF Session, Delivery
<1>2. sess[i].todo # << >> /\ UNCHANGED <<cur, used, said, sock>>
  BY DEF AppendNext, Others, creators
<1>3. i <= used
  BY <1>1, <1>2 DEF Unused
<1>4. m \in Message /\ t \in Seq(Message)
  BY <1>1, <1>2, HeadTailProperties
<1>5. sess' = [sess EXCEPT ![i] = IF IsNew(i, m) THEN o ELSE s]
  BY <1>1 DEF AppendNext, Session
<1>. HIDE DEF t, m
<1>6. s \in Session
  BY <1>1, <1>4, SessionFields
<1>7. /\ s.seen = sess[i].seen /\ s.buffer = sess[i].buffer /\ s.subs = sess[i].subs
      /\ s.out = sess[i].out /\ s.thread = sess[i].thread
  BY <1>1 DEF Session
<1>. HIDE DEF s
<1>8. CASE ~IsNew(i, m)
  <2>1. sess' = [sess EXCEPT ![i] = s] /\ Alike(s, sess[i])
    BY <1>5, <1>7, <1>8 DEF Alike
  <2>. QED
    BY <1>1, <1>2, <1>3, <1>6, <2>1, Untouched
<1>9. CASE IsNew(i, m)
  <2>1. /\ a \in Session /\ a.seen = s.seen \cup {m} /\ Len(a.buffer) <= BufferMax
        /\ Range(a.buffer) \subseteq Range(s.buffer) \cup {m} /\ a.subs = s.subs /\ a.thread = s.thread
    BY <1>4, <1>6, AppendedFields
  <2>. HIDE DEF a
  <2>2. {m} \in SUBSET Message /\ m \notin sess[i].seen
    BY <1>4, <1>9 DEF IsNew
  <2>3. o \in Session
    BY <2>1, <2>2, SessionFields
  <2>4. /\ o.seen = a.seen /\ o.buffer = a.buffer /\ o.subs = a.subs /\ o.thread = a.thread /\ o.out = {m}
    BY <2>1 DEF Session
  <2>. HIDE DEF o
  <2>5. sess' = [sess EXCEPT ![i] = o]
    BY <1>5, <1>9
  <2>. QED
    BY <1>1, <1>2, <1>3, <1>4, <1>7, <2>1, <2>2, <2>3, <2>4, <2>5, Fed
<1>. QED
  BY <1>8, <1>9

\* An injected message goes to the session in the map.
LEMMA InjectKeeps ==
  ASSUME IInv, Inject
  PROVE  Delivery' /\ Quiet
<1>. DEFINE m == <<clock + 1, TRUE>>
            a == Appended(sess[cur], m)
<1>1. Delivery /\ cur \in Sid /\ cur <= used /\ sess[cur] \in Session
  BY DeliveryHolds, DeliveryTypes DEF Inject
<1>2. /\ sess' = [sess EXCEPT ![cur] = a] /\ said' = said \cup {<<cur, m>>} /\ UNCHANGED <<cur, used, sock>>
      /\ m \notin sess[cur].seen
  BY DEF Inject, IsNew
<1>3. m \in Message
  <2>1. clock \in 0 .. MaxTime /\ clock < MaxTime
    BY DEF IInv, TypeOK, Inject
  <2>2. clock + 1 \in Time
    BY <2>1, Bounds DEF Time
  <2>. QED
    BY <2>2 DEF Message
<1>. HIDE DEF m
<1>4. /\ a \in Session /\ a.seen = sess[cur].seen \cup {m} /\ Len(a.buffer) <= BufferMax
      /\ Range(a.buffer) \subseteq Range(sess[cur].buffer) \cup {m}
      /\ a.subs = sess[cur].subs /\ a.thread = sess[cur].thread /\ a.out = sess[cur].out
  BY <1>1, <1>3, AppendedFields
<1>. HIDE DEF a
<1>. QED
  BY <1>1, <1>2, <1>3, <1>4, Fed

\* The thread's message, and an injected one, reach the queues.
LEMMA DispatchKeeps ==
  ASSUME IInv, NEW i \in Sid, DispatchNext(i)
  PROVE  Delivery' /\ Quiet
<1>1. /\ Delivery /\ Unused /\ Flight /\ sess \in [Sid -> Session] /\ used \in Nat /\ i \in Nat
      /\ sess[i] \in Session /\ sess[i].out \subseteq Message
  BY DeliveryHolds, DeliveryTypes DEF Delivery
<1>2. PICK m \in sess[i].out : Dispatch(i, m)
  BY DEF DispatchNext
<1>3. sess' = [sess EXCEPT ![i].out = {}] /\ UNCHANGED <<cur, used, said>>
  BY DEF DispatchNext, Others, creators
<1>. DEFINE s == [sess[i] EXCEPT !.out = {}]
<1>4. s \in Session /\ sess' = [sess EXCEPT ![i] = s]
  BY <1>1, <1>3, SessionFields
<1>5. /\ s.seen = sess[i].seen /\ s.buffer = sess[i].buffer /\ s.subs = sess[i].subs
      /\ s.thread = sess[i].thread /\ s.todo = sess[i].todo /\ s.out = {}
  BY <1>1 DEF Session
<1>. HIDE DEF s
<1>6. i <= used
  BY <1>1, <1>2 DEF Unused
<1>7. m \in InFlight(i)
  BY <1>2 DEF InFlight
<1>8. sess[i].subs # {} => m \notin InFlight(i)'
  <2>1. sess[i].subs # {} => <<i, m>> \notin said
    BY <1>1, <1>2 DEF Flight, Heard
  <2>. QED
    BY <1>1, <1>3, <1>4, <1>5, <2>1 DEF InFlight
<1>9. /\ sess' \in [Sid -> Session] /\ said' \subseteq said
      /\ \A j \in Sid : /\ sess'[j].seen = sess[j].seen /\ sess'[j].buffer = sess[j].buffer
                        /\ sess'[j].subs = sess[j].subs /\ sess'[j].thread = sess[j].thread
                        /\ sess'[j].todo = sess[j].todo /\ sess'[j].out \subseteq sess[j].out
  BY <1>1, <1>3, <1>4, <1>5
<1>. QED
  BY <1>1, <1>2, <1>3, <1>6, <1>7, <1>8, <1>9, Dispatched

\* The message of an inject_message reaches the queues.
LEMMA DispatchSaidKeeps ==
  ASSUME IInv, NEW i, NEW m, DispatchSaid(i, m)
  PROVE  Delivery' /\ Quiet
<1>1. /\ Delivery /\ Unused /\ Flight /\ sess \in [Sid -> Session] /\ used \in Nat /\ Sid \subseteq Nat
      /\ said \subseteq Sid \X Message
  BY DeliveryHolds, DeliveryTypes DEF Delivery
<1>2. Dispatch(i, m) /\ <<i, m>> \in said /\ said' = said \ {<<i, m>>} /\ UNCHANGED <<cur, used, sess>>
  BY DEF DispatchSaid
<1>3. i \in Sid /\ m \in Message
  BY <1>1, <1>2
<1>4. i <= used
  BY <1>1, <1>2, <1>3 DEF Unused
<1>5. m \in InFlight(i)
  BY <1>2, <1>3 DEF InFlight
<1>6. sess[i].subs # {} => m \notin InFlight(i)'
  <2>1. sess[i].subs # {} => m \notin sess[i].out
    BY <1>1, <1>2, <1>3 DEF Flight, Heard
  <2>. QED
    BY <1>2, <2>1 DEF InFlight
<1>. QED
  BY <1>1, <1>2, <1>3, <1>4, <1>5, <1>6, Dispatched


-----------------------------------------------------------------------------
\* A session that is made.
LEMMA NewSessionFields ==
  ASSUME NEW h \in Seq(Message)
  PROVE  /\ NewSession(h) \in Session /\ NewSession(h).seen = Range(h) /\ NewSession(h).buffer = h
         /\ NewSession(h).subs = {} /\ NewSession(h).thread = "begun"
         /\ NewSession(h).out = {} /\ NewSession(h).todo = << >>
<1>1. Range(h) \in SUBSET Message /\ << >> \in Seq(Message)
  BY RangeOfSeq, EmptySeq
<1>. QED
  BY <1>1, Bounds DEF NewSession, Session

\* A session that ended has nobody to send to.
LEMMA EndedFields ==
  /\ Ended \in Session /\ Ended.seen = {} /\ Ended.buffer = << >> /\ Ended.subs = {}
  /\ Ended.thread = "over" /\ Ended.out = {} /\ Ended.todo = << >>
<1>1. << >> \in Seq(Message) /\ Range(<< >>) = {}
  BY EmptySeq DEF Range
<1>. DEFINE s == NewSession(<< >>)
<1>2. s \in Session /\ s.seen = {} /\ s.buffer = << >> /\ s.subs = {} /\ s.out = {} /\ s.todo = << >>
  BY <1>1, NewSessionFields
<1>. HIDE DEF s
<1>3. s \in Session => LET t == [s EXCEPT !.thread = "over"]
                       IN /\ t \in Session /\ t.seen = s.seen /\ t.buffer = s.buffer /\ t.subs = s.subs
                          /\ t.thread = "over" /\ t.out = s.out /\ t.todo = s.todo
  BY DEF Session
<1>. QED
  BY <1>2, <1>3 DEF s, Ended

\* What is left of a session that is over, or replaced.
Faded(s, t) ==
  \/ s = t
  \/ s = Ended
  \/ /\ s.seen = t.seen /\ s.subs = t.subs /\ s.out = t.out /\ s.todo = t.todo
     /\ s.buffer = << >>

\* Nothing that concerns its subscribers is different.
LEMMA FadedFields ==
  ASSUME NEW s, NEW t \in Session, Faded(s, t), Range(t.buffer) \subseteq t.seen,
         Len(t.buffer) <= BufferMax
  PROVE  /\ s.subs \subseteq t.subs /\ Range(s.buffer) \subseteq s.seen /\ Len(s.buffer) <= BufferMax
         /\ Range(s.buffer) \subseteq Range(t.buffer)
         /\ s.subs # {} => s.seen = t.seen /\ s.out = t.out
         /\ t.seen = {} /\ t.subs = {} /\ t.out = {} /\ t.todo = << >>
              => s.seen = {} /\ s.subs = {} /\ s.out = {} /\ s.todo = << >>
<1>1. Range(<< >>) = {} /\ Len(<< >>) = 0
  BY DEF Range
<1>. QED
  BY <1>1, EndedFields, Bounds DEF Faded

\* A session that is told to stop is out of the map, or stays out of it.
LEMMA Fading ==
  ASSUME Delivery, sess' \in [Sid -> Session], cur' \in {cur, None}, said' \subseteq said,
         UNCHANGED <<used, sock>>,
         \A i \in Sid : Faded(sess'[i], sess[i]),
         cur' # None => sess'[cur] = sess[cur]
  PROVE  Delivery' /\ Quiet
<1>1. ObjectsTyped /\ Unused /\ BufferSeen /\ Flight /\ Subscribed /\ SentSettled /\ SentTwiceByRaceOnly /\ MapSessionLive
  BY DEF Delivery
<1>2. /\ cur \in Sid \cup {None} /\ used \in Nat /\ cur <= used /\ None = 0 /\ sess \in [Sid -> Session]
      /\ Sid \subseteq Nat /\ None \notin Sid /\ \A w \in Socket : sock[w].sub \in Sid \cup {None}
  BY DeliveryTypes
<1>3. \A i \in Sid :
         /\ sess'[i].subs \subseteq sess[i].subs /\ Range(sess'[i].buffer) \subseteq sess'[i].seen
         /\ Len(sess'[i].buffer) <= BufferMax /\ Range(sess'[i].buffer) \subseteq Range(sess[i].buffer)
         /\ sess'[i].subs # {} => sess'[i].seen = sess[i].seen /\ sess'[i].out = sess[i].out
         /\ sess[i].seen = {} /\ sess[i].subs = {} /\ sess[i].out = {} /\ sess[i].todo = << >>
              => sess'[i].seen = {} /\ sess'[i].subs = {} /\ sess'[i].out = {} /\ sess'[i].todo = << >>
  BY <1>1, <1>2, FadedFields DEF BufferSeen, ObjectsTyped
<1>4. ObjectsTyped'
  BY <1>1, <1>2, <1>3 DEF ObjectsTyped
<1>5. Unused'
  <2>1. cur' <= used'
    BY <1>2
  <2>. QED
    BY <1>1, <1>3, <2>1 DEF Unused
<1>6. BufferSeen' /\ SentTwiceByRaceOnly' /\ MapSessionLive'
  BY <1>1, <1>3 DEF BufferSeen, SentTwiceByRaceOnly, MapSessionLive
<1>7. \A i \in Sid : Heard(i)' => Heard(i) /\ sess'[i].seen = sess[i].seen /\ sess'[i].out = sess[i].out
  <2>1. SUFFICES ASSUME NEW i \in Sid, Heard(i)'
                 PROVE  Heard(i) /\ sess'[i].seen = sess[i].seen /\ sess'[i].out = sess[i].out
    OBVIOUS
  <2>2. CASE sess'[i].subs # {}
    BY <1>3, <2>2 DEF Heard
  <2>3. CASE sess'[i].subs = {}
    BY <1>2, <2>1, <2>3 DEF Heard
  <2>. QED
    BY <2>2, <2>3
<1>8. Flight'
  <2>1. SUFFICES ASSUME NEW i \in Sid, Heard(i)', NEW m \in Message
                 PROVE  /\ m \in sess'[i].out => m \in sess'[i].seen
                        /\ <<i, m>> \in said' => m \in sess'[i].seen /\ m \notin sess'[i].out
    BY DEF Flight
  <2>. QED
    BY <1>1, <1>7, <2>1 DEF Flight
<1>9. Subscribed'
  BY <1>1, <1>2, <1>3 DEF Subscribed
<1>10. SentSettled'
  <2>1. SUFFICES ASSUME NEW w \in Socket, NEW i \in Sid, Listens(w, i)',
                        NEW m \in Range(sock[w].queue) \cup sock[w].sent
                 PROVE  m \in sess'[i].seen /\ m \notin InFlight(i)'
    BY DEF SentSettled
  <2>2. Listens(w, i) /\ Heard(i)'
    BY <1>2, <1>3, <2>1 DEF Listens, Heard
  <2>3. m \in sess[i].seen /\ m \notin InFlight(i)
    BY <1>1, <2>1, <2>2 DEF SentSettled
  <2>. QED
    BY <1>7, <2>2, <2>3 DEF InFlight
<1>11. Quiet
  BY <1>3 DEF Quiet
<1>. QED
  BY <1>4, <1>5, <1>6, <1>8, <1>9, <1>10, <1>11 DEF Delivery

\* end_session takes the session out of the map ...
LEMMA PopKeeps ==
  ASSUME IInv, NEW c \in Creator, Pop(c)
  PROVE  Delivery' /\ Quiet
<1>1. Delivery /\ cur \in Sid \cup {None} /\ None \notin Sid /\ sess \in [Sid -> Session]
  BY DeliveryHolds, DeliveryTypes
<1>2. UNCHANGED <<used, said, sock>> /\ cur' = None
  BY DEF Pop
<1>3. \A i \in Sid : sess'[i] = IF i = cur THEN Stopped(sess[i]) ELSE sess[i]
  BY <1>1 DEF Pop
<1>4. \A s \in Session : Stopped(s) \in Session /\ Faded(Stopped(s), s)
  <2>1. SUFFICES ASSUME NEW s \in Session PROVE Stopped(s) \in Session /\ Faded(Stopped(s), s)
    OBVIOUS
  <2>2. CASE s.subs = {}
    BY <2>2, EndedFields DEF Stopped, Faded
  <2>3. CASE s.subs # {}
    <3>. DEFINE e == Ended
                t == [e EXCEPT !.todo = s.todo, !.out = s.out, !.seen = s.seen, !.subs = s.subs]
    <3>1. e \in Session /\ e.buffer = << >>
      BY EndedFields
    <3>2. Stopped(s) = t
      BY <2>3 DEF Stopped
    <3>. HIDE DEF e
    <3>3. /\ t \in Session /\ t.seen = s.seen /\ t.subs = s.subs /\ t.out = s.out /\ t.todo = s.todo
          /\ t.buffer = e.buffer
      BY <3>1 DEF Session
    <3>. QED
      BY <3>1, <3>2, <3>3 DEF Faded
  <2>. QED
    BY <2>2, <2>3
<1>5. sess' \in [Sid -> Session]
  BY <1>1, <1>4 DEF Pop
<1>6. \A i \in Sid : Faded(sess'[i], sess[i])
  BY <1>1, <1>3, <1>4 DEF Faded
<1>. QED
  BY <1>1, <1>2, <1>5, <1>6, Fading

\* ... and forgets its subscribers.
LEMMA ForgetKeeps ==
  ASSUME IInv, NEW c \in Creator, Forget(c)
  PROVE  Delivery' /\ Quiet
<1>1. Delivery /\ sess \in [Sid -> Session]
  BY DeliveryHolds, DeliveryTypes
<1>2. /\ UNCHANGED <<cur, used, sock>> /\ said' \subseteq said
      /\ sess' = [sess EXCEPT ![ending[c]] = Ended] /\ ending[c] # cur
  BY DEF Forget, IInv, Ending
<1>3. sess' \in [Sid -> Session] /\ \A i \in Sid : Faded(sess'[i], sess[i])
  BY <1>1, <1>2, EndedFields DEF Faded
<1>4. cur' # None => sess'[cur] = sess[cur]
  <2>1. cur' # None => cur \in Sid
    BY <1>1, <1>2, DeliveryTypes
  <2>. QED
    BY <1>1, <1>2, <2>1
<1>. QED
  BY <1>1, <1>2, <1>3, <1>4, Fading

\* begin_session: nobody is subscribed yet to what is put into the map.
LEMMA PutKeeps ==
  ASSUME IInv, NEW c \in Creator, Put(c)
  PROVE  Delivery' /\ Quiet
<1>. DEFINE h == loaded[c]
            b == Newer(BufferMax, h)
            s == [NewSession(h) EXCEPT !.buffer = b]
            n == used + 1
<1>1. Delivery /\ h \in Seq(Message)
  BY DeliveryHolds DEF IInv, TypeOK
<1>2. ObjectsTyped /\ Unused /\ BufferSeen /\ Flight /\ Subscribed /\ SentSettled /\ SentTwiceByRaceOnly /\ MapSessionLive
  BY <1>1 DEF Delivery
<1>3. /\ cur \in Sid \cup {None} /\ used \in Nat /\ cur <= used /\ None = 0 /\ sess \in [Sid -> Session]
      /\ Sid \subseteq Nat /\ None \notin Sid /\ \A w \in Socket : sock[w].sub \in Sid \cup {None}
      /\ said \subseteq Sid \X Message
  BY <1>1, DeliveryTypes
<1>4. n \in Sid /\ n \in 0 .. MaxSessions /\ n > used /\ n # None /\ n # cur /\ n \in Nat
  BY <1>3, Bounds DEF Put, Sid
<1>5. UNCHANGED sock /\ used' = n /\ cur' = n /\ said' \subseteq said /\ sess' = [Replaced EXCEPT ![n] = s]
  BY DEF Put
<1>6. b \in Seq(Message) /\ Len(b) <= BufferMax /\ Range(b) \subseteq Range(h)
  BY <1>1, Bounds, NewerSeq
<1>. HIDE DEF b, h
<1>7. /\ s \in Session /\ s.seen = Range(h) /\ s.buffer = b /\ s.subs = {} /\ s.thread = "begun"
      /\ s.out = {} /\ s.todo = << >>
  <2>. DEFINE t == NewSession(h)
  <2>1. /\ t \in Session /\ t.seen = Range(h) /\ t.subs = {} /\ t.thread = "begun" /\ t.out = {}
        /\ t.todo = << >>
    BY <1>1, NewSessionFields
  <2>. HIDE DEF t
  <2>2. LET u == [t EXCEPT !.buffer = b]
        IN /\ u \in Session /\ u.seen = t.seen /\ u.buffer = b /\ u.subs = t.subs
           /\ u.thread = t.thread /\ u.out = t.out /\ u.todo = t.todo
    BY <1>6, <2>1 DEF Session
  <2>. QED
    BY <2>1, <2>2 DEF t
<1>. HIDE DEF s, n
<1>8. /\ Replaced \in [Sid -> Session]
      /\ \A j \in Sid : Faded(Replaced[j], sess[j])
  BY <1>3, EndedFields DEF Replaced, Faded
<1>9. \A j \in Sid : sess'[j] = IF j = n THEN s ELSE Replaced[j]
  BY <1>5, <1>8
<1>10. \A j \in Sid :
         /\ Replaced[j].subs \subseteq sess[j].subs /\ Range(Replaced[j].buffer) \subseteq Replaced[j].seen
         /\ Len(Replaced[j].buffer) <= BufferMax /\ Range(Replaced[j].buffer) \subseteq Range(sess[j].buffer)
         /\ Replaced[j].subs # {} => Replaced[j].seen = sess[j].seen /\ Replaced[j].out = sess[j].out
         /\ sess[j].seen = {} /\ sess[j].subs = {} /\ sess[j].out = {} /\ sess[j].todo = << >>
              => Replaced[j].seen = {} /\ Replaced[j].subs = {} /\ Replaced[j].out = {} /\ Replaced[j].todo = << >>
  BY <1>2, <1>3, <1>8, FadedFields DEF BufferSeen, ObjectsTyped
<1>11. ObjectsTyped'
  <2>1. sess' \in [Sid -> Session]
    BY <1>5, <1>7, <1>8
  <2>. QED
    BY <1>2, <1>3, <1>4, <1>5, <1>6, <1>7, <1>9, <1>10, <2>1 DEF ObjectsTyped
<1>12. Unused'
  <2>1. \A j \in Sid : j > n => j > used /\ j # n
    BY <1>3, <1>4
  <2>2. n <= n
    BY <1>4
  <2>. QED
    BY <1>2, <1>5, <1>9, <1>10, <2>1, <2>2 DEF Unused
<1>13. BufferSeen'
  BY <1>6, <1>7, <1>9, <1>10 DEF BufferSeen
<1>14. \A j \in Sid : Heard(j)' => j = n \/ (Heard(j) /\ sess'[j].seen = sess[j].seen /\ sess'[j].out = sess[j].out)
  BY <1>5, <1>9, <1>10 DEF Heard
<1>15. Flight'
  <2>1. SUFFICES ASSUME NEW j \in Sid, Heard(j)', NEW m \in Message
                 PROVE  /\ m \in sess'[j].out => m \in sess'[j].seen
                        /\ <<j, m>> \in said' => m \in sess'[j].seen /\ m \notin sess'[j].out
    BY DEF Flight
  <2>2. CASE j = n
    <3>1. <<j, m>> \notin said
      BY <1>2, <1>4, <2>2 DEF Unused
    <3>. QED
      BY <1>5, <1>7, <1>9, <2>2, <3>1
  <2>3. CASE j # n
    BY <1>2, <1>5, <1>14, <2>1, <2>3 DEF Flight
  <2>. QED
    BY <2>2, <2>3
<1>16. \A w \in Socket : sock[w].sub <= used /\ sock[w].sub # n /\ sock[w].sub <= n
  <2>1. \A w \in Socket : sock[w].sub <= used
    BY <1>2 DEF Subscribed
  <2>2. \A w \in Socket : sock[w].sub \in Nat
    <3>1. Sid \subseteq Nat /\ None \in Nat /\ \A w \in Socket : sock[w].sub \in Sid \cup {None}
      BY <1>3
    <3>. QED
      BY <3>1, Zenon
  <2>3. n \in Nat /\ n > used /\ used \in Nat
    BY <1>3, <1>4
  <2>. QED
    BY <2>1, <2>2, <2>3
<1>17. Subscribed'
  <2>1. sess'[n].subs = {} /\ \A j \in Sid : j # n => sess'[j].subs \subseteq sess[j].subs
    BY <1>4, <1>7, <1>9, <1>10
  <2>2. SUFFICES ASSUME NEW w \in Socket
                 PROVE  /\ sock[w].sub <= n
                        /\ sock[w].at = "off" => sock[w] = Closed
                        /\ sock[w].at = "history" => sock[w].queue = << >>
                        /\ sock[w].at = "history" /\ sock[w].sub # None => w \notin sess'[sock[w].sub].subs
    BY <1>5, <2>1 DEF Subscribed
  <2>3. sock[w].sub # None /\ w \in sess'[sock[w].sub].subs => w \in sess[sock[w].sub].subs
    BY <1>3, <1>16, <2>1
  <2>. QED
    BY <1>2, <1>16, <2>3 DEF Subscribed
<1>18. SentSettled'
  <2>1. SUFFICES ASSUME NEW w \in Socket, NEW j \in Sid, Listens(w, j)',
                        NEW m \in Range(sock[w].queue) \cup sock[w].sent
                 PROVE  m \in sess'[j].seen /\ m \notin InFlight(j)'
    BY <1>5 DEF SentSettled
  <2>2. j # n /\ w \in Replaced[j].subs
    BY <1>5, <1>7, <1>9, <1>16, <2>1 DEF Listens
  <2>3. Listens(w, j) /\ sess'[j].seen = sess[j].seen /\ sess'[j].out = sess[j].out
    BY <1>5, <1>9, <1>10, <2>1, <2>2 DEF Listens
  <2>4. m \in sess[j].seen /\ m \notin InFlight(j)
    BY <1>2, <2>1, <2>3 DEF SentSettled
  <2>. QED
    BY <1>5, <2>3, <2>4 DEF InFlight
<1>19. SentTwiceByRaceOnly' /\ MapSessionLive'
  BY <1>2, <1>4, <1>5, <1>7, <1>9 DEF SentTwiceByRaceOnly, MapSessionLive
<1>20. Quiet
  <2>1. sess[n].seen = {}
    BY <1>2, <1>4 DEF Unused
  <2>. QED
    BY <1>9, <1>10, <2>1 DEF Quiet
<1>. QED
  BY <1>11, <1>12, <1>13, <1>15, <1>17, <1>18, <1>19, <1>20 DEF Delivery


-----------------------------------------------------------------------------
\* The steps of a websocket.  The history is what was seen and dispatched.
LEMMA ConnectKeeps ==
  ASSUME IInv, NEW w \in Socket, Connect(w)
  PROVE  Delivery' /\ Quiet
<1>. DEFINE e == IF cur = None THEN {} ELSE Range(Buffer) \ InFlight(cur)
            k == [Closed EXCEPT !.at = "history", !.sub = cur, !.sent = e]
<1>1. Delivery
  BY DeliveryHolds
<1>2. ObjectsTyped /\ Unused /\ BufferSeen /\ Flight /\ Subscribed /\ SentSettled /\ SentTwiceByRaceOnly /\ MapSessionLive
  BY <1>1 DEF Delivery
<1>3. /\ cur \in Sid \cup {None} /\ used \in Nat /\ cur <= used /\ sess \in [Sid -> Session]
      /\ None \notin Sid /\ sock \in [Socket -> Sock]
      /\ \A v \in Socket : sock[v].sub \in Sid \cup {None}
  BY <1>1, DeliveryTypes
<1>4. sock[w].at = "off" /\ sock' = [sock EXCEPT ![w] = k] /\ UNCHANGED <<cur, sess, used, said>>
  BY DEF Connect
<1>5. e \in SUBSET Message /\ (cur # None => e \subseteq sess[cur].seen /\ e \cap InFlight(cur) = {})
  <2>1. CASE cur = None
    BY <2>1
  <2>2. CASE cur # None
    <3>1. sess[cur].buffer \in Seq(Message)
      BY <1>3, <2>2 DEF Session
    <3>2. Range(sess[cur].buffer) \in SUBSET Message
      BY <3>1, RangeOfSeq
    <3>. QED
      BY <1>2, <1>3, <2>2, <3>2 DEF Buffer, BufferSeen
  <2>. QED
    BY <2>1, <2>2
<1>. HIDE DEF e
<1>6. k \in Sock /\ k.at = "history" /\ k.sub = cur /\ k.queue = << >> /\ k.sent = e
  BY <1>3, <1>5, EmptySeq DEF Closed, Sock
<1>. HIDE DEF k
<1>7. \A v \in Socket : sock'[v] = IF v = w THEN k ELSE sock[v]
  BY <1>3, <1>4
<1>8. ObjectsTyped'
  <2>1. Len(<< >>) = 0 /\ sock' \in [Socket -> Sock]
    BY <1>3, <1>4, <1>6
  <2>. QED
    BY <1>2, <1>4, <1>6, <1>7, <2>1, Bounds DEF ObjectsTyped
<1>9. Unused' /\ BufferSeen' /\ MapSessionLive' /\ Flight'
  BY <1>2, <1>4 DEF Unused, BufferSeen, MapSessionLive, Flight, Heard
<1>10. Subscribed'
  <2>1. cur # None => w \notin sess[cur].subs
    BY <1>2, <1>4 DEF Subscribed
  <2>. QED
    BY <1>2, <1>3, <1>4, <1>6, <1>7, <2>1 DEF Subscribed
<1>11. SentSettled'
  <2>1. SUFFICES ASSUME NEW v \in Socket, NEW i \in Sid, Listens(v, i)',
                        NEW m \in Range(sock'[v].queue) \cup sock'[v].sent
                 PROVE  m \in sess[i].seen /\ m \notin InFlight(i)
    BY <1>4 DEF SentSettled, InFlight
  <2>2. CASE v = w
    <3>1. i = cur /\ cur # None /\ m \in e
      <4>1. Range(<< >>) = {}
        BY DEF Range
      <4>. QED
        BY <1>3, <1>6, <1>7, <2>1, <2>2, <4>1 DEF Listens
    <3>. QED
      BY <1>5, <3>1
  <2>3. CASE v # w
    <3>1. Listens(v, i) /\ sock'[v] = sock[v]
      BY <1>4, <1>7, <2>1, <2>3 DEF Listens
    <3>. QED
      BY <1>2, <2>1, <3>1 DEF SentSettled
  <2>. QED
    BY <2>2, <2>3
<1>12. SentTwiceByRaceOnly'
  BY <1>2, <1>6, <1>7 DEF SentTwiceByRaceOnly
<1>13. Quiet
  BY <1>4 DEF Quiet
<1>. QED
  BY <1>8, <1>9, <1>10, <1>11, <1>12, <1>13 DEF Delivery

\* A websocket that is closed, of a session that forgets it or of none.
LEMMA CloseKeeps ==
  ASSUME IInv, NEW w \in Socket, sock' = [sock EXCEPT ![w] = Closed],
         sess' = IF cur = None THEN sess ELSE [sess EXCEPT ![cur].subs = @ \ {w}],
         UNCHANGED <<cur, used, said>>
  PROVE  Delivery' /\ Quiet
<1>1. Delivery
  BY DeliveryHolds
<1>2. ObjectsTyped /\ Unused /\ BufferSeen /\ Flight /\ Subscribed /\ SentSettled /\ SentTwiceByRaceOnly /\ MapSessionLive
  BY <1>1 DEF Delivery
<1>3. /\ cur \in Sid \cup {None} /\ used \in Nat /\ cur <= used /\ sess \in [Sid -> Session]
      /\ None \notin Sid /\ sock \in [Socket -> Sock] /\ None = 0
      /\ \A v \in Socket : sock[v].sub \in Sid \cup {None}
  BY <1>1, DeliveryTypes
<1>4. /\ Closed \in Sock /\ Closed.at = "off" /\ Closed.sub = None /\ Closed.queue = << >> /\ Closed.sent = {}
      /\ Len(Closed.queue) = 0 /\ Range(Closed.queue) = {}
  BY EmptySeq DEF Closed, Sock, Range
<1>5. \A v \in Socket : sock'[v] = IF v = w THEN Closed ELSE sock[v]
  BY <1>3
<1>6. sess' \in [Sid -> Session]
  <2>1. CASE cur = None
    BY <1>3, <2>1
  <2>2. CASE cur # None
    <3>. DEFINE u == sess[cur].subs \ {w}
                s == [sess[cur] EXCEPT !.subs = u]
    <3>1. cur \in Sid /\ sess[cur] \in Session
      BY <1>3, <2>2
    <3>2. u \in SUBSET Socket
      BY <3>1 DEF Session
    <3>3. sess' = [sess EXCEPT ![cur] = s]
      BY <2>2, <3>1
    <3>. HIDE DEF u
    <3>4. s \in Session
      BY <3>1, <3>2, SessionFields
    <3>. QED
      BY <1>3, <3>1, <3>3, <3>4
  <2>. QED
    BY <2>1, <2>2
<1>7. \A i \in Sid :
        /\ sess'[i].seen = sess[i].seen /\ sess'[i].buffer = sess[i].buffer
        /\ sess'[i].thread = sess[i].thread /\ sess'[i].out = sess[i].out /\ sess'[i].todo = sess[i].todo
        /\ sess'[i].subs = IF i = cur THEN sess[i].subs \ {w} ELSE sess[i].subs
  BY <1>3 DEF Session
<1>8. ObjectsTyped'
  <2>1. sock' \in [Socket -> Sock]
    BY <1>3, <1>4
  <2>. QED
    BY <1>2, <1>4, <1>5, <1>6, <1>7, <2>1, Bounds DEF ObjectsTyped
<1>9. Unused'
  BY <1>2, <1>7 DEF Unused
<1>10. BufferSeen' /\ MapSessionLive'
  BY <1>2, <1>3, <1>7 DEF BufferSeen, MapSessionLive
<1>11. Flight'
  BY <1>2, <1>7 DEF Flight, Heard
<1>12. Subscribed'
  BY <1>2, <1>3, <1>4, <1>5, <1>7 DEF Subscribed
<1>13. SentSettled'
  <2>1. SUFFICES ASSUME NEW v \in Socket, NEW i \in Sid, Listens(v, i)',
                        NEW m \in Range(sock'[v].queue) \cup sock'[v].sent
                 PROVE  m \in sess[i].seen /\ m \notin InFlight(i)
    BY <1>7 DEF SentSettled, InFlight
  <2>2. v # w
    BY <1>4, <1>5, <2>1
  <2>3. Listens(v, i) /\ sock'[v] = sock[v]
    BY <1>5, <1>7, <2>1, <2>2 DEF Listens
  <2>. QED
    BY <1>2, <2>1, <2>3 DEF SentSettled
<1>14. SentTwiceByRaceOnly'
  BY <1>2, <1>4, <1>5 DEF SentTwiceByRaceOnly
<1>15. Quiet
  BY <1>7 DEF Quiet
<1>. QED
  BY <1>8, <1>9, <1>10, <1>11, <1>12, <1>13, <1>14, <1>15 DEF Delivery

\* A subscriber has been sent nothing, or the history of the session it subscribes to.
LEMMA SubscribeKeeps ==
  ASSUME IInv, NEW w \in Socket, Subscribe(w)
  PROVE  Delivery' /\ Quiet
<1>1. Delivery
  BY DeliveryHolds
<1>2. ObjectsTyped /\ Unused /\ BufferSeen /\ Flight /\ Subscribed /\ SentSettled /\ SentTwiceByRaceOnly /\ MapSessionLive
  BY <1>1 DEF Delivery
<1>3. /\ cur \in Sid \cup {None} /\ used \in Nat /\ cur <= used /\ sess \in [Sid -> Session]
      /\ None \notin Sid /\ sock \in [Socket -> Sock]
      /\ \A v \in Socket : sock[v].sub \in Sid \cup {None}
  BY <1>1, DeliveryTypes
<1>4. CASE cur = None
  <2>1. sock' = [sock EXCEPT ![w] = Closed] /\ sess' = sess /\ UNCHANGED <<cur, used, said>>
    BY <1>4 DEF Subscribe
  <2>2. sess' = IF cur = None THEN sess ELSE [sess EXCEPT ![cur].subs = @ \ {w}]
    BY <1>4, <2>1
  <2>. QED
    BY <2>1, <2>2, CloseKeeps
<1>5. CASE cur # None
  <2>. DEFINE e == IF sock[w].sub = cur THEN sock[w].sent ELSE {}
              k == [sock[w] EXCEPT !.at = "on", !.sub = cur, !.sent = e]
              u == sess[cur].subs \cup {w}
              s == [sess[cur] EXCEPT !.subs = u]
  <2>1. sock[w].at = "history" /\ sock[w] \in Sock /\ sess[cur] \in Session /\ cur \in Sid
    BY <1>3, <1>5 DEF Subscribe
  <2>2. sock' = [sock EXCEPT ![w] = k] /\ sess' = [sess EXCEPT ![cur] = s] /\ UNCHANGED <<cur, used, said>>
    BY <1>3, <1>5, <2>1 DEF Subscribe, Sock, Session
  <2>3. e \in SUBSET Message /\ \A m \in e : m \in sess[cur].seen /\ m \notin InFlight(cur)
    <3>1. sock[w].sent \in SUBSET Message
      BY <2>1 DEF Sock
    <3>2. sock[w].sub = cur => \A m \in sock[w].sent : m \in sess[cur].seen /\ m \notin InFlight(cur)
      BY <1>2, <2>1 DEF SentSettled, Listens
    <3>. QED
      BY <3>1, <3>2
  <2>4. sock[w].queue = << >>
    BY <1>2, <2>1 DEF Subscribed
  <2>. HIDE DEF e
  <2>5. k \in Sock /\ k.at = "on" /\ k.sub = cur /\ k.queue = << >> /\ k.sent = e
    BY <1>3, <2>1, <2>3, <2>4 DEF Sock
  <2>6. u \in SUBSET Socket
    BY <2>1 DEF Session
  <2>. HIDE DEF u, k
  <2>7. /\ s \in Session /\ s.seen = sess[cur].seen /\ s.buffer = sess[cur].buffer
        /\ s.thread = sess[cur].thread /\ s.subs = u /\ s.out = sess[cur].out /\ s.todo = sess[cur].todo
    BY <2>1, <2>6 DEF Session
  <2>. HIDE DEF s
  <2>8. \A v \in Socket : sock'[v] = IF v = w THEN k ELSE sock[v]
    BY <1>3, <2>2
  <2>9. \A i \in Sid :
          /\ sess'[i].seen = sess[i].seen /\ sess'[i].buffer = sess[i].buffer
          /\ sess'[i].thread = sess[i].thread /\ sess'[i].out = sess[i].out /\ sess'[i].todo = sess[i].todo
          /\ sess'[i].subs = IF i = cur THEN u ELSE sess[i].subs
    BY <1>3, <2>2, <2>7
  <2>10. Len(<< >>) = 0 /\ Range(<< >>) = {} /\ NoTwice(<< >>)
    BY DEF Range, NoTwice
  <2>11. ObjectsTyped'
    <3>1. sock' \in [Socket -> Sock] /\ sess' \in [Sid -> Session]
      BY <1>3, <2>2, <2>5, <2>7
    <3>. QED
      BY <1>2, <2>2, <2>5, <2>8, <2>9, <2>10, <3>1, Bounds DEF ObjectsTyped
  <2>12. Unused'
    <3>1. \A i \in Sid : i > used => i # cur
      BY <1>3, Bounds DEF Sid
    <3>. QED
      BY <1>2, <2>2, <2>9, <3>1 DEF Unused
  <2>13. BufferSeen' /\ MapSessionLive'
    BY <1>2, <2>1, <2>2, <2>9 DEF BufferSeen, MapSessionLive
  <2>14. Flight'
    <3>1. \A i \in Sid : Heard(i)' => Heard(i)
      BY <2>2, <2>9 DEF Heard
    <3>. QED
      BY <1>2, <2>2, <2>9, <3>1 DEF Flight
  <2>15. Subscribed'
    BY <1>2, <1>3, <2>1, <2>2, <2>5, <2>8, <2>9 DEF Subscribed, u
  <2>16. SentSettled'
    <3>1. SUFFICES ASSUME NEW v \in Socket, NEW i \in Sid, Listens(v, i)',
                          NEW m \in Range(sock'[v].queue) \cup sock'[v].sent
                   PROVE  m \in sess[i].seen /\ m \notin InFlight(i)
      BY <2>2, <2>9 DEF SentSettled, InFlight
    <3>2. CASE v = w
      <4>1. i = cur /\ m \in e
        BY <2>5, <2>8, <2>10, <3>1, <3>2 DEF Listens
      <4>. QED
        BY <2>3, <4>1
    <3>3. CASE v # w
      <4>1. sock'[v] = sock[v] /\ Listens(v, i)
        BY <2>2, <2>8, <2>9, <3>1, <3>3 DEF Listens, u
      <4>. QED
        BY <1>2, <3>1, <4>1 DEF SentSettled
    <3>. QED
      BY <3>2, <3>3
  <2>17. SentTwiceByRaceOnly'
    BY <1>2, <2>5, <2>8, <2>10 DEF SentTwiceByRaceOnly
  <2>18. Quiet
    BY <2>9 DEF Quiet
  <2>. QED
    BY <2>11, <2>12, <2>13, <2>14, <2>15, <2>16, <2>17, <2>18 DEF Delivery
<1>. QED
  BY <1>4, <1>5

\* A page that closes its websocket.
LEMMA DisconnectKeeps ==
  ASSUME IInv, NEW w \in Socket, Disconnect(w)
  PROVE  Delivery' /\ Quiet
  BY CloseKeeps DEF Disconnect, creators

\* The first message of a queue and the others.
LEMMA HeadApart ==
  ASSUME NEW S, NEW q \in Seq(S), q # << >>
  PROVE  /\ Head(q) \in S /\ Tail(q) \in Seq(S) /\ Len(Tail(q)) <= Len(q)
         /\ Range(q) = {Head(q)} \cup Range(Tail(q))
         /\ NoTwice(q) => NoTwice(Tail(q)) /\ Head(q) \notin Range(Tail(q))
<1>. DEFINE h == Head(q)
            t == Tail(q)
<1>1. /\ h = q[1] /\ t \in Seq(S) /\ Len(t) = Len(q) - 1 /\ \A j \in 1 .. Len(q) - 1 : t[j] = q[j + 1]
      /\ Len(q) \in Nat /\ Len(q) > 0 /\ h \in S
  BY HeadTailProperties, EmptySeq, LenProperties, ElementOfSeq
<1>2. DOMAIN q = 1 .. Len(q) /\ DOMAIN t = 1 .. Len(q) - 1
  BY <1>1, LenProperties
<1>. HIDE DEF h, t
<1>3. Range(q) = {h} \cup Range(t)
  <2>1. \A j \in 1 .. Len(q) : j = 1 \/ (j - 1 \in 1 .. Len(q) - 1 /\ (j - 1) + 1 = j)
    BY <1>1
  <2>2. ASSUME NEW j \in 1 .. Len(q) PROVE q[j] \in {h} \cup Range(t)
    <3>1. CASE j = 1
      BY <1>1, <3>1
    <3>2. CASE j # 1
      <4>1. j - 1 \in 1 .. Len(q) - 1 /\ (j - 1) + 1 = j
        BY <2>1, <3>2
      <4>2. t[j - 1] = q[j]
        BY <1>1, <4>1
      <4>. QED
        BY <1>2, <4>1, <4>2 DEF Range
    <3>. QED
      BY <3>1, <3>2
  <2>3. \A j \in 1 .. Len(q) - 1 : j + 1 \in 1 .. Len(q)
    BY <1>1
  <2>4. 1 \in 1 .. Len(q)
    BY <1>1
  <2>5. Range(t) \subseteq Range(q) /\ h \in Range(q)
    BY <1>1, <1>2, <2>3, <2>4 DEF Range
  <2>6. Range(q) \subseteq {h} \cup Range(t)
    BY <1>2, <2>2 DEF Range
  <2>. QED
    BY <2>5, <2>6
<1>4. ASSUME NoTwice(q) PROVE NoTwice(t) /\ h \notin Range(t)
  <2>1. \A j \in 1 .. Len(q) - 1 : j + 1 \in DOMAIN q /\ 1 \in DOMAIN q /\ j + 1 # 1 /\ t[j] = q[j + 1]
    BY <1>1, <1>2
  <2>2. NoTwice(t)
    <3>1. SUFFICES ASSUME NEW j \in 1 .. Len(q) - 1, NEW k \in 1 .. Len(q) - 1, t[j] = t[k]
                   PROVE  j = k
      BY <1>2 DEF NoTwice
    <3>2. j + 1 = k + 1
      BY <1>4, <2>1, <3>1 DEF NoTwice
    <3>. QED
      BY <1>1, <3>1, <3>2
  <2>3. \A j \in 1 .. Len(q) - 1 : t[j] # h
    BY <1>1, <1>4, <2>1 DEF NoTwice
  <2>. QED
    BY <1>2, <2>2, <2>3 DEF Range
<1>. QED
  BY <1>1, <1>3, <1>4 DEF h, t

\* What is sent has left the queue.
LEMMA SendKeeps ==
  ASSUME IInv, NEW w \in Socket, Send(w)
  PROVE  Delivery' /\ Quiet
<1>. DEFINE q == sock[w].queue
            h == Head(q)
            t == Tail(q)
            e == sock[w].sent \cup {h}
            k == [sock[w] EXCEPT !.sent = e, !.queue = t]
<1>1. Delivery
  BY DeliveryHolds
<1>2. ObjectsTyped /\ Unused /\ BufferSeen /\ Flight /\ Subscribed /\ SentSettled /\ SentTwiceByRaceOnly /\ MapSessionLive
  BY <1>1 DEF Delivery
<1>3. /\ sock \in [Socket -> Sock] /\ sock[w] \in Sock /\ q \in Seq(Message) /\ sock[w].sent \in SUBSET Message
      /\ \A v \in Socket : sock[v].sub \in Sid \cup {None}
  BY <1>1, DeliveryTypes DEF Sock
<1>4. /\ sock[w].at = "on" /\ q # << >> /\ sock' = [sock EXCEPT ![w] = k]
      /\ UNCHANGED <<cur, sess, used, said>>
  BY <1>3 DEF Send, Sock
<1>5. NoTwice(q) /\ Range(q) \cap sock[w].sent = {}
  BY <1>2, <1>4 DEF SentTwiceByRaceOnly
<1>6. /\ h \in Message /\ t \in Seq(Message) /\ Len(t) <= Len(q) /\ Range(q) = {h} \cup Range(t)
      /\ NoTwice(t) /\ h \notin Range(t)
  BY <1>3, <1>4, <1>5, HeadApart
<1>7. Len(q) \in Nat /\ Len(t) \in Nat /\ Len(q) <= QueueMax
  BY <1>2, <1>3, <1>6, LenProperties DEF ObjectsTyped
<1>8. Len(t) <= QueueMax
  BY <1>6, <1>7, Bounds
<1>. HIDE DEF t, h
<1>9. e \in SUBSET Message /\ Range(t) \cap e = {} /\ Range(t) \cup e = Range(q) \cup sock[w].sent
  BY <1>3, <1>5, <1>6
<1>. HIDE DEF e, q
<1>10. k \in Sock /\ k.at = "on" /\ k.sub = sock[w].sub /\ k.queue = t /\ k.sent = e
  BY <1>3, <1>4, <1>6, <1>9 DEF Sock
<1>. HIDE DEF k
<1>11. \A v \in Socket : sock'[v] = IF v = w THEN k ELSE sock[v]
  BY <1>3, <1>4
<1>12. ObjectsTyped'
  <2>1. sock' \in [Socket -> Sock]
    BY <1>3, <1>4, <1>10
  <2>. QED
    BY <1>2, <1>4, <1>8, <1>10, <1>11, <2>1 DEF ObjectsTyped
<1>13. Unused' /\ BufferSeen' /\ MapSessionLive' /\ Flight'
  BY <1>2, <1>4 DEF Unused, BufferSeen, MapSessionLive, Flight, Heard
<1>14. Subscribed'
  BY <1>2, <1>3, <1>4, <1>10, <1>11 DEF Subscribed
<1>15. SentSettled'
  <2>1. \A v \in Socket : /\ Range(sock'[v].queue) \cup sock'[v].sent = Range(sock[v].queue) \cup sock[v].sent
                          /\ sock'[v].sub = sock[v].sub /\ sock'[v].at = sock[v].at
    BY <1>4, <1>9, <1>10, <1>11 DEF q
  <2>2. \A v \in Socket : \A i \in Sid : Listens(v, i)' => Listens(v, i)
    BY <1>4, <2>1 DEF Listens
  <2>3. \A i \in Sid : InFlight(i)' = InFlight(i)
    BY <1>4 DEF InFlight
  <2>. QED
    BY <1>2, <1>4, <2>1, <2>2, <2>3 DEF SentSettled
<1>16. SentTwiceByRaceOnly'
  BY <1>2, <1>6, <1>9, <1>10, <1>11 DEF SentTwiceByRaceOnly
<1>17. Quiet
  BY <1>4 DEF Quiet
<1>. QED
  BY <1>12, <1>13, <1>14, <1>15, <1>16, <1>17 DEF Delivery

-----------------------------------------------------------------------------
\* The game server's variables and the creators' are of their types.
World ==
  /\ alive \in BOOLEAN /\ runs \in 0 .. MaxRuns
  /\ log \in [Run -> Seq(Time)] /\ cut \in [Run -> Time \cup {None}]
  /\ clock \in 0 .. MaxTime
  /\ Lines

Creators ==
  /\ pc \in [Creator -> {"idle", "pop", "join", "load", "put"}]
  /\ then \in [Creator -> {"idle", "load"}]
  /\ ending \in [Creator -> Sid \cup {None}]
  /\ loaded \in [Creator -> Seq(Message)]
  /\ Ending

\* The inductive invariant, by whose variables it is about.
LEMMA Parts == IInv <=> World /\ Creators /\ Delivery
  BY DEF IInv, World, Creators, Delivery, ObjectsTyped, TypeOK, Session, Sock

\* What does not touch them keeps sessions, websockets and the map.
LEMMA Aside ==
  ASSUME IInv, UNCHANGED <<cur, used, sess, said, sock>>
  PROVE  Delivery' /\ Quiet
<1>1. ObjectsTyped /\ Unused /\ BufferSeen /\ Flight /\ Subscribed /\ SentSettled /\ SentTwiceByRaceOnly /\ MapSessionLive
  BY DeliveryHolds DEF Delivery
<1>2. ObjectsTyped' /\ Unused' /\ BufferSeen' /\ SentTwiceByRaceOnly' /\ MapSessionLive'
  BY <1>1 DEF ObjectsTyped, Unused, BufferSeen, SentTwiceByRaceOnly, MapSessionLive
<1>3. Flight' /\ Subscribed' /\ SentSettled'
  BY <1>1 DEF Flight, Heard, Subscribed, SentSettled, Listens, InFlight
<1>4. Quiet
  BY DEF Quiet
<1>. QED
  BY <1>2, <1>3, <1>4 DEF Delivery

\* A line that is written is one message more, and a line that ends is none.
LEMMA WorldKeeps ==
  ASSUME IInv, WriteLine \/ WriteBegin \/ WriteEnd \/ GoesDown \/ Launch \/ StopServer
               \/ Inject \/ UNCHANGED <<game, clock>>
  PROVE  World'
<1>1. World /\ Lines
  BY Parts DEF World
<1>2. /\ runs \in Run /\ clock \in Nat /\ None = 0 /\ 0 \notin Time /\ runs \in Nat
      /\ log \in [Run -> Seq(Time)] /\ cut \in [Run -> Time \cup {None}]
  BY <1>1, Bounds DEF World, Lines, Run, None, Time
<1>3. \A r \in Run : /\ Len(log[r]) \in Nat
                     /\ Len(log[r]) + (IF cut[r] = None THEN 0 ELSE 1) <= clock
  BY <1>1, <1>2, LenProperties DEF Lines
<1>4. \A t \in Time : Append(log[runs], t) \in Seq(Time) /\ Len(Append(log[runs], t)) = Len(log[runs]) + 1
  BY <1>2, AppendProperties
<1>5. clock < MaxTime => clock + 1 \in Time /\ clock + 1 \in 0 .. MaxTime
  BY <1>2, Bounds DEF Time
<1>6. CASE WriteLine
  <2>1. /\ clock + 1 \in Time /\ clock + 1 \in 0 .. MaxTime /\ clock' = clock + 1 /\ cut[runs] = None
        /\ log' = [log EXCEPT ![runs] = Append(log[runs], clock + 1)] /\ UNCHANGED <<alive, runs, cut>>
    BY <1>5, <1>6 DEF WriteLine
  <2>2. log' \in [Run -> Seq(Time)]
    BY <1>2, <1>4, <2>1
  <2>3. \A r \in Run : Len(log'[r]) = IF r = runs THEN Len(log[r]) + 1 ELSE Len(log[r])
    BY <1>2, <1>4, <2>1
  <2>4. Lines'
    <3>1. ASSUME NEW r \in Run PROVE Len(log'[r]) + (IF cut'[r] = None THEN 0 ELSE 1) <= clock'
      <4>1. CASE r = runs
        BY <1>2, <1>3, <2>1, <2>3, <4>1
      <4>2. CASE r # runs
        BY <1>2, <1>3, <2>1, <2>3, <4>2
      <4>. QED
        BY <4>1, <4>2
    <3>. QED
      BY <1>1, <2>1, <3>1 DEF Lines
  <2>. QED
    BY <1>1, <2>1, <2>2, <2>4 DEF World
<1>7. CASE WriteBegin
  <2>1. /\ clock + 1 \in Time /\ clock + 1 \in 0 .. MaxTime /\ clock' = clock + 1 /\ cut[runs] = None
        /\ cut' = [cut EXCEPT ![runs] = clock + 1] /\ UNCHANGED <<alive, runs, log>>
    BY <1>5, <1>7 DEF WriteBegin
  <2>2. cut' \in [Run -> Time \cup {None}]
    BY <1>2, <2>1
  <2>3. Lines'
    <3>1. ASSUME NEW r \in Run PROVE Len(log'[r]) + (IF cut'[r] = None THEN 0 ELSE 1) <= clock'
      <4>1. CASE r = runs
        BY <1>2, <1>3, <2>1, <4>1
      <4>2. CASE r # runs
        BY <1>2, <1>3, <2>1, <4>2
      <4>. QED
        BY <4>1, <4>2
    <3>. QED
      BY <1>1, <2>1, <3>1 DEF Lines
  <2>. QED
    BY <1>1, <2>1, <2>2, <2>3 DEF World
<1>8. CASE WriteEnd
  <2>1. /\ cut[runs] \in Time /\ cut[runs] # None /\ cut' = [cut EXCEPT ![runs] = None]
        /\ log' = [log EXCEPT ![runs] = Append(log[runs], cut[runs])] /\ UNCHANGED <<alive, runs, clock>>
    BY <1>2, <1>8 DEF WriteEnd
  <2>2. log' \in [Run -> Seq(Time)] /\ cut' \in [Run -> Time \cup {None}]
    BY <1>2, <1>4, <2>1
  <2>3. \A r \in Run : Len(log'[r]) = IF r = runs THEN Len(log[r]) + 1 ELSE Len(log[r])
    BY <1>2, <1>4, <2>1
  <2>4. Lines'
    <3>1. ASSUME NEW r \in Run PROVE Len(log'[r]) + (IF cut'[r] = None THEN 0 ELSE 1) <= clock'
      <4>1. CASE r = runs
        BY <1>2, <1>3, <2>1, <2>3, <4>1
      <4>2. CASE r # runs
        BY <1>2, <1>3, <2>1, <2>3, <4>2
      <4>. QED
        BY <4>1, <4>2
    <3>. QED
      BY <1>1, <2>1, <3>1 DEF Lines
  <2>. QED
    BY <1>1, <2>1, <2>2, <2>4 DEF World
<1>9. CASE Launch
  <2>1. runs' = runs + 1 /\ runs < MaxRuns /\ alive' = TRUE /\ UNCHANGED <<log, cut, clock>>
    BY <1>9 DEF Launch
  <2>2. runs' \in 0 .. MaxRuns /\ runs' > 0
    BY <1>2, <2>1, Bounds
  <2>. QED
    BY <1>1, <2>1, <2>2 DEF World, Lines
<1>10. CASE GoesDown \/ StopServer
  <2>1. alive' = FALSE /\ UNCHANGED <<runs, log, cut, clock>>
    BY <1>10 DEF GoesDown, StopServer
  <2>. QED
    BY <1>1, <2>1 DEF World, Lines
<1>11. CASE Inject
  <2>1. clock' = clock + 1 /\ clock + 1 \in 0 .. MaxTime /\ UNCHANGED <<alive, runs, log, cut>>
    BY <1>5, <1>11 DEF Inject, game
  <2>2. Lines'
    <3>1. ASSUME NEW r \in Run PROVE Len(log'[r]) + (IF cut'[r] = None THEN 0 ELSE 1) <= clock'
      BY <1>2, <1>3, <2>1
    <3>. QED
      BY <1>1, <2>1, <3>1 DEF Lines
  <2>. QED
    BY <1>1, <2>1, <2>2 DEF World
<1>12. CASE UNCHANGED <<game, clock>>
  BY <1>1, <1>12 DEF World, Lines, game
<1>. QED
  BY <1>6, <1>7, <1>8, <1>9, <1>10, <1>11, <1>12

\* begin_session and end_session go from one place to the next.
LEMMA CreatorsKeep ==
  ASSUME IInv,
         \/ Launch \/ StopServer \/ Ensure
         \/ \E c \in Creator : Pop(c) \/ Forget(c) \/ LoadHistory(c) \/ Put(c)
         \/ UNCHANGED <<creators, cur, used>>
  PROVE  Creators'
<1>1. Creators /\ Ending
  BY Parts DEF Creators
<1>2. ASSUME NEW c, Call(c, "pop", "load") \/ Call(c, "pop", "idle"), UNCHANGED <<loaded, ending, cur, used>>
      PROVE  Creators'
  BY <1>1, <1>2 DEF Creators, Call, Ending
<1>3. CASE Launch
  BY <1>2, <1>3 DEF Launch
<1>4. CASE StopServer
  BY <1>2, <1>4 DEF StopServer
<1>5. CASE Ensure
  BY <1>2, <1>5 DEF Ensure
<1>6. /\ cur \in Sid \cup {None} /\ used \in Nat /\ cur <= used /\ Sid \subseteq Nat /\ None \notin Sid
  BY DeliveryHolds, DeliveryTypes
<1>7. ASSUME NEW c \in Creator, Pop(c) PROVE Creators'
  <2>1. cur' = None /\ UNCHANGED <<loaded, used>>
    BY <1>7 DEF Pop
  <2>2. CASE cur = None
    <3>1. Call(c, then[c], "idle") /\ UNCHANGED ending
      BY <1>7, <2>2 DEF Pop, Return
    <3>2. then[c] \in {"idle", "load"}
      BY <1>1 DEF Creators
    <3>. QED
      BY <1>1, <2>1, <2>2, <3>1, <3>2 DEF Creators, Call, Ending
  <2>3. CASE cur # None
    <3>1. Call(c, "join", then[c]) /\ ending' = [ending EXCEPT ![c] = cur] /\ cur \in Sid
      BY <1>6, <1>7, <2>3 DEF Pop
    <3>2. then[c] \in {"idle", "load"}
      BY <1>1 DEF Creators
    <3>3. pc' = [pc EXCEPT ![c] = "join"] /\ then' = [then EXCEPT ![c] = then[c]]
      BY <3>1 DEF Call
    <3>4. \A d \in Creator : /\ d # c => pc'[d] = pc[d] /\ ending'[d] = ending[d]
                             /\ d = c => ending'[d] = cur
      BY <1>1, <3>1, <3>3 DEF Creators
    <3>5. Ending'
      BY <1>1, <1>6, <2>1, <3>1, <3>4 DEF Ending
    <3>. QED
      BY <1>1, <2>1, <3>1, <3>2, <3>3, <3>5 DEF Creators
  <2>. QED
    BY <2>2, <2>3
<1>8. ASSUME NEW c \in Creator, Forget(c) PROVE Creators'
  <2>1. then[c] \in {"idle", "load"} /\ UNCHANGED <<loaded, cur, used>> /\ ending' = [ending EXCEPT ![c] = None]
        /\ pc' = [pc EXCEPT ![c] = then[c]] /\ then' = [then EXCEPT ![c] = "idle"]
    BY <1>1, <1>8 DEF Creators, Forget, Return, Call
  <2>. QED
    BY <1>1, <2>1 DEF Creators, Ending
<1>9. ASSUME NEW c \in Creator, LoadHistory(c) PROVE Creators'
  <2>1. AllParsed \in Seq(Message)
    BY ParsedType DEF IInv
  <2>. HIDE DEF Message
  <2>2. /\ loaded' = [loaded EXCEPT ![c] = AllParsed] /\ pc' = [pc EXCEPT ![c] = "put"]
        /\ UNCHANGED <<then, ending, cur, used>>
    BY <1>9 DEF LoadHistory
  <2>3. Ending'
    BY <1>1, <2>2 DEF Creators, Ending
  <2>. QED
    BY <1>1, <2>1, <2>2, <2>3 DEF Creators
<1>10. ASSUME NEW c \in Creator, Put(c) PROVE Creators'
  <2>1. << >> \in Seq(Message)
    BY EmptySeq
  <2>2. /\ loaded' = [loaded EXCEPT ![c] = << >>] /\ pc' = [pc EXCEPT ![c] = "idle"]
        /\ UNCHANGED <<then, ending>> /\ used' = used + 1 /\ cur' = used + 1
    BY <1>10 DEF Put
  <2>3. \A d \in Creator : pc'[d] = "join" => pc[d] = "join"
    BY <1>1, <2>2 DEF Creators
  <2>4. \A d \in Creator : pc[d] = "join" => ending[d] \in Sid /\ ending[d] # used + 1 /\ ending[d] <= used + 1
    <3>1. \A n \in Nat : n <= used => n # used + 1 /\ n <= used + 1
      BY <1>6
    <3>2. \A d \in Creator : pc[d] = "join" => ending[d] \in Sid /\ ending[d] \in Nat /\ ending[d] <= used
      BY <1>1, <1>6 DEF Ending
    <3>. QED
      BY <3>1, <3>2
  <2>5. Ending'
    BY <2>2, <2>3, <2>4 DEF Ending
  <2>. QED
    BY <1>1, <2>1, <2>2, <2>5 DEF Creators
<1>11. CASE UNCHANGED <<creators, cur, used>>
  BY <1>1, <1>11 DEF Creators, creators, Ending
<1>. QED
  BY <1>3, <1>4, <1>5, <1>7, <1>8, <1>9, <1>10, <1>11

\* Every step keeps the invariant, and gives no buffer what its session has had.
LEMMA StepKeeps ==
  ASSUME IInv, [Next]_vars
  PROVE  IInv' /\ Quiet
<1>1. World' /\ Creators' /\ Delivery' => IInv'
  BY Parts, PTL
<1>2. CASE WriteLine \/ WriteBegin \/ WriteEnd \/ GoesDown
  <2>1. UNCHANGED <<cur, used, sess, said, sock>> /\ UNCHANGED <<creators, cur, used>>
    BY <1>2 DEF WriteLine, WriteBegin, WriteEnd, GoesDown
  <2>. QED
    BY <1>1, <1>2, <2>1, Aside, WorldKeeps, CreatorsKeep
<1>3. CASE Launch \/ StopServer
  <2>1. UNCHANGED <<cur, used, sess, said, sock>>
    BY <1>3 DEF Launch, StopServer
  <2>. QED
    BY <1>1, <1>3, <2>1, Aside, WorldKeeps, CreatorsKeep
<1>4. CASE Ensure
  <2>1. UNCHANGED <<cur, used, sess, said, sock>> /\ UNCHANGED <<game, clock>>
    BY <1>4 DEF Ensure
  <2>. QED
    BY <1>1, <1>4, <2>1, Aside, WorldKeeps, CreatorsKeep
<1>5. ASSUME NEW c \in Creator, Pop(c) \/ Forget(c) \/ Put(c) PROVE IInv' /\ Quiet
  <2>1. UNCHANGED <<game, clock>>
    BY <1>5 DEF Pop, Forget, Put
  <2>2. Delivery' /\ Quiet
    BY <1>5, PopKeeps, ForgetKeeps, PutKeeps
  <2>. QED
    BY <1>1, <1>5, <2>1, <2>2, WorldKeeps, CreatorsKeep
<1>6. ASSUME NEW c \in Creator, LoadHistory(c) PROVE IInv' /\ Quiet
  <2>1. UNCHANGED <<cur, used, sess, said, sock>> /\ UNCHANGED <<game, clock>>
    BY <1>6 DEF LoadHistory
  <2>. QED
    BY <1>1, <1>6, <2>1, Aside, WorldKeeps, CreatorsKeep
<1>7. ASSUME NEW i \in Sid,
             Rescan(i) \/ Attach(i) \/ Switch(i) \/ Read(i) \/ AppendNext(i) \/ DispatchNext(i)
      PROVE  IInv' /\ Quiet
  <2>1. UNCHANGED <<game, clock>> /\ UNCHANGED <<creators, cur, used>>
    BY <1>7 DEF Rescan, Attach, Switch, Read, AppendNext, DispatchNext, Others
  <2>2. Delivery' /\ Quiet
    BY <1>7, RescanKeeps, AttachKeeps, SwitchKeeps, ReadKeeps, AppendKeeps, DispatchKeeps
  <2>. QED
    BY <1>1, <2>1, <2>2, WorldKeeps, CreatorsKeep
<1>8. CASE Inject
  <2>1. UNCHANGED <<creators, cur, used>>
    BY <1>8 DEF Inject
  <2>. QED
    BY <1>1, <1>8, <2>1, InjectKeeps, WorldKeeps, CreatorsKeep
<1>9. ASSUME NEW s \in said, DispatchSaid(s[1], s[2]) PROVE IInv' /\ Quiet
  <2>1. UNCHANGED <<game, clock>> /\ UNCHANGED <<creators, cur, used>>
    BY <1>9 DEF DispatchSaid
  <2>2. Delivery' /\ Quiet
    BY <1>9, DispatchSaidKeeps
  <2>. QED
    BY <1>1, <2>1, <2>2, WorldKeeps, CreatorsKeep
<1>10. ASSUME NEW w \in Socket, Connect(w) \/ Subscribe(w) \/ Send(w) \/ Disconnect(w)
       PROVE  IInv' /\ Quiet
  <2>1. UNCHANGED <<game, clock>> /\ UNCHANGED <<creators, cur, used>>
    BY <1>10 DEF Connect, Subscribe, Send, Disconnect
  <2>2. Delivery' /\ Quiet
    BY <1>10, ConnectKeeps, SubscribeKeeps, SendKeeps, DisconnectKeeps
  <2>. QED
    BY <1>1, <2>1, <2>2, WorldKeeps, CreatorsKeep
<1>11. CASE UNCHANGED vars
  <2>1. /\ UNCHANGED <<cur, used, sess, said, sock>> /\ UNCHANGED <<game, clock>>
        /\ UNCHANGED <<creators, cur, used>>
    BY <1>11 DEF vars
  <2>. QED
    BY <1>1, <2>1, Aside, WorldKeeps, CreatorsKeep
<1>. QED
  BY <1>2, <1>3, <1>4, <1>5, <1>6, <1>7, <1>8, <1>9, <1>10, <1>11, Zenon DEF Next

\* In the beginning there is neither a session nor a websocket.
LEMMA IInvInit == Init => IInv
<1>. SUFFICES ASSUME Init PROVE IInv
  OBVIOUS
<1>1. << >> \in Seq(Message) /\ << >> \in Seq(Time) /\ Len(<< >>) = 0 /\ Range(<< >>) = {}
  BY EmptySeq DEF Range
<1>2. /\ NewSession(<< >>) \in Session /\ NewSession(<< >>).seen = {} /\ NewSession(<< >>).buffer = << >>
      /\ NewSession(<< >>).subs = {} /\ NewSession(<< >>).thread = "begun"
      /\ NewSession(<< >>).out = {} /\ NewSession(<< >>).todo = << >>
  BY <1>1, NewSessionFields
<1>3. /\ Closed \in Sock /\ Closed.at = "off" /\ Closed.sub = None /\ Closed.queue = << >>
  BY <1>1 DEF Closed, Sock
<1>4. World
  BY <1>1, Bounds DEF Init, World, Lines, Run, None
<1>5. Creators
  BY <1>1 DEF Init, Creators, Ending
<1>. HIDE DEF NewSession
<1>6. ObjectsTyped
  BY <1>1, <1>2, <1>3, Bounds DEF Init, ObjectsTyped
<1>7. Unused /\ BufferSeen /\ Flight
  BY <1>1, <1>2, Bounds DEF Init, Unused, BufferSeen, Flight, None
<1>8. Subscribed /\ SentSettled /\ SentTwiceByRaceOnly /\ MapSessionLive
  BY <1>3, Bounds DEF Init, Subscribed, SentSettled, Listens, SentTwiceByRaceOnly, MapSessionLive, None, Sid
<1>. QED
  BY <1>4, <1>5, <1>6, <1>7, <1>8, Parts DEF Delivery

(***************************************************************************)
(* What the game server writes, what the threads read and the websockets   *)
(* that come and go keep the inductive invariant.                          *)
(***************************************************************************)
THEOREM Invariance == Spec => []IInv
<1>1. IInv /\ [Next]_vars => IInv'
  BY StepKeeps
<1>. QED
  BY <1>1, IInvInit, PTL DEF Spec

\* Sessions, their threads and the websockets have the values the code gives them.
THEOREM TypeCorrect == Spec => []TypeOK
<1>1. IInv => TypeOK
  BY DEF IInv
<1>. QED
  BY <1>1, Invariance, PTL

(***************************************************************************)
(* However session threads, injected messages, those who begin and end     *)
(* sessions and the handlers of a websocket take turns, a websocket is     *)
(* sent a message of its session twice only if the message was between its *)
(* append and its dispatch when the history was taken.                     *)
(***************************************************************************)
THEOREM SentTwiceOnlyInFlight == Spec => []SentTwiceByRaceOnly
<1>1. IInv => SentTwiceByRaceOnly
  BY DEF IInv
<1>. QED
  BY <1>1, Invariance, PTL

\* Who begins and who ends sessions at the same time leaves no ended one in the map.
THEOREM MapNeverOver == Spec => []MapSessionLive
<1>1. IInv => MapSessionLive
  BY DEF IInv
<1>. QED
  BY <1>1, Invariance, PTL

(***************************************************************************)
(* A message that left the buffer stays away from it, although the logs    *)
(* are read again and again: what a session has seen it remembers.         *)
(***************************************************************************)
THEOREM BufferNeverRepeats == Spec => NoRepeats
<1>1. IInv /\ [Next]_vars => [Quiet]_vars
  BY StepKeeps
<1>. QED
  BY <1>1, Invariance, PTL DEF Spec, NoRepeats, Quiet
=============================================================================
