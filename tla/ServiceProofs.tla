---------------------------- MODULE ServiceProofs ---------------------------
(***************************************************************************)
(* Two services that are shared by many callers and can be drained: what a *)
(* drain of the inference coordinator promises and what a stream's         *)
(* consumer may rely on, for any requests, stages, limits and queue sizes; *)
(* how many documents the OCR service works on, and that a drained one is  *)
(* idle.  The two specifications share no state.                           *)
(***************************************************************************)
EXTENDS Coordinator, Ocr, FiniteSetTheorems, SequenceTheorems, TLAPS

-----------------------------------------------------------------------------
(* The inference coordinator.                                              *)

Items == {"chunk", "done", "failure"}

Callers == {"idle", "waiting", "rejected", "served", "failed"}

Types ==
  /\ registered \subseteq Requests
  /\ interactive \in Seq(Requests)
  /\ background \in Seq(Requests)
  /\ spawned \in Seq(Requests)
  /\ waiters \in [Stages -> Seq(Requests)]
  /\ holding \subseteq Requests
  /\ ending \subseteq Requests
  /\ caller \in [Requests -> Callers]
  /\ queue \in [Requests -> Seq(Items)]

-----------------------------------------------------------------------------
Distinct(s) == \A i, j \in DOMAIN s : s[i] = s[j] => i = j

Started == Waiting \cup holding \cup ending

\* A request is in one place at a time: in one queue, or in one task.
Once ==
  /\ Distinct(interactive) /\ Distinct(background) /\ Distinct(spawned)
  /\ Elements(interactive) \cap Elements(background) = {}
  /\ Queued \cap Live = {}
  /\ Elements(spawned) \cap Started = {}

\* The semaphore of a stage is waited for by requests of that stage.
Lined ==
  \A s \in Stages : /\ Distinct(waiters[s])
                    /\ \A r \in Elements(waiters[s]) : StageOf[r] = s

Present == Queued \cup Live

\* A request whose caller has not come yet has left no trace.
Unborn ==
  \A r \in Requests : caller[r] = "idle" =>
    r \notin registered /\ r \notin Present /\ queue[r] = <<>>

\* Until close() clears the registries, what is queued or runs is registered.
Covered == life = "open" => Present \subseteq registered

\* _idle is set, and a drain released, only when nothing is registered.
Quiet ==
  /\ idle => registered = {}
  /\ drainer \in {"woken", "drained"} /\ draining /\ life = "open" => registered = {}

\* Behind a terminal item nothing can come: the request is gone.
Over(r) ==
  \A i \in DOMAIN queue[r] :
    queue[r][i] # "chunk" => i = Len(queue[r]) /\ r \notin registered /\ r \notin Present

Terminated == \A r \in Streaming : Over(r)

Inv == Types /\ Once /\ Lined /\ Unborn /\ Covered /\ Quiet /\ Terminated

-----------------------------------------------------------------------------
(* Sequences and what they hold.                                           *)

LEMMA AppendElements ==
  ASSUME NEW S, NEW s \in Seq(S), NEW x \in S
  PROVE  /\ Append(s, x) \in Seq(S)
         /\ Elements(Append(s, x)) = Elements(s) \cup {x}
         /\ Distinct(s) /\ x \notin Elements(s) => Distinct(Append(s, x))
<1>1. /\ Append(s, x) \in Seq(S) /\ Len(Append(s, x)) = Len(s) + 1
      /\ DOMAIN s = 1..Len(s) /\ DOMAIN Append(s, x) = 1..(Len(s) + 1)
      /\ \A i \in 1..Len(s) : Append(s, x)[i] = s[i]
      /\ Append(s, x)[Len(s) + 1] = x
      /\ Len(s) \in Nat
  BY AppendProperties, LenProperties
<1>2. Elements(Append(s, x)) \subseteq Elements(s) \cup {x}
  BY <1>1 DEF Elements
<1>3. Elements(s) \subseteq Elements(Append(s, x))
  BY <1>1 DEF Elements
<1>4. x \in Elements(Append(s, x))
  <2>1. Len(s) + 1 \in DOMAIN Append(s, x)
    BY <1>1
  <2> QED
    BY <1>1, <2>1 DEF Elements
<1>5. Distinct(s) /\ x \notin Elements(s) => Distinct(Append(s, x))
  BY <1>1 DEF Distinct, Elements
<1> QED
  BY <1>1, <1>2, <1>3, <1>4, <1>5

LEMMA TailElements ==
  ASSUME NEW S, NEW s \in Seq(S), s # <<>>
  PROVE  /\ Head(s) \in S /\ Tail(s) \in Seq(S)
         /\ Elements(s) = Elements(Tail(s)) \cup {Head(s)}
         /\ Distinct(s) => Distinct(Tail(s)) /\ Head(s) \notin Elements(Tail(s))
<1>1. /\ Head(s) \in S /\ Tail(s) \in Seq(S) /\ Len(Tail(s)) = Len(s) - 1
      /\ \A i \in 1..Len(Tail(s)) : Tail(s)[i] = s[i + 1]
  BY HeadTailProperties
<1>2. /\ Len(s) \in Nat /\ Len(s) > 0 /\ Head(s) = s[1]
      /\ DOMAIN s = 1..Len(s) /\ DOMAIN Tail(s) = 1..(Len(s) - 1)
  BY <1>1, EmptySeq, LenProperties
<1>3. Elements(Tail(s)) \cup {Head(s)} \subseteq Elements(s)
  BY <1>1, <1>2 DEF Elements
<1>4. Elements(s) \subseteq Elements(Tail(s)) \cup {Head(s)}
  <2> SUFFICES ASSUME NEW i \in DOMAIN s
               PROVE  s[i] \in Elements(Tail(s)) \cup {Head(s)}
    BY DEF Elements
  <2>1. CASE i = 1
    BY <1>2, <2>1
  <2>2. CASE i # 1
    <3>1. i - 1 \in DOMAIN Tail(s) /\ Tail(s)[i - 1] = s[i]
      BY <1>1, <1>2, <2>2
    <3> QED
      BY <3>1 DEF Elements
  <2> QED
    BY <2>1, <2>2
<1>5. Distinct(s) => Distinct(Tail(s)) /\ Head(s) \notin Elements(Tail(s))
  BY <1>1, <1>2 DEF Distinct, Elements
<1> QED
  BY <1>1, <1>3, <1>4, <1>5

LEMMA ConcatElements ==
  ASSUME NEW S, NEW s \in Seq(S), NEW t \in Seq(S)
  PROVE  /\ s \o t \in Seq(S)
         /\ Elements(s \o t) = Elements(s) \cup Elements(t)
         /\ Distinct(s) /\ Distinct(t) /\ Elements(s) \cap Elements(t) = {} => Distinct(s \o t)
<1>1. /\ s \o t \in Seq(S) /\ Len(s \o t) = Len(s) + Len(t)
      /\ \A i \in 1..Len(s) + Len(t) :
           (s \o t)[i] = IF i <= Len(s) THEN s[i] ELSE t[i - Len(s)]
  BY ConcatProperties
<1>2. /\ Len(s) \in Nat /\ Len(t) \in Nat /\ DOMAIN s = 1..Len(s) /\ DOMAIN t = 1..Len(t)
      /\ DOMAIN (s \o t) = 1..(Len(s) + Len(t))
  BY <1>1, LenProperties
<1>3. Elements(s \o t) \subseteq Elements(s) \cup Elements(t)
  BY <1>1, <1>2 DEF Elements
<1>4. Elements(s) \subseteq Elements(s \o t)
  BY <1>1, <1>2 DEF Elements
<1>5. Elements(t) \subseteq Elements(s \o t)
  <2> SUFFICES ASSUME NEW i \in DOMAIN t
               PROVE  t[i] \in Elements(s \o t)
    BY DEF Elements
  <2>1. i + Len(s) \in DOMAIN (s \o t) /\ (s \o t)[i + Len(s)] = t[i]
    BY <1>1, <1>2
  <2> QED
    BY <2>1 DEF Elements
<1>6. ASSUME Distinct(s), Distinct(t), Elements(s) \cap Elements(t) = {}
      PROVE  Distinct(s \o t)
  <2>1. \A i \in DOMAIN s, j \in DOMAIN t : s[i] # t[j]
    BY <1>6 DEF Elements
  <2> QED
    BY <1>1, <1>2, <1>6, <2>1 DEF Distinct
<1> QED
  BY <1>1, <1>3, <1>4, <1>5, <1>6

LEMMA WithoutElements ==
  ASSUME NEW S, NEW s \in Seq(S), NEW x, Distinct(s)
  PROVE  /\ Without(s, x) \in Seq(S)
         /\ Elements(Without(s, x)) = Elements(s) \ {x}
         /\ Distinct(Without(s, x))
<1>0. Len(s) \in Nat /\ DOMAIN s = 1..Len(s) /\ \A i \in 1..Len(s) : s[i] \in S
  BY LenProperties, ElementOfSeq
<1>1. CASE x \notin Elements(s)
  BY <1>1 DEF Without
<1>2. CASE x \in Elements(s)
  <2>1. PICK k \in DOMAIN s : s[k] = x /\ k = CHOOSE i \in DOMAIN s : s[i] = x
    BY <1>2 DEF Elements
  <2>2. PICK n \in Nat : /\ n = Len(s) - 1 /\ k \in 1..(n + 1)
                         /\ DOMAIN s = 1..(n + 1)
                         /\ \A i \in 1..(n + 1) : s[i] \in S
    <3>1. k \in Nat /\ 1 <= k /\ k <= Len(s)
      BY <1>0, <2>1
    <3>2. Len(s) - 1 \in Nat
      BY <1>0, <3>1
    <3>3. (Len(s) - 1) + 1 = Len(s)
      BY <1>0
    <3> QED
      BY <1>0, <2>1, <3>2, <3>3, Zenon
  <2>3. PICK w : w = [i \in 1..n |-> IF i < k THEN s[i] ELSE s[i + 1]]
    OBVIOUS
  <2>4. Without(s, x) = w
    BY <1>2, <2>1, <2>2, <2>3 DEF Without
  <2>5. w \in [1..n -> S]
    BY <1>0, <2>1, <2>2, <2>3
  <2>6. w \in Seq(S) /\ Len(w) = n /\ DOMAIN w = 1..n
    BY <2>2, <2>5, IsASeq, LenProperties
  <2>7. \A i \in 1..n : w[i] = IF i < k THEN s[i] ELSE s[i + 1]
    BY <2>3
  <2>8. \A i \in DOMAIN s : s[i] = x => i = k
    BY <2>1 DEF Distinct
  <2>9. Elements(w) \subseteq Elements(s) \ {x}
    <3> SUFFICES ASSUME NEW i \in 1..n
                 PROVE  w[i] \in Elements(s) \ {x}
      BY <2>6 DEF Elements
    <3>1. CASE i < k
      <4>1. i \in DOMAIN s /\ w[i] = s[i] /\ i # k
        BY <2>2, <2>7, <3>1
      <4> QED
        BY <2>8, <4>1 DEF Elements
    <3>2. CASE ~(i < k)
      <4>1. i + 1 \in DOMAIN s /\ w[i] = s[i + 1] /\ i + 1 # k
        BY <2>2, <2>7, <3>2
      <4> QED
        BY <2>8, <4>1 DEF Elements
    <3> QED
      BY <3>1, <3>2
  <2>10. Elements(s) \ {x} \subseteq Elements(w)
    <3> SUFFICES ASSUME NEW i \in DOMAIN s, i # k
                 PROVE  s[i] \in Elements(w)
      BY <2>1 DEF Elements
    <3>1. CASE i < k
      <4>1. i \in DOMAIN w /\ w[i] = s[i]
        BY <1>0, <2>1, <2>2, <2>6, <2>7, <3>1
      <4> QED
        BY <4>1 DEF Elements
    <3>2. CASE i > k
      <4>1. i - 1 \in 1..n /\ ~(i - 1 < k) /\ (i - 1) + 1 = i
        BY <2>2, <3>2
      <4>2. w[i - 1] = s[(i - 1) + 1]
        BY <2>7, <4>1
      <4>3. i - 1 \in DOMAIN w /\ w[i - 1] = s[i]
        BY <2>6, <4>1, <4>2
      <4> QED
        BY <4>3 DEF Elements
    <3> QED
      BY <2>2, <3>1, <3>2
  <2>11. Distinct(w)
    <3> SUFFICES ASSUME NEW i \in 1..n, NEW j \in 1..n, i < j
                 PROVE  w[i] # w[j]
      BY <2>6 DEF Distinct
    <3>1. PICK a \in 1..(n + 1) : w[i] = s[a] /\ a = IF i < k THEN i ELSE i + 1
      BY <2>7
    <3>2. PICK b \in 1..(n + 1) : w[j] = s[b] /\ b = IF j < k THEN j ELSE j + 1
      BY <2>7
    <3>3. a # b
      BY <2>2, <3>1, <3>2
    <3> QED
      BY <2>2, <3>1, <3>2, <3>3 DEF Distinct
  <2> QED
    BY <2>4, <2>6, <2>9, <2>10, <2>11
<1> QED
  BY <1>1, <1>2

LEMMA JoinedThree ==
  ASSUME NEW S, NEW a \in Seq(S), NEW b \in Seq(S), NEW c \in Seq(S),
         Distinct(a), Distinct(b), Distinct(c), Elements(a) \cap Elements(b) = {},
         Elements(a) \cap Elements(c) = {}, Elements(b) \cap Elements(c) = {}
  PROVE  /\ a \o b \o c \in Seq(S) /\ Distinct(a \o b \o c)
         /\ Elements(a \o b \o c) = Elements(a) \cup Elements(b) \cup Elements(c)
<1>1. a \o b \in Seq(S)
  BY ConcatElements
<1>2. Elements(a \o b) = Elements(a) \cup Elements(b)
  BY ConcatElements
<1>3. Distinct(a \o b)
  BY ConcatElements
<1>4. PICK d \in Seq(S) : d = a \o b
  BY <1>1
<1>5. Distinct(d) /\ Elements(d) \cap Elements(c) = {}
  BY <1>2, <1>3, <1>4
<1>6. d \o c \in Seq(S)
  BY ConcatElements
<1>7. Elements(d \o c) = Elements(d) \cup Elements(c)
  BY ConcatElements
<1>8. Distinct(d \o c)
  BY <1>5, ConcatElements
<1> QED
  BY <1>2, <1>4, <1>6, <1>7, <1>8

LEMMA SingleElement ==
  ASSUME NEW S, NEW x \in S
  PROVE  <<x>> \in Seq(S) /\ Elements(<<x>>) = {x} /\ Distinct(<<x>>)
<1>1. <<x>> \in Seq(S) /\ DOMAIN <<x>> = {1} /\ <<x>>[1] = x
  OBVIOUS
<1> QED
  BY <1>1 DEF Elements, Distinct

LEMMA EmptyElements == Elements(<<>>) = {} /\ Distinct(<<>>)
BY DEF Elements, Distinct

LEMMA ElementsIn ==
  ASSUME NEW S, NEW s \in Seq(S)
  PROVE  Elements(s) \subseteq S
BY LenProperties, ElementOfSeq DEF Elements

-----------------------------------------------------------------------------
(* What the parts of the invariant need of a step.                         *)

places == <<interactive, background, spawned, waiters, holding, ending>>

LEMMA SamePlaces ==
  ASSUME Inv, UNCHANGED places
  PROVE  /\ Once' /\ Lined' /\ Present' = Present
         /\ interactive' \in Seq(Requests) /\ background' \in Seq(Requests)
         /\ spawned' \in Seq(Requests) /\ waiters' \in [Stages -> Seq(Requests)]
         /\ holding' \subseteq Requests /\ ending' \subseteq Requests
<1> USE DEF places
<1>1. Queued' = Queued /\ Live' = Live /\ Started' = Started
  BY DEF Queued, Live, Started, Waiting
<1>2. Once' /\ Present' = Present
  BY <1>1 DEF Inv, Once, Present
<1>3. Lined'
  BY DEF Inv, Lined
<1> QED
  BY <1>2, <1>3 DEF Inv, Types

\* Nothing new is registered, queued or started.
LEMMA Fewer ==
  ASSUME Inv, Types', Once', Lined', Covered', Quiet',
         registered' \subseteq registered, Present' \subseteq Present,
         \A r \in Requests : caller'[r] = "idle" => caller[r] = "idle" /\ queue'[r] = queue[r],
         \A r \in Streaming : queue'[r] = queue[r] \/ Over(r)'
  PROVE  Inv'
<1>1. Unborn'
  BY DEF Inv, Unborn
<1>2. Terminated'
  <2> SUFFICES ASSUME NEW r \in Streaming, queue'[r] = queue[r]
               PROVE  Over(r)'
    BY DEF Terminated
  <2>1. Over(r)
    BY DEF Inv, Terminated
  <2> QED
    BY <2>1 DEF Over
<1> QED
  BY <1>1, <1>2 DEF Inv

\* A request that is registered or present has only emitted chunks.
LEMMA OnlyChunks ==
  ASSUME Inv, NEW r \in Streaming, r \in registered \/ r \in Present
  PROVE  \A i \in DOMAIN queue[r] : queue[r][i] = "chunk"
BY DEF Inv, Terminated, Over

LEMMA StreamingRequests == Streaming \subseteq Requests
BY CoordinatorAssumption

\* A terminal item may be appended when the request goes.
LEMMA LastItem ==
  ASSUME Inv, NEW r \in Streaming, r \in registered \/ r \in Present,
         NEW x \in Items, queue'[r] = Append(queue[r], x),
         r \notin registered', r \notin Present'
  PROVE  Over(r)'
<1>1. queue[r] \in Seq(Items)
  BY StreamingRequests DEF Inv, Types
<1>2. PICK q \in Seq(Items) : q = queue[r]
  BY <1>1
<1>3. \A i \in DOMAIN q : q[i] = "chunk"
  BY <1>2, OnlyChunks
<1>4. /\ Len(Append(q, x)) = Len(q) + 1 /\ Len(q) \in Nat
      /\ DOMAIN q = 1..Len(q) /\ DOMAIN Append(q, x) = 1..(Len(q) + 1)
      /\ \A i \in 1..Len(q) : Append(q, x)[i] = q[i]
  BY AppendProperties, LenProperties
<1>5. \A i \in DOMAIN Append(q, x) :
        Append(q, x)[i] # "chunk" => i = Len(Append(q, x))
  BY <1>3, <1>4
<1> QED
  BY <1>2, <1>5 DEF Over

\* A chunk may be appended while the request runs.
LEMMA NextChunk ==
  ASSUME Inv, NEW r \in Streaming, r \in registered \/ r \in Present,
         queue'[r] = Append(queue[r], "chunk")
  PROVE  Over(r)'
<1>1. queue[r] \in Seq(Items)
  BY StreamingRequests DEF Inv, Types
<1>2. PICK q \in Seq(Items) : q = queue[r]
  BY <1>1
<1>3. \A i \in DOMAIN q : q[i] = "chunk"
  BY <1>2, OnlyChunks
<1>4. /\ Len(q) \in Nat
      /\ DOMAIN q = 1..Len(q) /\ DOMAIN Append(q, "chunk") = 1..(Len(q) + 1)
      /\ \A i \in 1..Len(q) : Append(q, "chunk")[i] = q[i]
      /\ Append(q, "chunk")[Len(q) + 1] = "chunk"
  BY AppendProperties, LenProperties DEF Items
<1>5. \A i \in DOMAIN Append(q, "chunk") : Append(q, "chunk")[i] = "chunk"
  BY <1>3, <1>4
<1> QED
  BY <1>2, <1>5 DEF Over

\* What the consumer has not read yet.
LEMMA Rest ==
  ASSUME Inv, NEW r \in Streaming, queue[r] # <<>>, queue'[r] = Tail(queue[r]),
         registered' \subseteq registered, Present' \subseteq Present
  PROVE  Over(r)'
<1>1. PICK q \in Seq(Items) : q = queue[r]
  BY StreamingRequests DEF Inv, Types
<1>2. /\ Len(q) \in Nat /\ Len(q) > 0 /\ DOMAIN q = 1..Len(q)
      /\ Len(Tail(q)) = Len(q) - 1 /\ DOMAIN Tail(q) = 1..(Len(q) - 1)
      /\ \A i \in 1..(Len(q) - 1) : Tail(q)[i] = q[i + 1]
  BY <1>1, HeadTailProperties, EmptySeq, LenProperties
<1>3. \A i \in DOMAIN q : q[i] # "chunk" =>
        i = Len(q) /\ r \notin registered /\ r \notin Present
  BY <1>1 DEF Inv, Terminated, Over
<1>4. ASSUME NEW i \in DOMAIN Tail(q), Tail(q)[i] # "chunk"
      PROVE  i = Len(Tail(q)) /\ r \notin registered /\ r \notin Present
  <2>1. i + 1 \in DOMAIN q /\ q[i + 1] # "chunk"
    BY <1>2, <1>4
  <2>2. i + 1 = Len(q) /\ r \notin registered /\ r \notin Present
    BY <1>3, <2>1
  <2> QED
    BY <1>2, <2>2
<1> QED
  BY <1>1, <1>4 DEF Over

-----------------------------------------------------------------------------
(* Steps that move no request.                                             *)

LEMMA CalmStep ==
  ASSUME Inv, UNCHANGED places, queue' = queue, registered' \subseteq registered,
         caller' \in [Requests -> Callers],
         \A r \in Requests : caller'[r] = "idle" => caller[r] = "idle",
         life' = "open" => life = "open" /\ registered' = registered,
         Quiet'
  PROVE  Inv'
<1>1. Types'
  BY SamePlaces DEF Inv, Types
<1>2. Covered'
  BY SamePlaces DEF Inv, Covered
<1> QED
  BY <1>1, <1>2, SamePlaces, Fewer

LEMMA CallerSet ==
  ASSUME Types, NEW r \in Requests, NEW c \in Callers \ {"idle"},
         caller' = [caller EXCEPT ![r] = c]
  PROVE  /\ caller' \in [Requests -> Callers]
         /\ \A q \in Requests : caller'[q] = "idle" => q # r /\ caller[q] = "idle"
BY DEF Types

LEMMA RejectStep ==
  ASSUME Inv, NEW r \in Requests, Reject(r)
  PROVE  Inv'
<1>1. /\ caller' \in [Requests -> Callers]
      /\ \A q \in Requests : caller'[q] = "idle" => caller[q] = "idle"
  BY CallerSet DEF Reject, Inv, Callers
<1>2. UNCHANGED places /\ queue' = queue
  BY DEF Reject, schedVars, taskVars, queueVars, places
<1>3. UNCHANGED <<registered, life, idle, drainer, draining>>
  BY DEF Reject, ctlVars
<1>4. Quiet'
  BY <1>3 DEF Inv, Quiet
<1> QED
  BY <1>1, <1>2, <1>3, <1>4, CalmStep

LEMMA AbandonSubmitStep ==
  ASSUME Inv, NEW r \in Requests, AbandonSubmit(r)
  PROVE  Inv'
<1>1. UNCHANGED places /\ queue' = queue /\ caller' = caller
  BY DEF AbandonSubmit, schedVars, taskVars, queueVars, places
<1>2. UNCHANGED <<registered, life, idle, drainer, draining>>
  BY DEF AbandonSubmit, ctlVars
<1>3. Quiet'
  BY <1>2 DEF Inv, Quiet
<1> QED
  BY <1>1, <1>2, <1>3, CalmStep DEF Inv, Types

LEMMA ControlStep ==
  ASSUME Inv, DrainStart \/ DrainReturn \/ DrainTimeout \/ Resume
  PROVE  Inv'
<1>1. UNCHANGED places /\ queue' = queue /\ caller' = caller
  BY DEF DrainStart, DrainReturn, DrainTimeout, Resume, reqVars, schedVars, taskVars,
         queueVars, places
<1>2. UNCHANGED <<registered, life>>
  BY DEF DrainStart, DrainReturn, DrainTimeout, Resume, reqVars
<1>3. Quiet'
  <2>1. CASE DrainStart
    BY <1>2, <2>1 DEF DrainStart, Inv, Quiet
  <2>2. CASE DrainReturn \/ DrainTimeout \/ Resume
    BY <1>2, <2>2 DEF DrainReturn, DrainTimeout, Resume, Inv, Quiet
  <2> QED
    BY <2>1, <2>2
<1> QED
  BY <1>1, <1>2, <1>3, CalmStep DEF Inv, Types

LEMMA CloseStep ==
  ASSUME Inv, CloseBegin \/ CloseEnd
  PROVE  Inv'
<1>1. UNCHANGED places /\ queue' = queue /\ caller' = caller
  BY DEF CloseBegin, CloseEnd, schedVars, queueVars, places
<1>2. /\ registered' \subseteq registered /\ life' # "open"
      /\ UNCHANGED <<idle, drainer>>
  BY DEF CloseBegin, CloseEnd
<1>3. Quiet'
  BY <1>2 DEF Inv, Quiet
<1> QED
  BY <1>1, <1>2, <1>3, CalmStep DEF Inv, Types

LEMMA StutterStep ==
  ASSUME Inv, UNCHANGED vars
  PROVE  Inv'
<1>1. UNCHANGED places /\ queue' = queue /\ caller' = caller
  BY DEF vars, reqVars, schedVars, taskVars, queueVars, places
<1>2. UNCHANGED <<registered, life, idle, drainer, draining>>
  BY DEF vars, reqVars, ctlVars
<1>3. Quiet'
  BY <1>2 DEF Inv, Quiet
<1> QED
  BY <1>1, <1>2, <1>3, CalmStep DEF Inv, Types

-----------------------------------------------------------------------------
(* The queue of a stream.                                                  *)

LEMMA ProduceChunkStep ==
  ASSUME Inv, NEW r \in Requests, ProduceChunk(r)
  PROVE  Inv'
<1>0. Types
  BY DEF Inv
<1>1. /\ UNCHANGED places /\ caller' = caller
      /\ UNCHANGED <<registered, life, idle, drainer, draining>>
  BY DEF ProduceChunk, reqVars, schedVars, taskVars, ctlVars, places
<1>2. r \in Streaming /\ r \in Present
  BY DEF ProduceChunk, Undisturbed, Present, Live
<1>3. PICK q \in Seq(Items) : q = queue[r]
  BY <1>0 DEF Types
<1>4. Append(q, "chunk") \in Seq(Items)
  BY AppendProperties DEF Items
<1>5. queue' = [queue EXCEPT ![r] = Append(q, "chunk")]
  BY <1>0, <1>3 DEF ProduceChunk, Types
<1>6. /\ queue' \in [Requests -> Seq(Items)]
      /\ queue'[r] = Append(queue[r], "chunk")
      /\ \A x \in Requests \ {r} : queue'[x] = queue[x]
  BY <1>0, <1>3, <1>4, <1>5 DEF Types
<1>7. Types'
  BY <1>0, <1>1, <1>6, SamePlaces DEF Types
<1>8. Covered' /\ Quiet'
  BY <1>1, SamePlaces DEF Inv, Covered, Quiet
<1>9. \A x \in Streaming : queue'[x] = queue[x] \/ Over(x)'
  BY <1>2, <1>6, NextChunk, StreamingRequests
<1>10. caller[r] # "idle"
  BY <1>2 DEF Inv, Unborn
<1> QED
  BY <1>1, <1>6, <1>7, <1>8, <1>9, <1>10, SamePlaces, Fewer

\* A caller that waits reads its queue, or leaves it.
LEMMA OnlyQueueStep ==
  ASSUME Inv, NEW r \in Requests, NEW q \in Seq(Items), OnlyQueue(r, q),
         caller[r] = "waiting", caller' \in [Requests -> Callers],
         \A x \in Requests : caller'[x] = "idle" => x # r /\ caller[x] = "idle",
         q = queue[r] \/ (queue[r] # <<>> /\ q = Tail(queue[r]))
  PROVE  Inv'
<1>0. Types
  BY DEF Inv
<1>1. UNCHANGED places /\ UNCHANGED <<registered, life, idle, drainer, draining>>
  BY DEF OnlyQueue, schedVars, taskVars, ctlVars, places
<1>2. /\ queue' \in [Requests -> Seq(Items)]
      /\ queue'[r] = q
      /\ \A x \in Requests \ {r} : queue'[x] = queue[x]
  BY <1>0 DEF OnlyQueue, Types
<1>3. Types'
  BY <1>0, <1>1, <1>2, SamePlaces DEF Types
<1>4. Covered' /\ Quiet'
  BY <1>1, SamePlaces DEF Inv, Covered, Quiet
<1>5. \A x \in Streaming : queue'[x] = queue[x] \/ Over(x)'
  BY <1>1, <1>2, Rest, SamePlaces, StreamingRequests
<1> QED
  BY <1>1, <1>2, <1>3, <1>4, <1>5, SamePlaces, Fewer

\* cancel() withdraws a queued entry, which is told so; a task is only marked.  What is
\* left of the stream's queue is q.
LEMMA CancelStep ==
  ASSUME Inv, NEW r \in Requests, NEW q \in Seq(Items), r \in registered,
         CancelEffect(r, q), caller' \in [Requests -> Callers],
         \A x \in Requests : caller'[x] = "idle" => caller[x] = "idle",
         r \in Streaming => q = queue[r]
  PROVE  Inv'
<1>0. Types /\ caller[r] # "idle"
  BY DEF Inv, Unborn
<1>1. UNCHANGED <<spawned, waiters, holding, ending, life, idle, drainer, draining>>
  BY DEF CancelEffect, ctlVars
<1>2. CASE r \notin Queued
  <2>1. UNCHANGED places /\ registered' = registered
    BY <1>1, <1>2 DEF CancelEffect, places
  <2>2. /\ queue' \in [Requests -> Seq(Items)]
        /\ queue'[r] = q
        /\ \A x \in Requests \ {r} : queue'[x] = queue[x]
    BY <1>0, <1>2 DEF CancelEffect, Types
  <2>3. Types'
    BY <1>0, <2>1, <2>2, SamePlaces DEF Types
  <2>4. Covered' /\ Quiet'
    BY <1>1, <2>1, SamePlaces DEF Inv, Covered, Quiet
  <2>5. \A x \in Streaming : queue'[x] = queue[x]
    BY <2>2, StreamingRequests
  <2> QED
    BY <1>0, <2>1, <2>2, <2>3, <2>4, <2>5, SamePlaces, Fewer
<1>3. CASE r \in Queued
  <2>1. /\ interactive' = Without(interactive, r)
        /\ background' = Without(background, r)
        /\ registered' = registered \ {r}
        /\ queue' = [queue EXCEPT ![r] = IF r \in Streaming THEN Append(q, "failure") ELSE q]
    BY <1>3 DEF CancelEffect
  <2>2. /\ interactive' \in Seq(Requests) /\ Distinct(interactive')
        /\ Elements(interactive') = Elements(interactive) \ {r}
    BY <1>0, <2>1, WithoutElements DEF Inv, Types, Once
  <2>3. /\ background' \in Seq(Requests) /\ Distinct(background')
        /\ Elements(background') = Elements(background) \ {r}
    BY <1>0, <2>1, WithoutElements DEF Inv, Types, Once
  <2>4. Queued' = Queued \ {r} /\ Live' = Live /\ Started' = Started
    BY <1>1, <2>2, <2>3 DEF Queued, Live, Started, Waiting
  <2>5. Present' = Present \ {r}
    BY <1>3, <2>4 DEF Inv, Once, Present
  <2>6. Once'
    BY <1>1, <2>2, <2>3, <2>4 DEF Inv, Once
  <2>7. Lined'
    BY <1>1 DEF Inv, Lined
  <2>8. Covered' /\ Quiet'
    BY <1>1, <2>1, <2>5 DEF Inv, Covered, Quiet
  <2>9. Append(q, "failure") \in Seq(Items)
    BY AppendProperties DEF Items
  <2>10. /\ queue' \in [Requests -> Seq(Items)]
         /\ r \in Streaming => queue'[r] = Append(queue[r], "failure")
         /\ \A x \in Requests \ {r} : queue'[x] = queue[x]
    BY <1>0, <2>1, <2>9 DEF Types
  <2>11. Types'
    BY <1>0, <1>1, <2>1, <2>2, <2>3, <2>10 DEF Types
  <2>12. \A x \in Streaming : queue'[x] = queue[x] \/ Over(x)'
    <3>1. ASSUME r \in Streaming
          PROVE  Over(r)'
      BY <2>1, <2>5, <2>10, <3>1, LastItem DEF Items
    <3> QED
      BY <2>10, <3>1, StreamingRequests
  <2> QED
    BY <1>0, <2>1, <2>5, <2>6, <2>7, <2>8, <2>10, <2>11, <2>12, Fewer
<1> QED
  BY <1>2, <1>3

LEMMA CancelRequestStep ==
  ASSUME Inv, NEW r \in Requests, CancelRequest(r)
  PROVE  Inv'
<1>1. PICK q \in Seq(Items) : q = queue[r]
  BY DEF Inv, Types
<1>2. CancelEffect(r, q) /\ r \in registered /\ caller' = caller
  BY <1>1 DEF CancelRequest
<1> QED
  BY <1>1, <1>2, CancelStep DEF Inv, Types

LEMMA ResumeSubmitStep ==
  ASSUME Inv, NEW r \in Requests, ResumeSubmit(r)
  PROVE  Inv'
<1>0. Types
  BY DEF Inv
<1>1. PICK q \in Seq(Items) : q = queue[r]
  BY <1>0 DEF Types
<1>2. PICK c \in Callers \ {"idle"} : caller' = [caller EXCEPT ![r] = c]
  BY DEF ResumeSubmit, Callers
<1>3. /\ caller' \in [Requests -> Callers]
      /\ \A x \in Requests : caller'[x] = "idle" => x # r /\ caller[x] = "idle"
  BY <1>0, <1>2, CallerSet
<1>4. \/ r \in registered /\ CancelEffect(r, q)
      \/ OnlyQueue(r, q)
  BY <1>1 DEF ResumeSubmit, CancelIfRegistered
<1>5. caller[r] = "waiting"
  BY DEF ResumeSubmit
<1> QED
  BY <1>1, <1>3, <1>4, <1>5, CancelStep, OnlyQueueStep

LEMMA AbandonStreamStep ==
  ASSUME Inv, NEW r \in Requests, AbandonStream(r)
  PROVE  Inv'
<1>0. Types
  BY DEF Inv
<1>1. PICK q \in Seq(Items) : q = queue[r]
  BY <1>0 DEF Types
<1>2. PICK c \in Callers \ {"idle"} : caller' = [caller EXCEPT ![r] = c]
  BY DEF AbandonStream, Callers
<1>3. /\ caller' \in [Requests -> Callers]
      /\ \A x \in Requests : caller'[x] = "idle" => x # r /\ caller[x] = "idle"
  BY <1>0, <1>2, CallerSet
<1>4. \/ r \in registered /\ CancelEffect(r, q)
      \/ OnlyQueue(r, q)
  BY <1>1 DEF AbandonStream, CancelIfRegistered
<1>5. caller[r] = "waiting"
  BY DEF AbandonStream
<1> QED
  BY <1>1, <1>3, <1>4, <1>5, CancelStep, OnlyQueueStep

\* A terminal item is read when the request is no longer registered.
LEMMA ReadStreamStep ==
  ASSUME Inv, NEW r \in Requests, ReadStream(r)
  PROVE  Inv'
<1>0. Types
  BY DEF Inv
<1>1. queue[r] \in Seq(Items) /\ queue[r] # <<>> /\ caller[r] = "waiting"
  BY <1>0 DEF Types, ReadStream
<1>2. PICK q \in Seq(Items) : q = Tail(queue[r])
  BY <1>1, HeadTailProperties
<1>3. CASE Head(queue[r]) = "chunk"
  <2>1. OnlyQueue(r, q) /\ caller' = caller
    BY <1>2, <1>3 DEF ReadStream
  <2> QED
    BY <1>0, <1>1, <1>2, <2>1, OnlyQueueStep DEF Types
<1>4. CASE Head(queue[r]) # "chunk"
  <2>1. PICK c \in Callers \ {"idle"} : caller' = [caller EXCEPT ![r] = c]
    BY <1>4 DEF ReadStream, Callers
  <2>2. /\ caller' \in [Requests -> Callers]
        /\ \A x \in Requests : caller'[x] = "idle" => x # r /\ caller[x] = "idle"
    BY <1>0, <2>1, CallerSet
  <2>3. \/ r \in registered /\ CancelEffect(r, q)
        \/ OnlyQueue(r, q)
    BY <1>2, <1>4 DEF ReadStream, CancelIfRegistered
  <2>4. r \in Streaming => r \notin registered
    <3>1. 1 \in DOMAIN queue[r] /\ queue[r][1] # "chunk"
      BY <1>1, <1>4, EmptySeq, LenProperties
    <3> QED
      BY <3>1, OnlyChunks
  <2> QED
    BY <1>1, <1>2, <2>2, <2>3, <2>4, CancelStep, OnlyQueueStep
<1> QED
  BY <1>3, <1>4

-----------------------------------------------------------------------------
(* Tasks that end or leave their stage.                                    *)

LEMMA Stage ==
  ASSUME NEW r \in Requests
  PROVE  StageOf[r] \in Stages
BY CoordinatorAssumption

\* Who leaves a stage is neither in it nor waiting for it; who takes the slot was waiting.
LEMMA LeftStage ==
  ASSUME Inv, NEW r \in Requests, LeaveStage(r)
  PROVE  /\ waiters' \in [Stages -> Seq(Requests)]
         /\ holding' \subseteq Requests
         /\ Lined'
         /\ (Waiting \cup holding)' \subseteq (Waiting \cup holding) \ {r}
<1>0. Types /\ Lined
  BY DEF Inv
<1>1. PICK s \in Stages : s = StageOf[r]
  BY Stage
<1>2. PICK w \in Seq(Requests) : w = waiters[s] /\ Distinct(w)
  BY <1>0 DEF Types, Lined
<1>3. PICK v \in Seq(Requests) :
        /\ v = Without(w, r) /\ Distinct(v) /\ Elements(v) = Elements(w) \ {r}
  BY <1>2, WithoutElements
<1>4. PICK new \in Seq(Requests) :
        /\ waiters' = [waiters EXCEPT ![s] = new]
        /\ Distinct(new)
        /\ Elements(new) \subseteq Elements(w) \ {r}
        /\ holding' \subseteq (holding \cup Elements(w)) \ {r}
  <2> DEFINE heirs == IF r \in holding THEN WantsSlot(s) \ {r} ELSE {}
  <2>1. CASE heirs = {}
    <3>1. holding' = holding \ {r} /\ waiters' = [waiters EXCEPT ![s] = v]
      BY <1>1, <1>2, <1>3, <2>1 DEF LeaveStage
    <3> QED
      BY <1>3, <3>1
  <2>2. CASE heirs # {}
    <3>1. PICK h \in heirs : /\ holding' = (holding \ {r}) \cup {h}
                             /\ waiters' = [waiters EXCEPT ![s] = Without(v, h)]
      BY <1>1, <1>2, <1>3, <2>2 DEF LeaveStage
    <3>2. h \in Elements(w) /\ h # r
      BY <1>2 DEF WantsSlot
    <3>3. PICK u \in Seq(Requests) :
            /\ u = Without(v, h) /\ Distinct(u) /\ Elements(u) = Elements(v) \ {h}
      BY <1>3, WithoutElements
    <3> QED
      BY <1>3, <3>1, <3>2, <3>3
  <2> QED
    BY <2>1, <2>2
<1>5. /\ waiters' \in [Stages -> Seq(Requests)]
      /\ waiters'[s] = new
      /\ \A t \in Stages \ {s} : waiters'[t] = waiters[t]
  BY <1>0, <1>4 DEF Types
<1>6. Elements(w) \subseteq Requests
  BY ElementsIn
<1>7. holding' \subseteq Requests
  BY <1>0, <1>4, <1>6 DEF Types
<1>8. Lined'
  BY <1>0, <1>2, <1>4, <1>5 DEF Lined
<1>9. Elements(w) \subseteq Waiting
  BY <1>2 DEF Waiting
<1>10. Waiting' \subseteq Waiting \ {r}
  <2> SUFFICES ASSUME NEW t \in Stages, NEW x \in Elements(waiters'[t])
               PROVE  x \in Waiting /\ x # r
    BY DEF Waiting
  <2>1. CASE t = s
    BY <1>4, <1>5, <1>9, <2>1
  <2>2. CASE t # s
    <3>1. x \in Elements(waiters[t])
      BY <1>5, <2>2
    <3>2. x # r
      BY <1>0, <1>1, <2>2, <3>1 DEF Lined
    <3> QED
      BY <3>1, <3>2 DEF Waiting
  <2> QED
    BY <2>1, <2>2
<1> QED
  BY <1>4, <1>5, <1>7, <1>8, <1>9, <1>10

\* The finally block of a task: the request is gone from everywhere at once.
LEMMA FinishStep ==
  ASSUME Inv, NEW r \in Requests, r \in Started, NEW outcome, FinishTask(r, outcome),
         queue' \in [Requests -> Seq(Items)],
         \A x \in Requests \ {r} : queue'[x] = queue[x],
         \/ queue'[r] = queue[r]
         \/ \E item \in Items : queue'[r] = Append(queue[r], item)
  PROVE  Inv'
<1>0. Types /\ Once /\ r \in Present /\ r \in Live
  BY DEF Inv, Started, Present, Live
<1>1. /\ UNCHANGED <<caller, interactive, background, spawned, draining, life>>
      /\ registered' = registered \ {r} /\ ending' = ending \ {r}
  BY DEF FinishTask
<1>2. /\ waiters' \in [Stages -> Seq(Requests)]
      /\ holding' \subseteq Requests
      /\ Lined'
      /\ (Waiting \cup holding)' \subseteq (Waiting \cup holding) \ {r}
  BY LeftStage DEF FinishTask
<1>3. Started' \subseteq Started \ {r} /\ Queued' = Queued
  BY <1>1, <1>2 DEF Started, Queued
<1>4. r \notin Elements(spawned) /\ r \notin Queued
  BY <1>0 DEF Once
<1>5. /\ Live' \subseteq Live \ {r}
      /\ Present' \subseteq Present \ {r}
  BY <1>1, <1>3, <1>4 DEF Live, Present, Started
<1>6. Once'
  BY <1>0, <1>1, <1>3, <1>5 DEF Once
<1>7. Types'
  BY <1>0, <1>1, <1>2 DEF Types
<1>8. Covered'
  BY <1>1, <1>5 DEF Inv, Covered
<1>9. Quiet'
  <2>1. /\ idle' = (idle \/ registered \ {r} = {})
        /\ drainer' = IF registered \ {r} = {} /\ drainer = "waiting" THEN "woken"
                                                                     ELSE drainer
    BY DEF FinishTask, SetIdleIfEmpty
  <2>2. CASE registered \ {r} = {}
    BY <1>1, <2>2 DEF Quiet
  <2>3. CASE registered \ {r} # {}
    <3>1. (idle' => idle) /\ drainer' = drainer
      BY <2>1, <2>3
    <3> QED
      BY <1>1, <3>1 DEF Inv, Quiet
  <2> QED
    BY <2>2, <2>3
<1>10. \A x \in Streaming : queue'[x] = queue[x] \/ Over(x)'
  <2>1. ASSUME r \in Streaming
        PROVE  queue'[r] = queue[r] \/ Over(r)'
    BY <1>0, <1>1, <1>5, <2>1, LastItem
  <2> QED
    BY <2>1, StreamingRequests
<1>11. caller[r] # "idle"
  BY <1>0 DEF Inv, Unborn
<1> QED
  BY <1>1, <1>2, <1>5, <1>6, <1>7, <1>8, <1>9, <1>10, <1>11, Fewer

LEMMA QueueAppend ==
  ASSUME Types, NEW r \in Requests, NEW item \in Items,
         queue' = [queue EXCEPT ![r] = Append(@, item)]
  PROVE  /\ queue' \in [Requests -> Seq(Items)]
         /\ \A x \in Requests \ {r} : queue'[x] = queue[x]
         /\ queue'[r] = Append(queue[r], item)
<1>1. PICK q \in Seq(Items) : q = queue[r]
  BY DEF Types
<1>2. Append(q, item) \in Seq(Items)
  BY AppendProperties
<1>3. queue' = [queue EXCEPT ![r] = Append(q, item)]
  BY <1>1 DEF Types
<1> QED
  BY <1>1, <1>2, <1>3 DEF Types

LEMMA CompleteStep ==
  ASSUME Inv, NEW r \in Requests, Complete(r)
  PROVE  Inv'
<1>1. r \in Started /\ FinishTask(r, "ok") /\ queue' = queue
  BY DEF Complete, Undisturbed, Started, queueVars
<1>2. queue \in [Requests -> Seq(Items)]
  BY DEF Inv, Types
<1> QED
  BY <1>1, <1>2, FinishStep

LEMMA PutDoneStep ==
  ASSUME Inv, NEW r \in Requests, PutDone(r)
  PROVE  Inv'
<1>1. /\ r \in Started /\ FinishTask(r, "ok")
      /\ queue' = [queue EXCEPT ![r] = Append(@, "done")]
  BY DEF PutDone, Started
<1>2. Types /\ "done" \in Items
  BY DEF Inv, Items
<1> QED
  BY <1>1, <1>2, QueueAppend, FinishStep

\* A failed or cancelled task: the failure item is put, or dropped.
LEMMA FailedStep ==
  ASSUME Inv, NEW r \in Requests, r \in Started, FinishTask(r, "failed"),
         PutFailure(r) \/ queue' = queue
  PROVE  Inv'
<1>1. Types /\ "failure" \in Items
  BY DEF Inv, Items
<1>2. queue' = queue \/ queue' = [queue EXCEPT ![r] = Append(@, "failure")]
  BY DEF PutFailure
<1>3. CASE queue' = queue
  BY <1>1, <1>3, FinishStep DEF Types
<1>4. CASE queue' = [queue EXCEPT ![r] = Append(@, "failure")]
  BY <1>1, <1>4, QueueAppend, FinishStep
<1> QED
  BY <1>2, <1>3, <1>4

LEMMA FailStep ==
  ASSUME Inv, NEW r \in Requests, Fail(r)
  PROVE  Inv'
<1>1. r \in Started /\ FinishTask(r, "failed") /\ (PutFailure(r) \/ queue' = queue)
  BY DEF Fail, Undisturbed, Started
<1> QED
  BY <1>1, FailedStep

LEMMA HandleCancelStep ==
  ASSUME Inv, NEW r \in Requests, HandleCancel(r)
  PROVE  Inv'
<1>1. r \in Started /\ FinishTask(r, "failed") /\ (PutFailure(r) \/ queue' = queue)
  BY DEF HandleCancel, Started
<1> QED
  BY <1>1, FailedStep

\* A stream that ended against a full queue gives its slot up and stays alive.
LEMMA EndStreamStep ==
  ASSUME Inv, NEW r \in Requests, EndStream(r)
  PROVE  Inv'
<1>0. Types /\ Once /\ r \in holding /\ r \in Started /\ "done" \in Items
  BY DEF EndStream, Undisturbed, Inv, Started, Items
<1>1. CASE /\ queue' = [queue EXCEPT ![r] = Append(@, "done")]
           /\ FinishTask(r, "ok")
  BY <1>0, <1>1, QueueAppend, FinishStep
<1>2. CASE /\ LeaveStage(r)
           /\ ending' = ending \cup {r}
           /\ UNCHANGED <<reqVars, schedVars, dispatcher, spawned, doomed, queueVars, ctlVars>>
  <2>1. UNCHANGED <<registered, caller, queue, interactive, background, spawned,
                    draining, idle, drainer, life>>
    BY <1>2 DEF reqVars, schedVars, queueVars, ctlVars
  <2>2. /\ waiters' \in [Stages -> Seq(Requests)]
        /\ holding' \subseteq Requests
        /\ Lined'
        /\ (Waiting \cup holding)' \subseteq (Waiting \cup holding) \ {r}
    BY <1>2, LeftStage
  <2>3. Started' \subseteq Started /\ Queued' = Queued
    BY <1>0, <1>2, <2>1, <2>2 DEF Started, Queued
  <2>4. Live' \subseteq Live /\ Present' \subseteq Present
    BY <2>1, <2>3 DEF Live, Present, Started
  <2>5. Once'
    BY <1>0, <2>1, <2>3, <2>4 DEF Once
  <2>6. Types'
    BY <1>0, <1>2, <2>1, <2>2 DEF Types
  <2>7. Covered' /\ Quiet'
    BY <2>1, <2>4 DEF Inv, Covered, Quiet
  <2> QED
    BY <2>1, <2>2, <2>4, <2>5, <2>6, <2>7, Fewer
<1> QED
  BY <1>1, <1>2 DEF EndStream

-----------------------------------------------------------------------------
(* From the queue to a task, and from the task to its stage.               *)

\* Whether it takes a slot, waits for one, or dies unseen, the task has left spawned.
LEMMA StartTaskStep ==
  ASSUME Inv, StartTask
  PROVE  Inv'
<1>0. Types /\ Once /\ Lined
  BY DEF Inv
<1>1. PICK r : r = Head(spawned)
  OBVIOUS
<1>2. /\ r \in Requests /\ spawned' = Tail(spawned) /\ spawned' \in Seq(Requests)
      /\ Elements(spawned) = Elements(spawned') \cup {r}
      /\ Distinct(spawned') /\ r \notin Elements(spawned')
  BY <1>0, <1>1, TailElements DEF StartTask, Types, Once
<1>3. UNCHANGED <<registered, caller, queue, interactive, background, ending,
                  draining, idle, drainer, life>>
  BY DEF StartTask, reqVars, schedVars, queueVars, ctlVars
<1>4. PICK s \in Stages : s = StageOf[r]
  BY <1>2, Stage
<1>5. PICK w \in Seq(Requests) : w = waiters[s] /\ Distinct(w)
  BY <1>0 DEF Types, Lined
<1>6. r \notin Elements(w) /\ r \notin Queued
  BY <1>0, <1>2, <1>5 DEF Once, Started, Waiting, Live
<1>7. /\ waiters' \in [Stages -> Seq(Requests)]
      /\ Lined'
      /\ Waiting' \subseteq Waiting \cup {r}
  <2>1. CASE waiters' = waiters
    BY <1>0, <2>1 DEF Types, Lined, Waiting
  <2>2. CASE waiters' = [waiters EXCEPT ![s] = Append(@, r)]
    <3>1. /\ Append(w, r) \in Seq(Requests) /\ Distinct(Append(w, r))
          /\ Elements(Append(w, r)) = Elements(w) \cup {r}
      BY <1>2, <1>5, <1>6, AppendElements
    <3>2. /\ waiters' \in [Stages -> Seq(Requests)]
          /\ waiters'[s] = Append(w, r)
          /\ \A t \in Stages \ {s} : waiters'[t] = waiters[t]
      BY <1>0, <1>5, <2>2, <3>1 DEF Types
    <3>3. Lined'
      BY <1>0, <1>4, <1>5, <3>1, <3>2 DEF Lined
    <3>4. \A t \in Stages : Elements(waiters'[t]) \subseteq Elements(waiters[t]) \cup {r}
      BY <1>5, <3>1, <3>2
    <3>5. Waiting' \subseteq Waiting \cup {r}
      BY <3>4 DEF Waiting
    <3> QED
      BY <3>2, <3>3, <3>5
  <2> QED
    BY <1>1, <1>4, <2>1, <2>2 DEF StartTask
<1>8. holding' \subseteq holding \cup {r}
  BY <1>1 DEF StartTask
<1>9. Started' \subseteq Started \cup {r} /\ Queued' = Queued
  BY <1>3, <1>7, <1>8 DEF Started, Queued
<1>10. Live' \subseteq Live
  BY <1>2, <1>3, <1>7, <1>8 DEF Live
<1>11. Present' \subseteq Present
  BY <1>9, <1>10 DEF Present
<1>12. Once'
  BY <1>0, <1>2, <1>3, <1>9, <1>10 DEF Once
<1>13. Types'
  BY <1>0, <1>2, <1>3, <1>7, <1>8 DEF Types
<1>14. Covered' /\ Quiet'
  BY <1>3, <1>11 DEF Inv, Covered, Quiet
<1> QED
  BY <1>3, <1>7, <1>11, <1>12, <1>13, <1>14, Fewer

\* Whichever entry goes first, a pass covers the two queues and each entry once.
LEMMA OrderElements ==
  ASSUME Types, Once, NEW starved \in BOOLEAN
  PROVE  /\ DispatchOrder(starved) \in Seq(Requests)
         /\ Elements(DispatchOrder(starved)) = Queued
         /\ Distinct(DispatchOrder(starved))
<1>0. /\ interactive \in Seq(Requests) /\ background \in Seq(Requests)
      /\ Distinct(interactive) /\ Distinct(background)
      /\ Elements(interactive) \cap Elements(background) = {}
  BY DEF Types, Once
<1>1. CASE ~(starved /\ background # <<>>)
  <2>1. DispatchOrder(starved) = interactive \o background
    BY <1>1 DEF DispatchOrder
  <2> QED
    BY <1>0, <2>1, ConcatElements DEF Queued
<1>2. CASE starved /\ background # <<>>
  <2>1. PICK h \in Requests, t \in Seq(Requests) :
          /\ h = Head(background) /\ t = Tail(background)
          /\ Elements(background) = Elements(t) \cup {h}
          /\ Distinct(t) /\ h \notin Elements(t)
    BY <1>0, <1>2, TailElements
  <2>2. DispatchOrder(starved) = <<h>> \o interactive \o t
    BY <1>2, <2>1 DEF DispatchOrder
  <2>3. <<h>> \in Seq(Requests) /\ Elements(<<h>>) = {h} /\ Distinct(<<h>>)
    BY SingleElement
  <2>4. /\ Elements(<<h>>) \cap Elements(interactive) = {}
        /\ Elements(<<h>>) \cap Elements(t) = {}
        /\ Elements(interactive) \cap Elements(t) = {}
    BY <1>0, <2>1, <2>3
  <2>5. /\ <<h>> \o interactive \o t \in Seq(Requests)
        /\ Distinct(<<h>> \o interactive \o t)
        /\ Elements(<<h>> \o interactive \o t)
             = Elements(<<h>>) \cup Elements(interactive) \cup Elements(t)
    <3>0. PICK a \in Seq(Requests) : a = <<h>>
      BY <2>3
    <3>1. /\ Distinct(a) /\ Elements(a) \cap Elements(interactive) = {}
          /\ Elements(a) \cap Elements(t) = {}
      BY <2>3, <2>4, <3>0, Zenon
    <3>2. a \o interactive \o t \in Seq(Requests)
      BY <1>0, <2>1, <2>4, <3>1, JoinedThree
    <3>3. Distinct(a \o interactive \o t)
      BY <1>0, <2>1, <2>4, <3>1, JoinedThree
    <3>4. Elements(a \o interactive \o t)
            = Elements(a) \cup Elements(interactive) \cup Elements(t)
      <4>1. Elements(a \o interactive) = Elements(a) \cup Elements(interactive)
        BY <1>0, ConcatElements
      <4>2. PICK d \in Seq(Requests) : d = a \o interactive
        BY <1>0, ConcatElements
      <4>3. Elements(d \o t) = Elements(d) \cup Elements(t)
        BY ConcatElements
      <4> QED
        BY <4>1, <4>2, <4>3
    <3> QED
      BY <3>0, <3>2, <3>3, <3>4, Zenon
  <2>6. Elements(<<h>> \o interactive \o t) = Queued
    BY <2>1, <2>3, <2>5 DEF Queued
  <2> QED
    BY <2>2, <2>5, <2>6, Zenon
<1> QED
  BY <1>1, <1>2

\* What a pass takes leaves its queue and becomes a task.
LEMMA DispatchStep ==
  ASSUME Inv, Dispatch
  PROVE  Inv'
<1>0. Types /\ Once
  BY DEF Inv
<1>1. UNCHANGED <<registered, caller, queue, waiters, holding, ending,
                  draining, idle, drainer, life>>
  BY DEF Dispatch, reqVars, queueVars, ctlVars
<1>2. PICK taken \in Seq(Requests) :
        /\ spawned' = spawned \o taken
        /\ Distinct(taken) /\ Elements(taken) \subseteq Queued
        /\ interactive' \in Seq(Requests) /\ Distinct(interactive')
        /\ Elements(interactive') = Elements(interactive) \ Elements(taken)
        /\ background' \in Seq(Requests) /\ Distinct(background')
        /\ Elements(background') = Elements(background) \ Elements(taken)
  <2>0. PICK starved \in BOOLEAN :
          LET order == DispatchOrder(starved)
              taken == IF life = "open" \/ order = <<>> THEN order ELSE <<Head(order)>>
          IN  /\ spawned' = spawned \o taken
              /\ interactive' = IF taken = order THEN <<>> ELSE Without(interactive, Head(order))
              /\ background' = IF taken = order THEN <<>> ELSE Without(background, Head(order))
    BY DEF Dispatch
  <2>1. PICK taken, order :
          /\ order = DispatchOrder(starved)
          /\ taken = IF life = "open" \/ order = <<>> THEN order ELSE <<Head(order)>>
          /\ spawned' = spawned \o taken
          /\ interactive' = IF taken = order THEN <<>> ELSE Without(interactive, Head(order))
          /\ background' = IF taken = order THEN <<>> ELSE Without(background, Head(order))
    BY <2>0
  <2>2. order \in Seq(Requests) /\ Elements(order) = Queued /\ Distinct(order)
    BY <1>0, <2>1, OrderElements
  <2>3. CASE taken = order
    <3>1. interactive' = <<>> /\ background' = <<>> /\ <<>> \in Seq(Requests)
      BY <2>1, <2>3
    <3> QED
      BY <2>1, <2>2, <2>3, <3>1, EmptyElements DEF Queued
  <2>4. CASE taken # order
    <3>1. order # <<>> /\ taken = <<Head(order)>>
      BY <2>1, <2>4
    <3>2. PICK h \in Requests : h = Head(order) /\ h \in Queued
      BY <2>2, <3>1, TailElements
    <3>3. taken \in Seq(Requests) /\ Elements(taken) = {h} /\ Distinct(taken)
      BY <3>1, <3>2 DEF Elements, Distinct
    <3>4. /\ interactive' \in Seq(Requests) /\ Distinct(interactive')
          /\ Elements(interactive') = Elements(interactive) \ {h}
      BY <1>0, <2>1, <2>4, <3>2, WithoutElements DEF Types, Once
    <3>5. /\ background' \in Seq(Requests) /\ Distinct(background')
          /\ Elements(background') = Elements(background) \ {h}
      BY <1>0, <2>1, <2>4, <3>2, WithoutElements DEF Types, Once
    <3> QED
      BY <2>1, <3>2, <3>3, <3>4, <3>5
  <2> QED
    BY <2>3, <2>4
<1>3. Elements(spawned) \cap Elements(taken) = {}
  BY <1>0, <1>2 DEF Once, Live
<1>4. /\ spawned' \in Seq(Requests) /\ Distinct(spawned')
      /\ Elements(spawned') = Elements(spawned) \cup Elements(taken)
  BY <1>0, <1>2, <1>3, ConcatElements DEF Types, Once
<1>5. Queued' = Queued \ Elements(taken) /\ Started' = Started
  BY <1>1, <1>2 DEF Queued, Started, Waiting
<1>6. Live' = Live \cup Elements(taken)
  BY <1>1, <1>4 DEF Live, Waiting
<1>7. Present' \subseteq Present
  BY <1>2, <1>5, <1>6 DEF Present
<1>8. Queued \cap Started = {}
  BY <1>0 DEF Once, Live, Started
<1>9. Once'
  BY <1>0, <1>2, <1>4, <1>5, <1>6, <1>8 DEF Once
<1>10. Types'
  BY <1>0, <1>1, <1>2, <1>4 DEF Types
<1>11. Lined'
  BY <1>1 DEF Inv, Lined
<1>12. Covered' /\ Quiet'
  BY <1>1, <1>7 DEF Inv, Covered, Quiet
<1> QED
  BY <1>1, <1>7, <1>9, <1>10, <1>11, <1>12, Fewer

-----------------------------------------------------------------------------
(* Admission: the request was nowhere, and is now registered and queued.   *)

LEMMA AdmitStep ==
  ASSUME Inv, NEW r \in Requests, Admit(r)
  PROVE  Inv'
<1>0. Types /\ Once /\ Covered /\ Quiet
  BY DEF Inv
<1>1. r \notin registered /\ r \notin Present /\ queue[r] = <<>>
  BY DEF Inv, Unborn, Admit
<1>2. /\ registered' = registered \cup {r} /\ idle' = FALSE /\ ~draining
      /\ UNCHANGED <<queue, spawned, waiters, holding, ending, draining, drainer, life>>
  BY DEF Admit, queueVars
<1>3. /\ caller' \in [Requests -> Callers]
      /\ \A x \in Requests : caller'[x] = "idle" => x # r /\ caller[x] = "idle"
  BY <1>0, CallerSet DEF Admit, Callers
<1>4. r \notin Elements(interactive) /\ r \notin Elements(background)
  BY <1>1 DEF Present, Queued
<1>5. /\ interactive' \in Seq(Requests) /\ Distinct(interactive')
      /\ background' \in Seq(Requests) /\ Distinct(background')
      /\ Elements(interactive') \cap Elements(background') = {}
      /\ Queued' = Queued \cup {r}
  <2>1. CASE r \in Background
    <3>1. interactive' = interactive /\ background' = Append(background, r)
      BY <2>1 DEF Admit
    <3>2. /\ background' \in Seq(Requests) /\ Distinct(background')
          /\ Elements(background') = Elements(background) \cup {r}
      BY <1>0, <1>4, <3>1, AppendElements DEF Types, Once
    <3> QED
      BY <1>0, <1>4, <3>1, <3>2 DEF Types, Once, Queued
  <2>2. CASE r \notin Background
    <3>1. background' = background /\ interactive' = Append(interactive, r)
      BY <2>2 DEF Admit
    <3>2. /\ interactive' \in Seq(Requests) /\ Distinct(interactive')
          /\ Elements(interactive') = Elements(interactive) \cup {r}
      BY <1>0, <1>4, <3>1, AppendElements DEF Types, Once
    <3> QED
      BY <1>0, <1>4, <3>1, <3>2 DEF Types, Once, Queued
  <2> QED
    BY <2>1, <2>2
<1>6. Live' = Live /\ Started' = Started
  BY <1>2 DEF Live, Started, Waiting
<1>7. Present' = Present \cup {r} /\ r \notin Live
  BY <1>1, <1>5, <1>6 DEF Present
<1>8. Once'
  BY <1>0, <1>2, <1>5, <1>6, <1>7 DEF Once
<1>9. Types'
  BY <1>0, <1>2, <1>3, <1>5 DEF Types
<1>10. Lined'
  BY <1>2 DEF Inv, Lined
<1>11. Covered' /\ Quiet'
  BY <1>0, <1>2, <1>7 DEF Covered, Quiet
<1>12. Unborn'
  BY <1>2, <1>3, <1>7 DEF Inv, Unborn
<1>13. Terminated'
  <2> SUFFICES ASSUME NEW x \in Streaming
               PROVE  Over(x)'
    BY DEF Terminated
  <2>1. CASE x = r
    BY <1>1, <1>2, <2>1 DEF Over
  <2>2. CASE x # r
    BY <1>2, <1>7, <2>2 DEF Inv, Terminated, Over
  <2> QED
    BY <2>1, <2>2
<1> QED
  BY <1>8, <1>9, <1>10, <1>11, <1>12, <1>13 DEF Inv

-----------------------------------------------------------------------------
LEMMA InitInv == Init => Inv
<1> SUFFICES ASSUME Init
             PROVE  Inv
  OBVIOUS
<1>1. <<>> \in Seq(Requests) /\ <<>> \in Seq(Items)
  OBVIOUS
<1>2. Types
  BY <1>1 DEF Init, Types, Callers
<1>3. Queued = {} /\ Waiting = {} /\ Live = {} /\ Started = {} /\ Present = {}
  BY EmptyElements DEF Init, Queued, Waiting, Live, Started, Present
<1>4. Once /\ Lined
  BY <1>3, EmptyElements DEF Init, Once, Lined
<1>5. Unborn /\ Covered
  BY <1>3 DEF Init, Unborn, Covered
<1>6. Quiet
  BY DEF Init, Quiet
<1>7. Terminated
  BY StreamingRequests DEF Init, Terminated, Over
<1> QED
  BY <1>2, <1>4, <1>5, <1>6, <1>7 DEF Inv

LEMMA NextInv == Inv /\ [Next]_vars => Inv'
<1> SUFFICES ASSUME Inv, [Next]_vars
             PROVE  Inv'
  OBVIOUS
<1>1. ASSUME NEW r \in Requests,
             \/ Admit(r) \/ Reject(r) \/ TaskStep(r) \/ HandleCancel(r) \/ CallerStep(r)
             \/ CancelRequest(r) \/ AbandonSubmit(r) \/ AbandonStream(r)
      PROVE  Inv'
  BY <1>1, AdmitStep, RejectStep, CompleteStep, ProduceChunkStep, EndStreamStep,
     PutDoneStep, FailStep, HandleCancelStep, ResumeSubmitStep, ReadStreamStep,
     CancelRequestStep, AbandonSubmitStep, AbandonStreamStep DEF TaskStep, CallerStep
<1>2. CASE Dispatch
  BY <1>2, DispatchStep
<1>3. CASE StartTask
  BY <1>3, StartTaskStep
<1>4. CASE DrainStart \/ DrainReturn \/ DrainTimeout \/ Resume
  BY <1>4, ControlStep
<1>5. CASE CloseBegin \/ CloseEnd
  BY <1>5, CloseStep
<1>6. CASE UNCHANGED vars
  BY <1>6, StutterStep
<1> QED
  BY <1>1, <1>2, <1>3, <1>4, <1>5, <1>6 DEF Next

\* The inductive invariant: every request is in one place, what is present is registered
\* until close() clears the registries, the _idle event tells the truth, and a terminal item
\* is the last trace of its request.
THEOREM Invariance == Spec => []Inv
BY InitInv, NextInv, PTL DEF Spec

\* drain() returns at "the exact queued/active boundary": once it is released, and until
\* resume() or close(), no request is registered, queued or running, for any number of
\* requests, stages and slots, whatever is cancelled or abandoned meanwhile.
THEOREM DrainBoundaryHolds == Spec => []DrainBoundary
<1>1. Inv => DrainBoundary
  BY DEF Inv, Quiet, Covered, Present, DrainBoundary
<1> QED
  BY <1>1, Invariance, PTL

\* The consumer of stream() finds one terminal item, behind every chunk, and only when the
\* request is no longer registered: its finally block cancels nothing that ended by itself.
THEOREM TerminalItemIsLastHolds == Spec => []TerminalItemIsLast
<1>1. Inv => TerminalItemIsLast
  BY DEF Inv, Terminated, Over, TerminalItemIsLast
<1> QED
  BY <1>1, Invariance, PTL

-----------------------------------------------------------------------------
(* The OCR service.                                                        *)

OcrPlaces ==
  {"none", "idle", "put", "ocr", "result", "cancel", "delete", "parsed", "failed", "cancelled"}
OcrOutcomes == {"none", "parsed", "retry", "cancelled"}
OcrStages == {"none", "waiting", "running", "stopping"}
OcrStates == {"off", "alive", "exited", "bad", "ok", "dying", "orphan"}

OcrTypes ==
  /\ pc \in [Clients -> OcrPlaces]
  /\ attempt \in [Clients -> 1 .. MaxAttempts]
  /\ then \in [Clients -> OcrOutcomes]
  /\ run \in [Jobs -> OcrStages]
  /\ process \in [Jobs -> [Processes -> OcrStates]]
  /\ holders \subseteq Jobs /\ IsFiniteSet(holders)

OcrAsked(j) == [kind |-> "ocr", job |-> j] \in net

\* The client has not got as far as to ask for the run of this job.
OcrAhead(j) ==
  \/ j[2] > attempt[j[1]]
  \/ j[2] = attempt[j[1]] /\ pc[j[1]] \in {"idle", "put"}

\* A run is asked for once: the request finds no run of its job.
OcrAskedOnce ==
  \A j \in Jobs : /\ OcrAhead(j) => ~OcrAsked(j) /\ run[j] = "none"
                  /\ OcrAsked(j) => run[j] = "none"

\* Subprocesses that were not told to stop belong to a run that holds a slot.
OcrAliveHolds ==
  /\ \A j \in Jobs : run[j] = "running" => j \in holders
  /\ \A j \in Jobs, k \in Processes :
       process[j][k] = "alive" => run[j] = "running"
  /\ Cardinality(holders) <= OcrLimit

OcrDraining == (drain = "drained" => Active = {}) /\ (drain # "none" => ocr_draining)

OcrInv == OcrTypes /\ OcrAskedOnce /\ OcrAliveHolds /\ OcrDraining

-----------------------------------------------------------------------------
\* A slot is given only below the limit, and given back by dropping the job.
LEMMA OcrSlotTaken ==
  ASSUME OcrInv, NEW j \in Jobs, Cardinality(holders) < OcrLimit, OcrLimit \in Nat
  PROVE  /\ holders \cup {j} \subseteq Jobs /\ IsFiniteSet(holders \cup {j})
         /\ Cardinality(holders \cup {j}) <= OcrLimit
<1>1. IsFiniteSet(holders) /\ Cardinality(holders) \in Nat /\ holders \subseteq Jobs
  BY FS_CardinalityType DEF OcrInv, OcrTypes
<1>2. /\ IsFiniteSet(holders \cup {j})
      /\ \/ Cardinality(holders \cup {j}) = Cardinality(holders)
         \/ Cardinality(holders \cup {j}) = Cardinality(holders) + 1
  BY <1>1, FS_AddElement
<1> QED
  BY <1>1, <1>2

LEMMA OcrSlotFreed ==
  ASSUME OcrInv, NEW j \in Jobs, OcrLimit \in Nat
  PROVE  /\ holders \ {j} \subseteq Jobs /\ IsFiniteSet(holders \ {j})
         /\ Cardinality(holders \ {j}) <= OcrLimit
<1>1. IsFiniteSet(holders) /\ Cardinality(holders) \in Nat /\ holders \subseteq Jobs
  BY FS_CardinalityType DEF OcrInv, OcrTypes
<1>2. /\ IsFiniteSet(holders \ {j})
      /\ \/ Cardinality(holders \ {j}) = Cardinality(holders)
         \/ Cardinality(holders \ {j}) = Cardinality(holders) - 1
  BY <1>1, FS_RemoveElement
<1> QED
  BY <1>1, <1>2 DEF OcrInv, OcrAliveHolds

\* The jobs of a client are its attempts.
LEMMA OcrJobs ==
  ASSUME NEW j \in Jobs
  PROVE  j[1] \in Clients /\ j[2] \in 1 .. MaxAttempts /\ j = <<j[1], j[2]>>
  BY DEF Jobs

LEMMA OcrInitially ==
  OcrInit => OcrInv
<1> SUFFICES ASSUME OcrInit PROVE OcrInv
  OBVIOUS
<1>0. OcrLimit \in Nat /\ 1 \in 1 .. MaxAttempts
  BY OcrAssumption
<1>1. OcrTypes
  <2>1. process \in [Jobs -> [Processes -> OcrStates]]
    BY DEF OcrInit, OcrStates, Off
  <2>2. pc \in [Clients -> OcrPlaces] /\ attempt \in [Clients -> 1 .. MaxAttempts]
    BY <1>0 DEF OcrInit, OcrPlaces
  <2>3. IsFiniteSet(holders) /\ holders \subseteq Jobs
    BY FS_EmptySet DEF OcrInit
  <2> QED
    BY <2>1, <2>2, <2>3 DEF OcrInit, OcrTypes, OcrStages, OcrOutcomes
<1>2. OcrAskedOnce
  BY DEF OcrInit, OcrAskedOnce, OcrAsked
<1>3. OcrAliveHolds
  BY <1>0, FS_EmptySet DEF OcrInit, OcrAliveHolds, Off
<1>4. OcrDraining
  BY DEF OcrInit, OcrDraining
<1> QED
  BY <1>1, <1>2, <1>3, <1>4 DEF OcrInv

-----------------------------------------------------------------------------
\* A step of a client: its call, and nothing of the service.
LEMMA OcrCallStep ==
  ASSUME OcrInv, NEW c \in Clients, NEW kind \in OcrPlaces, Call(c, kind),
         UNCHANGED <<attempt, run, holders, process, ocr_draining, drain>>,
         then' \in [Clients -> OcrOutcomes],
         kind # "idle", kind = "put" => pc[c] = "idle", kind = "ocr" => pc[c] = "put"
  PROVE  OcrInv'
<1>1. OcrTypes'
  BY DEF OcrInv, OcrTypes, Call, Jobs
<1>2. OcrAliveHolds' /\ OcrDraining'
  BY DEF OcrInv, OcrAliveHolds, OcrDraining, Active
<1>3. OcrAskedOnce'
  <2> SUFFICES ASSUME NEW j \in Jobs
               PROVE  /\ OcrAhead(j)' => ~OcrAsked(j)' /\ run[j] = "none"
                      /\ OcrAsked(j)' => run[j] = "none"
    BY DEF OcrAskedOnce
  <2>0. j[1] \in Clients /\ j[2] \in 1 .. MaxAttempts /\ j = <<j[1], j[2]>>
    BY OcrJobs
  <2>1. OcrAhead(j)' => OcrAhead(j)
    BY <2>0 DEF OcrAhead, Call, OcrInv, OcrTypes
  <2>2. OcrAsked(j)' => OcrAsked(j) \/ (kind = "ocr" /\ j = <<c, attempt[c]>>)
    BY DEF OcrAsked, Call, Current
  <2>3. kind = "ocr" /\ j = <<c, attempt[c]>> => OcrAhead(j) /\ ~OcrAhead(j)'
    BY <2>0 DEF OcrAhead, Call, OcrInv, OcrTypes
  <2> QED
    BY <2>1, <2>2, <2>3 DEF OcrInv, OcrAskedOnce
<1> QED
  BY <1>1, <1>2, <1>3 DEF OcrInv

LEMMA OcrLeaveStep ==
  ASSUME OcrInv, NEW c \in Clients, NEW outcome \in {"parsed", "retry", "cancelled"},
         Leave(c, outcome), UNCHANGED <<attempt, run, holders, process, ocr_draining, drain>>
  PROVE  OcrInv'
<1>1. then' \in [Clients -> OcrOutcomes]
  BY DEF Leave, OcrInv, OcrTypes, OcrOutcomes
<1>2. "delete" \in OcrPlaces
  BY DEF OcrPlaces
<1> QED
  BY <1>1, <1>2, OcrCallStep DEF Leave

\* A client comes to rest between two attempts, or for good.
LEMMA OcrRestStep ==
  ASSUME OcrInv, NEW c \in Clients, UNCHANGED <<net, run, holders, process, ocr_draining, drain>>,
         NEW label \in OcrPlaces, pc' = [pc EXCEPT ![c] = label],
         then' = [then EXCEPT ![c] = "none"],
         \/ label \notin {"idle", "put"} /\ UNCHANGED attempt
         \/ label = "idle" /\ attempt[c] < MaxAttempts
            /\ attempt' = [attempt EXCEPT ![c] = @ + 1]
  PROVE  OcrInv'
<1>0. MaxAttempts \in Nat
  BY OcrAssumption
<1>1. OcrTypes'
  <2>1. attempt' \in [Clients -> 1 .. MaxAttempts]
    BY <1>0 DEF OcrInv, OcrTypes
  <2> QED
    BY <2>1 DEF OcrInv, OcrTypes, Jobs, OcrOutcomes
<1>2. OcrAliveHolds' /\ OcrDraining'
  BY DEF OcrInv, OcrAliveHolds, OcrDraining, Active
<1>3. OcrAskedOnce'
  <2> SUFFICES ASSUME NEW j \in Jobs PROVE OcrAhead(j)' => OcrAhead(j)
    BY DEF OcrAskedOnce, OcrAsked, OcrInv
  <2>0. j[1] \in Clients /\ j[2] \in 1 .. MaxAttempts /\ j = <<j[1], j[2]>>
    BY OcrJobs
  <2> QED
    BY <1>0, <2>0 DEF OcrAhead, OcrInv, OcrTypes
<1> QED
  BY <1>1, <1>2, <1>3 DEF OcrInv

LEMMA OcrClients ==
  ASSUME OcrInv, NEW c \in Clients,
         ClientStep(c) \/ GiveUp(c) \/ Cancelled(c) \/ CancelledLate(c)
  PROVE  OcrInv'
<1>0. then \in [Clients -> OcrOutcomes]
  BY DEF OcrInv, OcrTypes
<1>1. CASE Begin(c)
  BY <1>0, <1>1, OcrCallStep DEF OcrPlaces, Begin, service, admin
<1>2. CASE Answered(c)
  <2>1. NextCall[pc[c]] \in OcrPlaces /\ NextCall[pc[c]] # "idle"
        /\ NextCall[pc[c]] # "put"
        /\ (NextCall[pc[c]] = "ocr" => pc[c] = "put")
    BY <1>2 DEF Answered, NextCall, OcrPlaces
  <2> QED
    BY <1>0, <1>2, <2>1, OcrCallStep DEF Answered, service, admin
<1>3. CASE ResultAnswered(c)
  BY <1>3, OcrLeaveStep DEF ResultAnswered, service, admin
<1>4. CASE Refused(c)
  BY <1>4, OcrLeaveStep DEF Refused, service, admin
<1>5. CASE CancelAnswered(c)
  BY <1>5, OcrLeaveStep DEF CancelAnswered, service, admin
<1>6. CASE DeleteAnswered(c)
  <2>1. CASE then[c] = "retry" /\ attempt[c] < MaxAttempts
    BY <1>6, <2>1, OcrRestStep DEF OcrPlaces, DeleteAnswered, service, admin
  <2>2. CASE ~(then[c] = "retry" /\ attempt[c] < MaxAttempts)
    <3>1. PICK label \in OcrPlaces : label = IF then[c] = "retry" THEN "failed" ELSE then[c]
      BY <1>0 DEF OcrPlaces, OcrOutcomes
    <3>2. label \notin {"idle", "put"}
      BY <1>0, <3>1 DEF OcrOutcomes
    <3> QED
      BY <1>6, <2>2, <3>1, <3>2, OcrRestStep DEF DeleteAnswered, service, admin
  <2> QED
    BY <2>1, <2>2
<1>7. CASE GiveUp(c)
  BY <1>7, OcrLeaveStep DEF GiveUp, service, admin
<1>8. CASE Cancelled(c)
  BY <1>0, <1>8, OcrCallStep DEF OcrPlaces, Cancelled, service, admin
<1>9. CASE CancelledLate(c)
  BY <1>9, OcrRestStep DEF OcrPlaces, CancelledLate, service, admin
<1> QED
  BY <1>1, <1>2, <1>3, <1>4, <1>5, <1>6, <1>7, <1>8, <1>9 DEF ClientStep

-----------------------------------------------------------------------------
\* What a step of the service may do to the runs.
LEMMA OcrRunStep ==
  ASSUME OcrInv, UNCHANGED <<pc, attempt>>, net' \subseteq net,
         \A j \in Jobs : \/ run'[j] = run[j] \/ run'[j] = "none" \/ run[j] # "none"
                         \/ OcrAsked(j) /\ ~OcrAsked(j)'
  PROVE  OcrAskedOnce'
<1> SUFFICES ASSUME NEW j \in Jobs
             PROVE  /\ OcrAhead(j)' => ~OcrAsked(j)' /\ run'[j] = "none"
                    /\ OcrAsked(j)' => run'[j] = "none"
  BY DEF OcrAskedOnce
<1>1. (OcrAhead(j)' <=> OcrAhead(j)) /\ (OcrAsked(j)' => OcrAsked(j))
  BY DEF OcrAhead, OcrAsked
<1>2. /\ OcrAhead(j) => ~OcrAsked(j) /\ run[j] = "none"
      /\ OcrAsked(j) => run[j] = "none"
  BY DEF OcrInv, OcrAskedOnce
<1> QED
  BY <1>1, <1>2

LEMMA OcrDrainStep ==
  ASSUME OcrInv, UNCHANGED <<ocr_draining, drain>>,
         \A j \in Jobs : run'[j] # "none" => run[j] # "none" \/ ~ocr_draining
  PROVE  OcrDraining'
  BY DEF OcrInv, OcrDraining, Active

\* A request is taken without a change to runs, slots and subprocesses.
LEMMA OcrQuietStep ==
  ASSUME OcrInv, UNCHANGED <<pc, attempt, then, run, holders, process, ocr_draining, drain>>,
         net' \subseteq net
  PROVE  OcrInv'
<1>1. OcrTypes' /\ OcrAliveHolds'
  BY DEF OcrInv, OcrTypes, OcrAliveHolds, Jobs
<1>2. OcrAskedOnce'
  BY OcrRunStep
<1>3. OcrDraining'
  BY OcrDrainStep
<1> QED
  BY <1>1, <1>2, <1>3 DEF OcrInv

LEMMA OcrTakes ==
  ASSUME NEW kind, NEW j, Take(kind, j)
  PROVE  net' \subseteq net /\ (kind = "ocr" => OcrAsked(j) /\ ~OcrAsked(j)')
  BY DEF Take, OcrAsked

\* A step that moves the run of one job, and its subprocesses, and maybe its slot.
LEMMA OcrJobStep ==
  ASSUME OcrInv, UNCHANGED <<pc, attempt, then, ocr_draining, drain>>, net' \subseteq net,
         NEW j \in Jobs, NEW stage \in OcrStages, NEW parts \in [Processes -> OcrStates],
         run' = [run EXCEPT ![j] = stage], process' = [process EXCEPT ![j] = parts],
         holders' \subseteq Jobs, IsFiniteSet(holders'), Cardinality(holders') <= OcrLimit,
         \/ run[j] # "none" \/ stage = "none"
         \/ OcrAsked(j) /\ ~OcrAsked(j)' /\ ~ocr_draining,
         \A i \in Jobs : i # j /\ i \in holders => i \in holders',
         stage = "running" => j \in holders',
         \A k \in Processes : parts[k] = "alive" => stage = "running"
  PROVE  OcrInv'
<1>1. OcrTypes'
  BY DEF OcrInv, OcrTypes
<1>2. OcrAskedOnce'
  BY OcrRunStep DEF OcrInv, OcrTypes
<1>3. OcrDraining'
  BY OcrDrainStep DEF OcrInv, OcrTypes
<1>4. OcrAliveHolds'
  BY DEF OcrInv, OcrTypes, OcrAliveHolds
<1> QED
  BY <1>1, <1>2, <1>3, <1>4 DEF OcrInv

\* Whoever is told to stop is no longer at work unasked.
LEMMA OcrStops ==
  ASSUME OcrInv, NEW j \in Jobs, process' = StopProcesses(j)
  PROVE  \E parts \in [Processes -> OcrStates] :
           process' = [process EXCEPT ![j] = parts] /\ \A k \in Processes : parts[k] # "alive"
<1> DEFINE parts == [k \in Processes |->
              IF process[j][k] \in {"alive", "dying"} THEN "dying" ELSE "off"]
<1>1. parts \in [Processes -> OcrStates] /\ \A k \in Processes : parts[k] # "alive"
  BY DEF OcrStates
<1>2. process' = [process EXCEPT ![j] = parts]
  BY DEF StopProcesses
<1> QED
  BY <1>1, <1>2

\* The handlers of the service.
LEMMA OcrHandle ==
  ASSUME OcrInv, NEW j \in Jobs, Handle(j)
  PROVE  OcrInv'
<1>0. /\ OcrLimit \in Nat /\ process[j] \in [Processes -> OcrStates] /\ run[j] \in OcrStages
      /\ holders \subseteq Jobs /\ IsFiniteSet(holders) /\ Cardinality(holders) <= OcrLimit
      /\ process \in [Jobs -> [Processes -> OcrStates]] /\ run \in [Jobs -> OcrStages]
      /\ \A k \in Processes : process[j][k] = "alive" => run[j] = "running"
  BY OcrAssumption DEF OcrInv, OcrTypes, OcrAliveHolds
<1>9. UNCHANGED <<pc, attempt, then, ocr_draining, drain>>
  BY DEF Handle, HandlePut, HandleOcr, HandleCancelJob, HandleResult, HandleDelete,
         client, admin
<1>1. CASE HandlePut(j)
  BY <1>1, OcrTakes, OcrQuietStep DEF HandlePut, client, admin
<1>2. CASE HandleOcr(j)
  <2>1. net' \subseteq net /\ OcrAsked(j) /\ ~OcrAsked(j)' /\ run[j] = "none"
    BY <1>2, OcrTakes DEF HandleOcr, OcrInv, OcrAskedOnce
  <2>2. CASE Admits(j) /\ run' = [run EXCEPT ![j] = "waiting"]
    <3>1. "waiting" \in OcrStages /\ ~ocr_draining
      BY <2>2 DEF OcrStages, Admits
    <3>2. process' = [process EXCEPT ![j] = process[j]] /\ holders' = holders
      BY <1>0, <1>2 DEF HandleOcr
    <3>3. \A k \in Processes : process[j][k] # "alive"
      BY <1>0, <2>1
    <3> QED
      BY <1>0, <1>2, <2>1, <2>2, <3>1, <3>2, <3>3, <1>9, OcrJobStep
  <2>3. CASE UNCHANGED run
    BY <1>2, <2>1, <2>3, OcrQuietStep DEF HandleOcr, client, admin
  <2> QED
    BY <1>2, <2>2, <2>3 DEF HandleOcr
<1>3. CASE HandleCancelJob(j)
  <2>1. net' \subseteq net
    BY <1>3, OcrTakes DEF HandleCancelJob
  <2>2. CASE UNCHANGED <<run, process, holders>>
    BY <1>3, <2>1, <2>2, OcrQuietStep DEF HandleCancelJob, client, admin
  <2>3. CASE /\ run[j] \in {"waiting", "running"} /\ run' = [run EXCEPT ![j] = "stopping"]
             /\ process' = StopProcesses(j) /\ UNCHANGED holders
    <3>1. PICK parts \in [Processes -> OcrStates] :
            process' = [process EXCEPT ![j] = parts] /\ \A k \in Processes : parts[k] # "alive"
      BY <2>3, OcrStops
    <3>2. "stopping" \in OcrStages
      BY DEF OcrStages
    <3>3. IsFiniteSet(holders') /\ Cardinality(holders') <= OcrLimit /\ holders' = holders
      BY <1>0, <2>3
    <3>4. run[j] # "none" /\ run' = [run EXCEPT ![j] = "stopping"]
      BY <2>3
    <3> QED
      BY <1>0, <1>9, <2>1, <3>1, <3>2, <3>3, <3>4, OcrJobStep
  <2>4. CASE /\ run[j] = "stopping" /\ run' = [run EXCEPT ![j] = "none"]
             /\ holders' = Freed(j) /\ UNCHANGED process
    <3>1. process' = [process EXCEPT ![j] = process[j]] /\ "none" \in OcrStages
      BY <1>0, <2>4 DEF OcrStages
    <3>2. /\ holders' \subseteq Jobs /\ IsFiniteSet(holders')
          /\ Cardinality(holders') <= OcrLimit
          /\ \A i \in Jobs : i # j /\ i \in holders => i \in holders'
      BY <1>0, <2>4, OcrSlotFreed DEF Freed
    <3>3. \A k \in Processes : process[j][k] # "alive"
      BY <1>0, <2>4
    <3>4. run[j] # "none" /\ run' = [run EXCEPT ![j] = "none"]
      BY <2>4
    <3> QED
      BY <1>0, <1>9, <2>1, <3>1, <3>2, <3>3, <3>4, OcrJobStep
  <2> QED
    BY <1>3, <2>2, <2>3, <2>4 DEF HandleCancelJob
<1>4. CASE HandleResult(j)
  BY <1>4, OcrTakes, OcrQuietStep DEF HandleResult, client, admin, service
<1>5. CASE HandleDelete(j)
  BY <1>5, OcrTakes, OcrQuietStep DEF HandleDelete, client, admin
<1> QED
  BY <1>1, <1>2, <1>3, <1>4, <1>5 DEF Handle

\* One subprocess changes its state, and is not started by that.
LEMMA OcrProcessStep ==
  ASSUME OcrInv, NEW j \in Jobs, NEW k \in Processes, NEW state \in OcrStates,
         SetProcess(j, k, state), state # "alive",
         UNCHANGED <<pc, attempt, then, net, run, holders, ocr_draining, drain>>
  PROVE  OcrInv'
<1>0. /\ process[j] \in [Processes -> OcrStates] /\ run[j] \in OcrStages
      /\ holders \subseteq Jobs /\ IsFiniteSet(holders) /\ Cardinality(holders) <= OcrLimit
      /\ process \in [Jobs -> [Processes -> OcrStates]] /\ run \in [Jobs -> OcrStages]
      /\ \A q \in Processes : process[j][q] = "alive" => run[j] = "running"
      /\ run[j] = "running" => j \in holders
  BY DEF OcrInv, OcrTypes, OcrAliveHolds
<1>1. PICK parts \in [Processes -> OcrStates] :
        /\ process' = [process EXCEPT ![j] = parts]
        /\ \A q \in Processes : parts[q] = "alive" => run[j] = "running"
  <2>1. [process[j] EXCEPT ![k] = state] \in [Processes -> OcrStates]
    BY <1>0
  <2> QED
    BY <1>0, <2>1 DEF SetProcess
<1>2. PICK stage \in OcrStages :
        /\ stage = run[j] /\ run' = [run EXCEPT ![j] = stage]
        /\ run[j] # "none" \/ stage = "none"
  BY <1>0
<1>3. /\ holders' \subseteq Jobs /\ IsFiniteSet(holders') /\ Cardinality(holders') <= OcrLimit
      /\ \A i \in Jobs : i # j /\ i \in holders => i \in holders'
      /\ stage = "running" => j \in holders'
  BY <1>0, <1>2
<1>4. \A q \in Processes : parts[q] = "alive" => stage = "running"
  BY <1>1, <1>2
<1>5. UNCHANGED <<pc, attempt, then, ocr_draining, drain>> /\ net' \subseteq net
  OBVIOUS
<1> QED
  BY <1>1, <1>2, <1>3, <1>4, <1>5, OcrJobStep

\* The tasks, threads and subprocesses of the service.
LEMMA OcrServe ==
  ASSUME OcrInv, NEW j \in Jobs, Serve(j)
  PROVE  OcrInv'
<1>0. /\ OcrLimit \in Nat /\ process[j] \in [Processes -> OcrStates] /\ run[j] \in OcrStages
      /\ holders \subseteq Jobs /\ IsFiniteSet(holders) /\ Cardinality(holders) <= OcrLimit
      /\ process \in [Jobs -> [Processes -> OcrStates]] /\ run \in [Jobs -> OcrStages]
      /\ \A k \in Processes : process[j][k] = "alive" => run[j] = "running"
      /\ run[j] = "running" => j \in holders
  BY OcrAssumption DEF OcrInv, OcrTypes, OcrAliveHolds
<1>1. {"none", "running", "stopping"} \subseteq OcrStages
      /\ {"off", "alive", "exited", "bad", "ok", "dying"} \subseteq OcrStates
  BY DEF OcrStages, OcrStates
<1>12. UNCHANGED <<pc, attempt, then, ocr_draining, drain>>
  BY DEF Serve, UploadStored, UploadBroken, StartProcesses, ProcessExits, LoadResults,
         ProcessStops, GatherFails, RunCompletes, RunStopped, client, admin
<1>2. CASE UploadStored(j) \/ UploadBroken(j)
  BY <1>2, OcrQuietStep DEF UploadStored, UploadBroken, client, admin
<1>3. CASE StartProcesses(j)
  <2>1. /\ holders' \subseteq Jobs /\ IsFiniteSet(holders') /\ holders' = holders \cup {j}
        /\ Cardinality(holders') <= OcrLimit /\ run[j] = "waiting"
    <3>1. Cardinality(holders) < OcrLimit /\ holders' = holders \cup {j} /\ run[j] = "waiting"
      BY <1>3 DEF StartProcesses
    <3> QED
      BY <1>0, <3>1, OcrSlotTaken
  <2>2. CASE /\ process' = [process EXCEPT ![j] = [k \in Processes |-> "alive"]]
             /\ run' = [run EXCEPT ![j] = "running"]
    <3>1. [k \in Processes |-> "alive"] \in [Processes -> OcrStates]
      BY <1>1
    <3> QED
      BY <1>0, <1>1, <1>3, <2>1, <2>2, <3>1, OcrJobStep DEF StartProcesses, client, admin
  <2>3. CASE UNCHANGED process /\ run' = [run EXCEPT ![j] = "stopping"]
    <3>1. PICK parts \in [Processes -> OcrStates] :
            /\ process' = [process EXCEPT ![j] = parts]
            /\ \A k \in Processes : parts[k] # "alive"
      <4>1. process' = [process EXCEPT ![j] = process[j]]
        BY <1>0, <2>3
      <4>2. \A k \in Processes : process[j][k] # "alive"
        BY <1>0, <2>1
      <4> QED
        BY <1>0, <4>1, <4>2
    <3>2. UNCHANGED net
      BY <1>3 DEF StartProcesses
    <3>3. \A i \in Jobs : i # j /\ i \in holders => i \in holders'
      BY <2>1
    <3> QED
      BY <1>1, <1>12, <2>1, <2>3, <3>1, <3>2, <3>3, OcrJobStep
  <2> QED
    BY <1>3, <2>2, <2>3 DEF StartProcesses
<1>5. CASE \E k \in Processes : ProcessExits(j, k)
  BY <1>1, <1>5, OcrProcessStep DEF ProcessExits, client, admin
<1>6. CASE \E k \in Processes : LoadResults(j, k)
  BY <1>1, <1>6, OcrProcessStep DEF LoadResults, client, admin
<1>7. CASE \E k \in Processes : ProcessStops(j, k)
  BY <1>1, <1>7, OcrProcessStep DEF ProcessStops, client, admin
<1>8. CASE GatherFails(j)
  <2>1. PICK parts \in [Processes -> OcrStates] :
          process' = [process EXCEPT ![j] = parts] /\ \A k \in Processes : parts[k] # "alive"
    BY <1>8, OcrStops DEF GatherFails
  <2>2. /\ run[j] = "running" /\ run' = [run EXCEPT ![j] = "stopping"]
        /\ net' = net /\ holders' = holders
    BY <1>8 DEF GatherFails
  <2>3. IsFiniteSet(holders') /\ Cardinality(holders') <= OcrLimit
    BY <1>0, <2>2
  <2> QED
    BY <1>0, <1>1, <1>12, <2>1, <2>2, <2>3, OcrJobStep
<1>9. /\ holders \ {j} \subseteq Jobs /\ IsFiniteSet(holders \ {j})
      /\ Cardinality(holders \ {j}) <= OcrLimit
  BY <1>0, OcrSlotFreed
<1>10. CASE RunCompletes(j)
  <2>1. Off \in [Processes -> OcrStates] /\ \A k \in Processes : Off[k] # "alive"
    BY <1>1 DEF Off
  <2> QED
    BY <1>0, <1>1, <1>9, <1>10, <1>12, <2>1, OcrJobStep DEF RunCompletes
<1>11. CASE RunStopped(j)
  <2>1. process' = [process EXCEPT ![j] = process[j]] /\ holders' = holders \ {j}
    BY <1>0, <1>11 DEF RunStopped, Freed
  <2>2. \A k \in Processes : process[j][k] # "alive"
    BY <1>0, <1>11 DEF RunStopped
  <2>3. run[j] = "stopping" /\ run' = [run EXCEPT ![j] = "none"] /\ net' = net
    BY <1>11 DEF RunStopped
  <2>4. IsFiniteSet(holders') /\ Cardinality(holders') <= OcrLimit
    BY <1>9, <2>1
  <2> QED
    BY <1>0, <1>1, <1>9, <1>12, <2>1, <2>2, <2>3, <2>4, OcrJobStep
<1> QED
  BY <1>2, <1>3, <1>5, <1>6, <1>7, <1>8, <1>10, <1>11 DEF Serve

\* The drain, and the end of the process of the service.
LEMMA OcrAdministration ==
  ASSUME OcrInv,
         StartDrain \/ Drained \/ DrainTimesOut \/ Restart \/ Crash
  PROVE  OcrInv'
<1>0. OcrLimit \in Nat
  BY OcrAssumption
<1>1. CASE StartDrain \/ Drained \/ DrainTimesOut
  <2>1. OcrTypes' /\ OcrAliveHolds'
    BY <1>1 DEF OcrInv, OcrTypes, OcrAliveHolds, Jobs, StartDrain, Drained,
                DrainTimesOut, client, service
  <2>2. OcrAskedOnce'
    BY <1>1, OcrRunStep DEF StartDrain, Drained, DrainTimesOut, client, service
  <2>3. OcrDraining'
    BY <1>1 DEF OcrInv, OcrDraining, Active, StartDrain, Drained,
                DrainTimesOut, service
  <2> QED
    BY <2>1, <2>2, <2>3 DEF OcrInv
<1>2. CASE Replaced
  <2>1. \A j \in Jobs : run'[j] = "none"
    BY <1>2 DEF Replaced
  <2>2. OcrTypes'
    <3>1. process' \in [Jobs -> [Processes -> OcrStates]]
      BY <1>2 DEF Replaced, Orphaned, OcrStates
    <3>2. run' \in [Jobs -> OcrStages]
      BY <1>2 DEF Replaced, OcrStages
    <3>3. holders' \subseteq Jobs /\ IsFiniteSet(holders')
      BY <1>2, FS_EmptySet DEF Replaced
    <3> QED
      BY <1>2, <3>1, <3>2, <3>3 DEF OcrInv, OcrTypes, Replaced, client, Jobs
  <2>3. OcrAskedOnce'
    BY <1>2, <2>1, OcrRunStep DEF Replaced, client
  <2>4. OcrAliveHolds'
    BY <1>0, <1>2, FS_EmptySet DEF Replaced, OcrAliveHolds, Orphaned
  <2>5. OcrDraining'
    BY <1>2 DEF Replaced, OcrDraining
  <2> QED
    BY <2>2, <2>3, <2>4, <2>5 DEF OcrInv
<1> QED
  BY <1>1, <1>2 DEF Restart, Crash

LEMMA OcrSteps ==
  ASSUME OcrInv, [OcrNext]_ocrVars
  PROVE  OcrInv'
<1>1. CASE UNCHANGED ocrVars
  BY <1>1, OcrQuietStep DEF ocrVars
<1>2. CASE OcrNext
  <2>1. CASE \E j \in Jobs, k \in Processes : OrphanEnds(j, k)
    BY <2>1, OcrProcessStep DEF OrphanEnds, OcrStates, client, admin
  <2> QED
    BY <1>2, <2>1, OcrClients, OcrHandle, OcrServe, OcrAdministration DEF OcrNext
<1> QED
  BY <1>1, <1>2

\* The inductive invariant of the OCR service, through uploads, runs, cancellations,
\* drains, lost answers and failing processes.
THEOREM OcrInvariance ==
  OcrSpec => []OcrInv
<1>1. OcrInit => OcrInv
  BY OcrInitially
<1>2. OcrInv /\ [OcrNext]_ocrVars => OcrInv'
  BY OcrSteps
<1> QED
  BY <1>1, <1>2, PTL DEF OcrSpec

\* However runs fail, are cancelled or are abandoned by any number of clients that retry,
\* at most OcrLimit jobs have subprocesses of the running service at work that nobody has
\* told to stop; the orphans of a service that died are not counted (StageLimits.acquire,
\* IsolatedOcrAdapter.process).
THEOREM BoundedOcrHolds ==
  OcrSpec => []BoundedOcr
<1>1. OcrInv => BoundedOcr
  <2> SUFFICES ASSUME OcrInv PROVE BoundedOcr
    OBVIOUS
  <2> DEFINE busy == {j \in Jobs : \E k \in Processes : process[j][k] = "alive"}
  <2>1. busy \subseteq holders /\ IsFiniteSet(holders) /\ Cardinality(holders) <= OcrLimit
        /\ OcrLimit \in Nat
    BY OcrAssumption DEF OcrInv, OcrTypes, OcrAliveHolds
  <2>2. Cardinality(busy) <= Cardinality(holders) /\ IsFiniteSet(busy)
    BY <2>1, FS_Subset
  <2>3. Cardinality(busy) \in Nat /\ Cardinality(holders) \in Nat
    BY <2>1, <2>2, FS_CardinalityType
  <2>4. Cardinality(busy) <= OcrLimit
    BY <2>1, <2>2, <2>3
  <2> QED
    BY <2>4 DEF BoundedOcr
<1> QED
  BY <1>1, OcrInvariance, PTL

\* From the answer to a drain until the service is replaced no run exists and no subprocess
\* works that was not told to stop, whatever requests were in flight when the drain began
\* (drain, execute).
THEOREM DrainedIsIdleHolds ==
  OcrSpec => []DrainedIsIdle
<1>1. OcrInv => DrainedIsIdle
  BY DEF OcrInv, OcrDraining, OcrAliveHolds, DrainedIsIdle, Active
<1> QED
  BY <1>1, OcrInvariance, PTL
=============================================================================
