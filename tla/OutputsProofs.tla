----------------------------- MODULE OutputsProofs -----------------------------
(***************************************************************************)
(* What Outputs promises, for any outputs, levels, tasks and troubles:     *)
(* every task that waits can be acknowledged, acknowledgements are         *)
(* delivered as Delivery says, and once everything has arrived what is     *)
(* shown of an output is what it is.                                       *)
(***************************************************************************)
EXTENDS Outputs, Integers, FunctionTheorems, FiniteSetTheorems, SequenceTheorems, TLAPS

USE OutputsAssumption DEF OutputsAssumption

-----------------------------------------------------------------------------
(* What is in flight, and the inductive invariant. *)

\* A frame that says what an output is, and what it says.
Tells(frame, o) == frame.kind = "report" \/ (frame.kind = "state" /\ frame.addr = o)
Told(frame, o) == IF frame.kind = "report" THEN frame.states[o] ELSE frame.state
Coming(o) == \E i \in DOMAIN downlink : Tells(downlink[i], o)

\* A command under way, and one that will make an output tell of itself.
Sent(c) == \E i \in DOMAIN uplink : uplink[i] = c
Asked(o) == \E i \in DOMAIN uplink : uplink[i] = Request \/ o \in Targets(uplink[i].addr)

\* The places where the acknowledgement of a command is on its way.
Echo(c) == [kind |-> "echo", cmd |-> c]
Places(c) == {<<"up", i>> : i \in {j \in DOMAIN uplink : uplink[j] = c}}
                \cup {<<"down", i>> : i \in {j \in DOMAIN downlink : downlink[j] = Echo(c)}}
Fits(S, T) == \E f \in [S -> T] : \A v, w \in S : f[v] = f[w] => v = w

\* A task that was started and has not ended has a command.
TaskInv == \A w \in Writes : pc[w] \in {"wait", "woken"} => command[w] \in Commands

\* An output keeps the level it is dimmed to.
RealInv == \A o \in Outputs : real[o].level # 0

\* Nothing is received from a socket that is not up; connect() has released every waiter.
LinkInv ==
    /\ link # "up" => downlink = <<>>
    /\ link = "connecting" => \A w \in Writes : pc[w] # "wait"

\* The last frame about an output is right.
LastInv ==
    \A o \in Outputs : \A i \in DOMAIN downlink :
        Tells(downlink[i], o) /\ (\A j \in DOMAIN downlink : j > i => ~Tells(downlink[j], o))
            => Told(downlink[i], o) = real[o]

\* After the echo of a command its outputs tell of themselves.
FollowInv ==
    \A i \in DOMAIN downlink : downlink[i].kind \in {"echo", "push"} =>
        \A o \in Targets(downlink[i].cmd.addr) : \E j \in DOMAIN downlink : j > i /\ Tells(downlink[j], o)

\* What is shown of an output is right, unless something about it is still to come.
TruthInv ==
    link = "up" => \A o \in Outputs : o \in blind \/ Asked(o) \/ Coming(o) \/ state[o] = real[o]

\* A task that wakes up before its outputs have told of themselves still has that before it.
WokenInv ==
    link = "up" => \A w \in Writes : pc[w] = "woken" /\ w \notin overtaken /\ command[w] \notin lost =>
        \A o \in Targets(command[w].addr) : Sent(command[w]) \/ Coming(o)

\* There is an acknowledgement under way for every task that waits for one.
EchoInv ==
    link = "up" => \A c \in Commands \ lost : Fits(Waiting(c), Places(c))

IInv ==
    /\ TypeOK /\ TaskInv /\ WaitersWait
    /\ RealInv /\ LinkInv
    /\ LastInv /\ FollowInv
    /\ TruthInv /\ WokenInv /\ EchoInv


-----------------------------------------------------------------------------
(* Sequences. *)

\* Where the elements of a concatenation come from, and where they go.
LEMMA ConcatIndices ==
    ASSUME NEW S, NEW s \in Seq(S), NEW t \in Seq(S)
    PROVE  /\ s \o t \in Seq(S)
           /\ \A i \in DOMAIN s : i \in DOMAIN (s \o t) /\ (s \o t)[i] = s[i]
           /\ \A k \in DOMAIN t : Len(s) + k \in DOMAIN (s \o t) /\ (s \o t)[Len(s) + k] = t[k]
           /\ \A i \in DOMAIN (s \o t) : i \in DOMAIN s \/ i - Len(s) \in DOMAIN t
           /\ Len(s) \in Nat /\ DOMAIN s = 1..Len(s)
  <1>1. /\ s \o t \in Seq(S) /\ Len(s \o t) = Len(s) + Len(t)
        /\ \A i \in 1..Len(s) + Len(t) : (s \o t)[i] = IF i <= Len(s) THEN s[i] ELSE t[i - Len(s)]
    BY ConcatProperties
  <1>2. /\ Len(s) \in Nat /\ DOMAIN s = 1..Len(s) /\ Len(t) \in Nat /\ DOMAIN t = 1..Len(t)
        /\ DOMAIN (s \o t) = 1..Len(s) + Len(t)
    BY <1>1, LenProperties
  <1> QED
    BY <1>1, <1>2

LEMMA AppendIndices ==
    ASSUME NEW S, NEW s \in Seq(S), NEW e \in S
    PROVE  /\ Append(s, e) \in Seq(S)
           /\ \A i \in DOMAIN s : i \in DOMAIN Append(s, e) /\ Append(s, e)[i] = s[i]
           /\ Len(s) + 1 \in DOMAIN Append(s, e) /\ Append(s, e)[Len(s) + 1] = e
           /\ \A i \in DOMAIN Append(s, e) : i \in DOMAIN s \/ i = Len(s) + 1
           /\ Len(s) \in Nat /\ DOMAIN s = 1..Len(s)
  <1>1. /\ Append(s, e) \in Seq(S) /\ Len(Append(s, e)) = Len(s) + 1
        /\ \A i \in 1..Len(s) : Append(s, e)[i] = s[i]
        /\ Append(s, e)[Len(s) + 1] = e
    BY AppendProperties
  <1>2. /\ Len(s) \in Nat /\ DOMAIN s = 1..Len(s)
        /\ DOMAIN Append(s, e) = 1..Len(s) + 1
    BY <1>1, LenProperties
  <1> QED
    BY <1>1, <1>2

\* The head is the first element; the others move up one place.
LEMMA TailIndices ==
    ASSUME NEW S, NEW s \in Seq(S), s # <<>>
    PROVE  /\ Tail(s) \in Seq(S) /\ Head(s) = s[1] /\ 1 \in DOMAIN s /\ Head(s) \in S
           /\ \A i \in DOMAIN Tail(s) : i \in Nat /\ i + 1 \in DOMAIN s /\ Tail(s)[i] = s[i + 1]
           /\ \A i \in DOMAIN s : i \in Nat /\ (i # 1 => i - 1 \in DOMAIN Tail(s) /\ Tail(s)[i - 1] = s[i])
           /\ \A i \in DOMAIN s : i >= 1
  <1>1. /\ Head(s) \in S /\ Tail(s) \in Seq(S) /\ Len(Tail(s)) = Len(s) - 1
        /\ \A i \in 1..Len(Tail(s)) : Tail(s)[i] = s[i + 1]
    BY HeadTailProperties
  <1>2. /\ Len(s) \in Nat \ {0} /\ DOMAIN s = 1..Len(s) /\ DOMAIN Tail(s) = 1..Len(s) - 1
    BY <1>1, LenProperties, EmptySeq
  <1>3. Head(s) = s[1]
    OBVIOUS
  <1> QED
    BY <1>1, <1>2, <1>3

\* A suffix.
LEMMA SuffixIndices ==
    ASSUME NEW S, NEW s \in Seq(S), NEW k \in DOMAIN s
    PROVE  /\ SubSeq(s, k + 1, Len(s)) \in Seq(S)
           /\ \A i \in DOMAIN SubSeq(s, k + 1, Len(s)) :
                 i \in Nat /\ i >= 1 /\ k + i \in DOMAIN s /\ SubSeq(s, k + 1, Len(s))[i] = s[k + i]
           /\ \A i \in DOMAIN s : i > k =>
                 i - k \in DOMAIN SubSeq(s, k + 1, Len(s)) /\ SubSeq(s, k + 1, Len(s))[i - k] = s[i]
           /\ k \in Nat /\ DOMAIN s \subseteq Nat
  <1>1. Len(s) \in Nat /\ DOMAIN s = 1..Len(s) /\ k \in 1..Len(s)
    BY LenProperties
  <1> DEFINE t == SubSeq(s, k + 1, Len(s))
  <1>2. \A i \in k + 1..Len(s) : s[i] \in S
    BY <1>1, ElementOfSeq
  <1>3. /\ t \in Seq(S) /\ Len(t) = (IF k + 1 <= Len(s) THEN Len(s) - (k + 1) + 1 ELSE 0)
        /\ \A i \in 1..Len(s) - (k + 1) + 1 : t[i] = s[k + 1 + i - 1]
    BY <1>1, <1>2, SubSeqProperties
  <1> HIDE DEF t
  <1>4. Len(t) = Len(s) - k /\ DOMAIN t = 1..Len(s) - k
    BY <1>1, <1>3, LenProperties
  <1>5. ASSUME NEW i \in 1..Len(s) - k PROVE t[i] = s[k + i]
    <2>1. i \in 1..Len(s) - (k + 1) + 1 /\ k + 1 + i - 1 = k + i
      BY <1>1
    <2> QED
      BY <1>3, <2>1
  <1>6. t \in Seq(S)
    BY <1>3
  <1>7. ASSUME NEW i \in DOMAIN s, i > k PROVE i - k \in DOMAIN t /\ t[i - k] = s[i]
    <2>1. i - k \in 1..Len(s) - k /\ k + (i - k) = i
      BY <1>1, <1>7
    <2> QED
      BY <1>4, <1>5, <2>1
  <1>8. \A i \in DOMAIN t : i \in Nat /\ i >= 1 /\ k + i \in DOMAIN s /\ t[i] = s[k + i]
    BY <1>1, <1>4, <1>5
  <1> QED
    BY <1>1, <1>6, <1>7, <1>8 DEF t

\* A task that is in a queue once is gone from it; the others stay, in order.
LEMMA RemoveFirstIndices ==
    ASSUME NEW S, NEW s \in Seq(S), NEW e,
           \A i, j \in DOMAIN s : s[i] = e /\ s[j] = e => i = j
    PROVE  /\ RemoveFirst(s, e) \in Seq(S)
           /\ \A i \in DOMAIN RemoveFirst(s, e) : RemoveFirst(s, e)[i] # e
           /\ \E g \in [DOMAIN RemoveFirst(s, e) -> DOMAIN s] :
                 /\ \A i \in DOMAIN RemoveFirst(s, e) : RemoveFirst(s, e)[i] = s[g[i]]
                 /\ \A i, j \in DOMAIN RemoveFirst(s, e) : (g[i] = g[j] => i = j) /\ (i < j => g[i] < g[j])
           /\ \A i \in DOMAIN s : s[i] # e => s[i] \in Range(RemoveFirst(s, e))
  <1>1. Len(s) \in Nat /\ DOMAIN s = 1..Len(s)
    BY LenProperties
  <1> DEFINE r == RemoveFirst(s, e)
  <1>2. CASE ~\E i \in 1..Len(s) : s[i] = e
    <2>1. r = s
      BY <1>2 DEF RemoveFirst
    <2>2. [i \in DOMAIN s |-> i] \in [DOMAIN s -> DOMAIN s]
      OBVIOUS
    <2> HIDE DEF r
    <2>3. \E g \in [DOMAIN r -> DOMAIN s] : (\A i \in DOMAIN r : r[i] = s[g[i]]) /\ (\A i, j \in DOMAIN r : (g[i] = g[j] => i = j) /\ (i < j => g[i] < g[j]))
      BY <2>1, <2>2
    <2> QED
      BY <1>1, <1>2, <2>1, <2>3 DEF Range, r
  <1>3. CASE \E i \in 1..Len(s) : s[i] = e
    <2>1. PICK k \in 1..Len(s) : s[k] = e
      BY <1>3
    <2>2. {i \in 1..Len(s) : s[i] = e} = {k}
      BY <1>1, <2>1
    <2>3. SelectInSeq(s, LAMBDA v : v = e) = k
      <3>1. SelectInSeq(s, LAMBDA v : v = e) = Min({k})
        BY <2>2 DEF SelectInSeq
      <3>2. Min({k}) = k
        BY DEF Min
      <3> QED
        BY <3>1, <3>2
    <2>4. r = SubSeq(s, 1, k - 1) \o SubSeq(s, k + 1, Len(s))
      BY <1>3, <2>3 DEF RemoveFirst, RemoveAt
    <2> DEFINE a == SubSeq(s, 1, k - 1)
               b == SubSeq(s, k + 1, Len(s))
    <2>5. a \in Seq(S) /\ Len(a) = k - 1 /\ \A i \in 1..k - 1 : a[i] = s[i]
      <3>1. \A i \in 1..k - 1 : s[i] \in S
        BY <1>1, ElementOfSeq
      <3>2. /\ SubSeq(s, 1, k - 1) \in Seq(S)
            /\ Len(SubSeq(s, 1, k - 1)) = IF 1 <= k - 1 THEN k - 1 - 1 + 1 ELSE 0
            /\ \A i \in 1..k - 1 - 1 + 1 : SubSeq(s, 1, k - 1)[i] = s[1 + i - 1]
        BY <1>1, <3>1, SubSeqProperties
      <3> QED
        BY <1>1, <3>2
    <2>6. b \in Seq(S) /\ Len(b) = Len(s) - k /\ \A i \in 1..Len(s) - k : b[i] = s[k + i]
      <3>1. \A i \in k + 1..Len(s) : s[i] \in S
        BY <1>1, ElementOfSeq
      <3>2. /\ SubSeq(s, k + 1, Len(s)) \in Seq(S)
            /\ Len(SubSeq(s, k + 1, Len(s))) = IF k + 1 <= Len(s) THEN Len(s) - (k + 1) + 1 ELSE 0
            /\ \A i \in 1..Len(s) - (k + 1) + 1 : SubSeq(s, k + 1, Len(s))[i] = s[k + 1 + i - 1]
        BY <1>1, <3>1, SubSeqProperties
      <3>3. b \in Seq(S)
        BY <3>2
      <3>5. Len(b) = Len(s) - k
        <4>1. Len(s) \in Int /\ k \in Int /\ k <= Len(s)
          BY <1>1, <2>1
        <4>2. CASE k + 1 <= Len(s)
          BY <3>2, <4>1, <4>2
        <4>3. CASE k = Len(s)
          BY <3>2, <4>1, <4>3
        <4> QED
          BY <4>1, <4>2, <4>3
      <3>4. ASSUME NEW i \in 1..Len(s) - k PROVE b[i] = s[k + i]
        <4>1. i \in 1..Len(s) - (k + 1) + 1 /\ k + 1 + i - 1 = k + i
          BY <1>1
        <4> QED
          BY <3>2, <4>1
      <3> QED
        BY <3>3, <3>4, <3>5
    <2>7. r = a \o b
      BY <2>4
    <2> HIDE DEF a, b, r
    <2>8. /\ r \in Seq(S) /\ Len(r) = Len(s) - 1 /\ DOMAIN r = 1..Len(s) - 1
          /\ \A i \in 1..Len(s) - 1 : r[i] = IF i < k THEN s[i] ELSE s[i + 1]
      <3>1. /\ a \o b \in Seq(S) /\ Len(a \o b) = Len(a) + Len(b)
            /\ \A i \in 1..Len(a) + Len(b) : (a \o b)[i] = IF i <= Len(a) THEN a[i] ELSE b[i - Len(a)]
        <4>1. a \in Seq(S) /\ b \in Seq(S)
          BY <2>5, <2>6
        <4> QED
          BY <4>1, ConcatProperties
      <3>2. Len(a) + Len(b) = Len(s) - 1
        BY <1>1, <2>5, <2>6
      <3>3. r \in Seq(S) /\ Len(r) = Len(s) - 1
        BY <2>7, <3>1, <3>2
      <3>4. ASSUME NEW i \in 1..Len(s) - 1 PROVE r[i] = IF i < k THEN s[i] ELSE s[i + 1]
        <4>1. r[i] = IF i <= k - 1 THEN a[i] ELSE b[i - (k - 1)]
          BY <2>5, <2>7, <3>1, <3>2
        <4>2. CASE i < k
          BY <1>1, <2>5, <4>1, <4>2
        <4>3. CASE ~(i < k)
          <5>1. i - (k - 1) \in 1..Len(s) - k /\ k + (i - (k - 1)) = i + 1
            BY <1>1, <4>3
          <5> QED
            BY <1>1, <2>6, <4>1, <4>3, <5>1
        <4> QED
          BY <4>2, <4>3
      <3> QED
        BY <1>1, <3>3, <3>4, LenProperties
    <2>9. \A i \in DOMAIN r : r[i] # e
      <3> TAKE i \in DOMAIN r
      <3>1. CASE i < k
        BY <1>1, <2>1, <2>8, <3>1
      <3>2. CASE ~(i < k)
        <4>1. i + 1 \in DOMAIN s /\ i + 1 # k /\ r[i] = s[i + 1]
          BY <1>1, <2>8, <3>2
        <4> QED
          BY <1>1, <2>1, <4>1
      <3> QED
        BY <3>1, <3>2
    <2>10. \E g \in [DOMAIN r -> DOMAIN s] : (\A i \in DOMAIN r : r[i] = s[g[i]]) /\ (\A i, j \in DOMAIN r : (g[i] = g[j] => i = j) /\ (i < j => g[i] < g[j]))
      <3> DEFINE g == [i \in DOMAIN r |-> IF i < k THEN i ELSE i + 1]
      <3>1. g \in [DOMAIN r -> DOMAIN s]
        BY <1>1, <2>8
      <3>2. \A i \in DOMAIN r : r[i] = s[g[i]]
        BY <2>8
      <3>3. \A i, j \in DOMAIN r : (g[i] = g[j] => i = j) /\ (i < j => g[i] < g[j])
        BY <1>1, <2>8
      <3> HIDE DEF g
      <3> QED
        BY <3>1, <3>2, <3>3
    <2>11. ASSUME NEW i \in DOMAIN s, s[i] # e PROVE s[i] \in Range(r)
      <3>1. CASE i < k
        <4>1. i \in DOMAIN r /\ r[i] = s[i]
          BY <1>1, <2>8, <3>1
        <4> QED
          BY <4>1 DEF Range
      <3>2. CASE ~(i < k)
        <4>1. i - 1 \in DOMAIN r /\ r[i - 1] = s[i]
          BY <1>1, <2>1, <2>8, <2>11, <3>2
        <4> QED
          BY <4>1 DEF Range
      <3> QED
        BY <3>1, <3>2
    <2> QED
      BY <2>8, <2>9, <2>10, <2>11 DEF r
  <1> QED
    BY <1>2, <1>3


-----------------------------------------------------------------------------
(* Commands, frames and what they do to an output. *)

LEMMA CommandFields ==
    ASSUME NEW c \in Commands
    PROVE  /\ c.addr \in Addresses /\ c.on \in BOOLEAN /\ c.level \in Levels \cup {0}
           /\ c.on => c.level \in Levels /\ c.level # 0
           /\ ~c.on => c.level = 0
           /\ c # Request
           /\ Targets(c.addr) \subseteq Outputs
           /\ RawEcho(c) \in States
           /\ \A s \in States : Applied(c, s) \in States
           /\ \A s \in States \cup {None} : Remembering(s, c) \in States
  <1>1. c.addr \in Addresses /\ c.on \in BOOLEAN /\ c.level \in Levels \cup {0}
    BY DEF Commands
  <1>2. (c.on => c.level \in Levels /\ c.level # 0) /\ (~c.on => c.level = 0)
    BY DEF Commands
  <1>3. c # Request
    <2>1. DOMAIN c = {"addr", "on", "level"}
      BY DEF Commands
    <2>2. DOMAIN Request = {"kind"}
      BY DEF Request
    <2> QED
      BY <2>1, <2>2
  <1>4. Targets(c.addr) \subseteq Outputs
    BY <1>1 DEF Targets, Addresses
  <1>5. RawEcho(c) \in States
    BY <1>1 DEF RawEcho, States
  <1>6. \A s \in States : Applied(c, s) \in States
    BY <1>1 DEF Applied, States
  <1>7. \A s \in States \cup {None} : Remembering(s, c) \in States
    BY <1>5, <1>6 DEF Remembering
  <1> QED
    BY <1>1, <1>2, <1>3, <1>4, <1>5, <1>6, <1>7

LEMMA FrameFields ==
    ASSUME NEW f \in Frames
    PROVE  /\ f.kind \in {"echo", "push", "state", "report"}
           /\ f.kind \in {"echo", "push"} => f.cmd \in Commands
           /\ f.kind = "echo" => f = Echo(f.cmd)
           /\ f.kind = "state" => f.addr \in Outputs /\ f.state \in States
           /\ f.kind = "report" => f.states \in [Outputs -> States]
  <1>1. CASE f \in [kind : {"echo"}, cmd : Commands]
    BY <1>1 DEF Echo
  <1>2. CASE f \in [kind : {"push"}, cmd : Commands]
    BY <1>2
  <1>3. CASE f \in [kind : {"state"}, addr : Outputs, state : States]
    BY <1>3
  <1>4. CASE f \in [kind : {"report"}, states : [Outputs -> States]]
    BY <1>4
  <1> QED
    BY <1>1, <1>2, <1>3, <1>4 DEF Frames

\* What the frames look like that are made.
LEMMA FramesMade ==
    /\ \A c \in Commands : Echo(c) \in Frames /\ [kind |-> "push", cmd |-> c] \in Frames
    /\ \A o \in Outputs, s \in States : [kind |-> "state", addr |-> o, state |-> s] \in Frames
    /\ \A s \in [Outputs -> States] : [kind |-> "report", states |-> s] \in Frames
  BY DEF Frames, Echo

\* A record of a room is one of its members.
LEMMA RecordMembersType ==
    ASSUME NEW states \in [Addresses -> States \cup {None}], NEW c \in Commands
    PROVE  RecordMembers(states, c) \in [Addresses -> States \cup {None}]
  <1>1. \A s \in States \cup {None} : Remembering(s, c) \in States
    BY CommandFields
  <1> QED
    BY <1>1 DEF RecordMembers

\* SetToSeq lists the targets of a command, each once.
LEMMA TargetsListed ==
    ASSUME NEW c \in Commands
    PROVE  LET T == Targets(c.addr)
           IN  /\ Cardinality(T) \in Nat
               /\ SetToSeq(T) \in [1..Cardinality(T) -> T]
               /\ \A o \in T : \E i \in 1..Cardinality(T) : SetToSeq(T)[i] = o
  <1> DEFINE T == Targets(c.addr)
             n == Cardinality(T)
             f == SetToSeq(T)
  <1>1. IsFiniteSet(T)
    BY FS_Singleton DEF Targets
  <1>2. n \in Nat /\ ExistsBijection(1..n, T)
    BY <1>1, FS_CardinalityType
  <1>3. \E g \in [1..n -> T] : IsInjective(g)
    BY <1>2 DEF ExistsBijection, Bijection, Injection
  <1>4. f \in [1..n -> T] /\ IsInjective(f)
    BY <1>3 DEF SetToSeq
  <1>5. f \in Injection(1..n, T)
    BY <1>4 DEF Injection
  <1>6. Cardinality(1..n) = n
    <2>1. n \in Int /\ (1 > n => n = 0)
      BY <1>2
    <2> QED
      BY <2>1, FS_Interval
  <1> HIDE DEF T, n, f
  <1>7. f \in Surjection(1..n, T)
    BY <1>1, <1>5, <1>6, FS_Injection DEF n
  <1>8. \A o \in T : \E i \in 1..n : f[i] = o
    BY <1>7 DEF Surjection
  <1> QED
    BY <1>2, <1>4, <1>8 DEF T, n, f

\* Every target of a command, and nothing else, tells what it now is.
AllTell(told, c) ==
    /\ \A i \in DOMAIN told : /\ told[i].kind = "state" /\ told[i].addr \in Targets(c.addr)
                              /\ told[i].state = real'[told[i].addr]
    /\ \A o \in Targets(c.addr) : \E i \in DOMAIN told : told[i].addr = o

\* What an effect puts on the wire: every target tells of itself, after what comes first.
LEMMA EffectFrames ==
    ASSUME TypeOK, NEW c \in Commands, NEW first, Effect(c, first)
    PROVE  /\ real' \in [Outputs -> States]
           /\ \A o \in Outputs : real'[o] = IF o \in Targets(c.addr) THEN Applied(c, real[o]) ELSE real[o]
           /\ \E told \in Seq(Frames) :
                 /\ downlink' = IF link = "up" THEN downlink \o (first \o told) ELSE downlink
                 /\ AllTell(told, c)
  <1> DEFINE T == Targets(c.addr)
             n == Cardinality(T)
             f == SetToSeq(T)
             told == [i \in 1..n |-> [kind |-> "state", addr |-> f[i], state |-> real'[f[i]]]]
  <1>1. /\ n \in Nat /\ f \in [1..n -> T]
        /\ \A o \in T : \E i \in 1..n : f[i] = o
    BY TargetsListed
  <1>2. real' = [o \in Outputs |-> IF o \in T THEN Applied(c, real[o]) ELSE real[o]]
    BY DEF Effect
  <1>3. T \subseteq Outputs /\ \A s \in States : Applied(c, s) \in States
    BY CommandFields
  <1>4. real' \in [Outputs -> States]
    BY <1>2, <1>3 DEF TypeOK
  <1>5. downlink' = IF link = "up" THEN downlink \o (first \o told) ELSE downlink
    BY DEF Effect, Received
  <1> HIDE DEF T, n, f
  <1>6. told \in Seq(Frames)
    <2>1. \A i \in 1..n : told[i] \in Frames
      BY <1>1, <1>3, <1>4, FramesMade
    <2> HIDE DEF told
    <2>2. told = [i \in 1..n |-> told[i]]
      BY DEF told
    <2> QED
      BY <1>1, <2>1, <2>2
  <1>7. /\ DOMAIN told = 1..n
        /\ \A i \in 1..n : told[i].kind = "state" /\ told[i].addr = f[i] /\ told[i].state = real'[f[i]]
    OBVIOUS
  <1> HIDE DEF told
  <1>8. \A i \in DOMAIN told : told[i].kind = "state" /\ told[i].addr \in T /\ told[i].state = real'[told[i].addr]
    BY <1>1, <1>7
  <1>9. \A o \in T : \E i \in DOMAIN told : told[i].addr = o
    BY <1>1, <1>7
  <1> QED
    BY <1>2, <1>4, <1>5, <1>6, <1>8, <1>9 DEF T, AllTell


-----------------------------------------------------------------------------
(* Types. *)

LEMMA InitType == Init => TypeOK
  <1> SUFFICES ASSUME Init PROVE TypeOK
    OBVIOUS
  <1>1. real \in [Outputs -> States]
    BY DEF Init, States
  <1>2. uplink \in Seq(Commands \cup {Request}) /\ downlink \in Seq(Frames)
    BY DEF Init
  <1> QED
    BY <1>1, <1>2 DEF Init, TypeOK

\* The end of a task keeps the types of what it writes.
LEMMA FinishedType ==
    ASSUME TypeOK, NEW w \in Writes, Finished(w)
    PROVE  /\ pc' \in [Writes -> {"idle", "wait", "woken", "over"}]
           /\ command' \in [Writes -> Commands \cup {None}]
           /\ prior' \in [Writes -> States \cup {None}]
           /\ overtaken' \subseteq Writes
  BY DEF Finished, TypeOK

\* A task that waits, or is about to leave, in a queue once.
LEMMA WithoutIs ==
    ASSUME TypeOK, WaitersWait, NEW w \in Writes, command[w] \in Commands
    PROVE  /\ Without(ackWaiters, w) \in [Commands -> Seq(Writes)]
           /\ \A c \in Commands : c # command[w] => Without(ackWaiters, w)[c] = ackWaiters[c]
           /\ Without(ackWaiters, w)[command[w]] = RemoveFirst(ackWaiters[command[w]], w)
           /\ \A i, j \in DOMAIN ackWaiters[command[w]] :
                 ackWaiters[command[w]][i] = w /\ ackWaiters[command[w]][j] = w => i = j
  <1> DEFINE q == ackWaiters[command[w]]
  <1>1. q \in Seq(Writes)
    BY DEF TypeOK
  <1>2. \A i, j \in DOMAIN q : q[i] = w /\ q[j] = w => i = j
    BY DEF WaitersWait
  <1>3. RemoveFirst(q, w) \in Seq(Writes)
    BY <1>1, <1>2, RemoveFirstIndices
  <1> QED
    BY <1>2, <1>3 DEF Without, TypeOK

\* What is recorded is a state of everything.
LEMMA RecordType ==
    ASSUME TypeOK, NEW w \in Writes, command[w] \in Commands, Record(w)
    PROVE  state' \in [Addresses -> States \cup {None}]
  <1> DEFINE c == command[w]
             recorded == IF state[c.addr] \in {None, prior[w], RawEcho(c)}
                         THEN [state EXCEPT ![c.addr] = Remembering(prior[w], c)]
                         ELSE state
  <1>1. Remembering(prior[w], c) \in States
    BY CommandFields DEF TypeOK
  <1>2. recorded \in [Addresses -> States \cup {None}]
    BY <1>1 DEF TypeOK
  <1>3. state' = IF c.addr = Room THEN RecordMembers(recorded, c) ELSE recorded
    BY DEF Record
  <1> HIDE DEF recorded
  <1> QED
    BY <1>2, <1>3, RecordMembersType

\* A set of numbers has a least one: prefixes of the numbers are ordered by inclusion.
LEMMA LeastNumber ==
    ASSUME NEW T \in SUBSET Nat, T # {}
    PROVE  \E n \in T : \A k \in T : n <= k
  <1> DEFINE Below == {0..n : n \in T}
  <1>1. Below \subseteq FiniteSubsetsOf(Nat) /\ Below # {}
    <2>1. ASSUME NEW n \in T PROVE 0..n \in SUBSET Nat /\ IsFiniteSet(0..n)
      BY FS_Interval
    <2> QED
      BY <2>1 DEF FiniteSubsetsOf
  <1>2. PICK x \in Below : \A y \in Below : ~(<<y, x>> \in StrictSubsetOrdering(Nat))
    <2> HIDE DEF Below
    <2>1. IsWellFoundedOn(StrictSubsetOrdering(Nat), FiniteSubsetsOf(Nat))
      BY FS_StrictSubsetOrderingWellFounded
    <2> QED
      BY <1>1, <2>1, WFMin
  <1>3. PICK n \in T : x = 0..n
    BY <1>2
  <1>4. ASSUME NEW k \in T, ~(n <= k) PROVE FALSE
    <2>1. k \in Nat /\ n \in Nat /\ k < n
      BY <1>4
    <2>2. n \in 0..n /\ n \notin 0..k /\ 0..k \subseteq 0..n
      BY <2>1
    <2>3. <<0..k, 0..n>> \in StrictSubsetOrdering(Nat)
      BY <2>1, <2>2 DEF StrictSubsetOrdering
    <2> QED
      BY <1>2, <1>3, <2>3
  <1> QED
    BY <1>4

\* An acknowledgement wakes the first task that waits, and drops those before it.
LEMMA AckIs ==
    ASSUME TypeOK, NEW c \in Commands, AckResolved(c)
    PROVE  \/ /\ \A i \in DOMAIN ackWaiters[c] : pc[ackWaiters[c][i]] # "wait"
              /\ ackWaiters' = [ackWaiters EXCEPT ![c] = <<>>]
              /\ pc' = pc
           \/ \E k \in DOMAIN ackWaiters[c] :
              /\ pc[ackWaiters[c][k]] = "wait"
              /\ \A i \in DOMAIN ackWaiters[c] : i < k => pc[ackWaiters[c][i]] # "wait"
              /\ ackWaiters' = [ackWaiters EXCEPT ![c] = SubSeq(ackWaiters[c], k + 1, Len(ackWaiters[c]))]
              /\ pc' = [pc EXCEPT ![ackWaiters[c][k]] = "woken"]
  <1> DEFINE q == ackWaiters[c]
             live == {i \in DOMAIN q : pc[q[i]] = "wait"}
             first == CHOOSE i \in live : \A j \in live : i <= j
  <1>1. CASE live = {}
    BY <1>1 DEF AckResolved
  <1>2. CASE live # {}
    <2>1. live \subseteq Nat
      <3>1. DOMAIN q = 1..Len(q)
        BY LenProperties DEF TypeOK
      <3> QED
        BY <3>1
    <2>2. \E i \in live : \A j \in live : i <= j
      <3> HIDE DEF live
      <3> QED
        BY <1>2, <2>1, LeastNumber
    <2>3. first \in live /\ \A j \in live : first <= j
      BY <2>2
    <2>4. /\ ackWaiters' = [ackWaiters EXCEPT ![c] = SubSeq(@, first + 1, Len(@))]
          /\ pc' = [pc EXCEPT ![q[first]] = "woken"]
      BY <1>2 DEF AckResolved
    <2>5. ackWaiters' = [ackWaiters EXCEPT ![c] = SubSeq(q, first + 1, Len(q))]
      BY <2>4
    <2> HIDE DEF first
    <2>6. \A i \in DOMAIN q : i < first => pc[q[i]] # "wait"
      BY <2>1, <2>3
    <2> QED
      BY <2>3, <2>4, <2>5, <2>6
  <1> QED
    BY <1>1, <1>2


\* What the frames do keeps the types.
LEMMA AckType ==
    ASSUME TypeOK, NEW c \in Commands, AckResolved(c)
    PROVE  ackWaiters' \in [Commands -> Seq(Writes)] /\ pc' \in [Writes -> {"idle", "wait", "woken", "over"}]
  <1>1. ackWaiters[c] \in Seq(Writes)
    BY DEF TypeOK
  <1>2. CASE ackWaiters' = [ackWaiters EXCEPT ![c] = <<>>] /\ pc' = pc
    BY <1>2 DEF TypeOK
  <1>3. ASSUME NEW k \in DOMAIN ackWaiters[c],
               ackWaiters' = [ackWaiters EXCEPT ![c] = SubSeq(ackWaiters[c], k + 1, Len(ackWaiters[c]))],
               pc' = [pc EXCEPT ![ackWaiters[c][k]] = "woken"]
        PROVE  /\ ackWaiters' \in [Commands -> Seq(Writes)]
               /\ pc' \in [Writes -> {"idle", "wait", "woken", "over"}]
    <2>1. SubSeq(ackWaiters[c], k + 1, Len(ackWaiters[c])) \in Seq(Writes)
      BY <1>1, SuffixIndices
    <2> QED
      BY <1>3, <2>1 DEF TypeOK
  <1> QED
    BY <1>2, <1>3, AckIs

LEMMA HandleFrameType ==
    ASSUME TypeOK, HandleFrame
    PROVE  /\ TypeOK' /\ Head(downlink) \in Frames
           /\ LET frame == Head(downlink)
              IN  \/ frame.kind \in {"echo", "push"} /\ HandleCommand(frame)
                  \/ frame.kind = "state" /\ HandleState(frame)
                  \/ frame.kind = "report" /\ HandleReport(frame)
  <1> DEFINE frame == Head(downlink)
  <1>1. frame \in Frames /\ downlink' \in Seq(Frames)
    BY TailIndices DEF HandleFrame, TypeOK
  <1>2. /\ UNCHANGED <<real, link, uplink, command, prior, lost, troubles>>
        /\ \/ frame.kind \in {"echo", "push"} /\ HandleCommand(frame)
           \/ frame.kind = "state" /\ HandleState(frame)
           \/ frame.kind = "report" /\ HandleReport(frame)
    BY DEF HandleFrame
  <1> HIDE DEF frame
  <1>3. /\ state' \in [Addresses -> States \cup {None}] /\ ackWaiters' \in [Commands -> Seq(Writes)]
        /\ pc' \in [Writes -> {"idle", "wait", "woken", "over"}]
        /\ overtaken' \subseteq Writes /\ blind' \subseteq Outputs
    <2>1. CASE frame.kind \in {"echo", "push"} /\ HandleCommand(frame)
      <3>1. frame.cmd \in Commands
        BY <1>1, <2>1, FrameFields
      <3>2. state' \in [Addresses -> States \cup {None}]
        <4>1. [state EXCEPT ![frame.cmd.addr] = RawEcho(frame.cmd)] \in [Addresses -> States \cup {None}]
          BY <3>1, CommandFields DEF TypeOK
        <4> QED
          BY <2>1, <3>1, <4>1, RecordMembersType DEF HandleCommand
      <3>3. ackWaiters' \in [Commands -> Seq(Writes)] /\ pc' \in [Writes -> {"idle", "wait", "woken", "over"}]
        BY <2>1, <3>1, AckType DEF HandleCommand, TypeOK
      <3> QED
        BY <2>1, <3>2, <3>3 DEF HandleCommand, Overtakes, TypeOK
    <2>2. CASE frame.kind = "state" /\ HandleState(frame)
      <3>1. frame.addr \in Outputs /\ frame.state \in States
        BY <1>1, <2>2, FrameFields
      <3> QED
        BY <2>2, <3>1 DEF HandleState, Overtakes, TypeOK, Addresses
    <2>3. CASE frame.kind = "report" /\ HandleReport(frame)
      <3>1. frame.states \in [Outputs -> States]
        BY <1>1, <2>3, FrameFields
      <3> QED
        BY <2>3, <3>1 DEF HandleReport, Overtakes, TypeOK, Addresses
    <2> QED
      BY <1>2, <2>1, <2>2, <2>3
  <1> QED
    BY <1>1, <1>2, <1>3 DEF TypeOK, frame

\* A command or a request is what there is to relay.
LEMMA RelayedHead ==
    ASSUME TypeOK, uplink # <<>>
    PROVE  /\ Tail(uplink) \in Seq(Commands \cup {Request})
           /\ Head(uplink) \in Commands \cup {Request}
  BY TailIndices DEF TypeOK

LEMMA EffectType ==
    ASSUME TypeOK, NEW c \in Commands, NEW first \in Seq(Frames), Effect(c, first)
    PROVE  real' \in [Outputs -> States] /\ downlink' \in Seq(Frames)
  <1>1. PICK told \in Seq(Frames) :
              /\ downlink' = IF link = "up" THEN downlink \o (first \o told) ELSE downlink
              /\ AllTell(told, c)
    BY EffectFrames
  <1>2. downlink \o (first \o told) \in Seq(Frames)
    BY ConcatProperties DEF TypeOK
  <1> QED
    BY <1>1, <1>2, EffectFrames DEF TypeOK

\* Every action keeps the types.
LEMMA TaskType ==
    ASSUME TypeOK, TaskInv, WaitersWait, NEW w \in Writes,
           (\E c \in Commands : Write(w, c)) \/ TimesOut(w) \/ Resume(w) \/ Cancel(w)
    PROVE  TypeOK' /\ TaskInv'
  <1>1. ASSUME NEW c \in Commands, Write(w, c) PROVE TypeOK' /\ TaskInv'
    <2>1. Append(ackWaiters[c], w) \in Seq(Writes)
      BY AppendProperties DEF TypeOK
    <2>2. Append(uplink, c) \in Seq(Commands \cup {Request})
      BY AppendProperties DEF TypeOK
    <2>3. state[c.addr] \in States \cup {None}
      BY CommandFields DEF TypeOK
    <2> QED
      BY <1>1, <2>1, <2>2, <2>3 DEF Write, TypeOK, TaskInv, ghosts
  <1>2. CASE TimesOut(w)
    BY <1>2 DEF TimesOut, TypeOK, TaskInv, ghosts
  <1>3. CASE Resume(w)
    <2>1. command[w] \in Commands
      BY <1>3 DEF Resume, TaskInv
    <2>2. Targets(command[w].addr) \subseteq Outputs
      BY <2>1, CommandFields
    <2>3. /\ state' \in [Addresses -> States \cup {None}] /\ ackWaiters' \in [Commands -> Seq(Writes)]
          /\ blind' \subseteq Outputs
      BY <1>3, <2>1, <2>2, RecordType, WithoutIs DEF Resume, TypeOK
    <2>4. TypeOK'
      BY <1>3, <2>3, FinishedType DEF Resume, TypeOK
    <2> QED
      BY <1>3, <2>4 DEF Resume, Finished, TaskInv, TypeOK
  <1>4. CASE Cancel(w)
    <2>1. command[w] \in Commands
      BY <1>4 DEF Cancel, TaskInv
    <2>2. ackWaiters' \in [Commands -> Seq(Writes)]
      BY <1>4, <2>1, WithoutIs DEF Cancel
    <2>3. TypeOK'
      BY <1>4, <2>2, FinishedType DEF Cancel, TypeOK
    <2> QED
      BY <1>4, <2>3 DEF Cancel, Finished, TaskInv, TypeOK
  <1> QED
    BY <1>1, <1>2, <1>3, <1>4

LEMMA SocketType ==
    ASSUME TypeOK, TaskInv, Drop \/ Reconnect \/ Connected
    PROVE  TypeOK' /\ TaskInv'
  <1>1. CASE Drop
    <2>1. uplink' \in Seq(Commands \cup {Request}) /\ downlink' \in Seq(Frames)
      <3>1. (uplink' = uplink \/ uplink' = <<>>) /\ downlink' = <<>>
        BY <1>1 DEF Drop
      <3>2. <<>> \in Seq(Commands \cup {Request}) /\ <<>> \in Seq(Frames)
        BY EmptySeq
      <3>3. uplink \in Seq(Commands \cup {Request})
        BY DEF TypeOK
      <3> QED
        BY <3>1, <3>2, <3>3
    <2> QED
      BY <1>1, <2>1 DEF Drop, Trouble, TypeOK, TaskInv, ghosts, tasks
  <1>2. CASE Reconnect
    <2>1. ackWaiters' \in [Commands -> Seq(Writes)]
      BY <1>2 DEF Reconnect
    <2> QED
      BY <1>2, <2>1 DEF Reconnect, TypeOK, TaskInv, ghosts
  <1>3. CASE Connected
    <2>1. Append(uplink, Request) \in Seq(Commands \cup {Request})
      BY AppendProperties DEF TypeOK
    <2> QED
      BY <1>3, <2>1 DEF Connected, TypeOK, TaskInv, ghosts, tasks
  <1> QED
    BY <1>1, <1>2, <1>3

LEMMA RelayType ==
    ASSUME TypeOK, TaskInv,
           RelayCommand \/ RelayRequest \/ RelayLoses \/ \E c \in Commands : ForeignCommand(c)
    PROVE  TypeOK' /\ TaskInv'
  <1>1. CASE RelayCommand
    <2>1. Head(uplink) \in Commands /\ uplink' \in Seq(Commands \cup {Request})
      BY <1>1, RelayedHead DEF RelayCommand
    <2>2. <<Echo(Head(uplink))>> \in Seq(Frames)
      <3>1. Echo(Head(uplink)) \in Frames
        BY <2>1, FramesMade
      <3> QED
        BY <3>1
    <2>3. real' \in [Outputs -> States] /\ downlink' \in Seq(Frames)
      BY <1>1, <2>1, <2>2, EffectType DEF RelayCommand, Echo
    <2> QED
      BY <1>1, <2>1, <2>3 DEF RelayCommand, TypeOK, TaskInv, ghosts, tasks
  <1>2. CASE RelayRequest
    <2>1. <<[kind |-> "report", states |-> real]>> \in Seq(Frames)
      BY FramesMade DEF TypeOK
    <2>2. downlink' \in Seq(Frames)
      BY <1>2, <2>1, ConcatProperties DEF RelayRequest, Received, TypeOK
    <2>3. uplink' \in Seq(Commands \cup {Request})
      BY <1>2, RelayedHead DEF RelayRequest
    <2> QED
      BY <1>2, <2>2, <2>3 DEF RelayRequest, TypeOK, TaskInv, ghosts, tasks
  <1>3. CASE RelayLoses
    <2>1. Head(uplink) \in Commands /\ uplink' \in Seq(Commands \cup {Request})
      BY <1>3, RelayedHead DEF RelayLoses
    <2>2. Targets(Head(uplink).addr) \subseteq Outputs
      BY <2>1, CommandFields
    <2> QED
      BY <1>3, <2>1, <2>2 DEF RelayLoses, Trouble, TypeOK, TaskInv, tasks
  <1>4. ASSUME NEW c \in Commands, ForeignCommand(c) PROVE TypeOK' /\ TaskInv'
    <2> DEFINE first == IF c.addr = Room THEN <<[kind |-> "push", cmd |-> c]>> ELSE <<>>
    <2>1. first \in Seq(Frames)
      BY FramesMade
    <2>2. Effect(c, first)
      BY <1>4 DEF ForeignCommand
    <2> HIDE DEF first
    <2>3. real' \in [Outputs -> States] /\ downlink' \in Seq(Frames)
      BY <2>1, <2>2, EffectType
    <2> QED
      BY <1>4, <2>3 DEF ForeignCommand, Trouble, TypeOK, TaskInv, ghosts, tasks
  <1> QED
    BY <1>1, <1>2, <1>3, <1>4

\* An acknowledgement wakes tasks that have a command.
LEMMA HandleFrameTasks ==
    ASSUME TypeOK, TaskInv, HandleFrame
    PROVE  TaskInv'
  <1> DEFINE frame == Head(downlink)
  <1>1. /\ frame \in Frames
        /\ \/ frame.kind \in {"echo", "push"} /\ HandleCommand(frame)
           \/ frame.kind = "state" /\ HandleState(frame)
           \/ frame.kind = "report" /\ HandleReport(frame)
    BY HandleFrameType
  <1>2. command' = command
    BY DEF HandleFrame
  <1> HIDE DEF frame
  <1>3. pc' = pc \/ (frame.kind = "echo" /\ AckResolved(frame.cmd))
    BY <1>1 DEF HandleCommand, HandleState, HandleReport
  <1>4. CASE pc' = pc
    BY <1>2, <1>4 DEF TaskInv
  <1>5. CASE frame.kind = "echo" /\ AckResolved(frame.cmd)
    <2>1. frame.cmd \in Commands
      BY <1>1, <1>5, FrameFields
    <2>2. CASE pc' = pc
      BY <1>4, <2>2
    <2>3. ASSUME NEW k \in DOMAIN ackWaiters[frame.cmd], pc[ackWaiters[frame.cmd][k]] = "wait",
                 pc' = [pc EXCEPT ![ackWaiters[frame.cmd][k]] = "woken"]
          PROVE  TaskInv'
      <3>1. \A v \in Writes : pc'[v] \in {"wait", "woken"} => pc[v] \in {"wait", "woken"}
        BY <2>3 DEF TypeOK
      <3> QED
        BY <1>2, <3>1 DEF TaskInv
    <2> QED
      BY <1>5, <2>1, <2>2, <2>3, AckIs
  <1> QED
    BY <1>3, <1>4, <1>5

LEMMA TypeStep ==
    ASSUME TypeOK, TaskInv, WaitersWait, [Next]_vars
    PROVE  TypeOK' /\ TaskInv'
  <1>1. CASE UNCHANGED vars
    BY <1>1 DEF vars, TypeOK, TaskInv
  <1>2. CASE Next
    BY <1>2, TaskType, HandleFrameType, HandleFrameTasks, SocketType, RelayType DEF Next
  <1> QED
    BY <1>1, <1>2


-----------------------------------------------------------------------------
(* The queues of waiters. *)

\* A task that is started goes to the end of its queue.
LEMMA WriteQueues ==
    ASSUME TypeOK, TaskInv, WaitersWait, NEW w \in Writes, NEW c \in Commands, Write(w, c)
    PROVE  WaitersWait'
  <1> DEFINE q == ackWaiters[c]
             r == Append(q, w)
  <1>1. /\ pc[w] = "idle"
        /\ pc' = [pc EXCEPT ![w] = "wait"]
        /\ command' = [command EXCEPT ![w] = c]
        /\ ackWaiters' = [ackWaiters EXCEPT ![c] = r]
    BY DEF Write
  <1>2. q \in Seq(Writes) /\ ackWaiters'[c] = r /\ \A d \in Commands \ {c} : ackWaiters'[d] = ackWaiters[d]
    BY <1>1 DEF TypeOK
  <1>3. /\ \A i \in DOMAIN q : i \in DOMAIN r /\ r[i] = q[i]
        /\ Len(q) + 1 \in DOMAIN r /\ r[Len(q) + 1] = w
        /\ \A i \in DOMAIN r : i \in DOMAIN q \/ i = Len(q) + 1
    BY <1>2, AppendIndices
  <1>4. \A d \in Commands : \A i \in DOMAIN ackWaiters[d] :
            /\ ackWaiters[d][i] \in Writes /\ ackWaiters[d][i] # w
            /\ pc[ackWaiters[d][i]] \in {"wait", "woken"} /\ command[ackWaiters[d][i]] = d
            /\ \A j \in DOMAIN ackWaiters[d] : ackWaiters[d][j] = ackWaiters[d][i] => i = j
    <2>1. \A d \in Commands : \A i \in DOMAIN ackWaiters[d] : ackWaiters[d][i] \in Writes
      BY ElementOfSeq, LenProperties DEF TypeOK
    <2> QED
      BY <1>1, <2>1 DEF WaitersWait
  <1>5. pc'[w] = "wait" /\ command'[w] = c /\ \A v \in Writes \ {w} : pc'[v] = pc[v] /\ command'[v] = command[v]
    BY <1>1 DEF TypeOK
  <1> HIDE DEF q, r
  <1>6. ASSUME NEW d \in Commands, NEW i \in DOMAIN ackWaiters'[d]
        PROVE  /\ pc'[ackWaiters'[d][i]] \in {"wait", "woken"} /\ command'[ackWaiters'[d][i]] = d
               /\ \A j \in DOMAIN ackWaiters'[d] : ackWaiters'[d][j] = ackWaiters'[d][i] => i = j
    <2>1. CASE d # c
      BY <1>2, <1>4, <1>5, <2>1
    <2>2. CASE d = c
      BY <1>2, <1>3, <1>4, <1>5, <2>2 DEF q
    <2> QED
      BY <2>1, <2>2
  <1>7. ASSUME NEW v \in Writes, pc'[v] = "wait" PROVE v \in Range(ackWaiters'[command'[v]])
    <2>1. CASE v = w
      BY <1>2, <1>3, <1>5, <2>1 DEF Range
    <2>2. CASE v # w
      <3>1. pc[v] = "wait" /\ command'[v] = command[v] /\ command[v] \in Commands
        BY <1>5, <1>7, <2>2 DEF TaskInv
      <3>2. PICK i \in DOMAIN ackWaiters[command[v]] : ackWaiters[command[v]][i] = v
        BY <3>1 DEF WaitersWait, Range
      <3>3. i \in DOMAIN ackWaiters'[command[v]] /\ ackWaiters'[command[v]][i] = v
        BY <1>2, <1>3, <3>1, <3>2 DEF q
      <3> QED
        BY <3>1, <3>3 DEF Range
    <2> QED
      BY <2>1, <2>2
  <1> QED
    BY <1>6, <1>7 DEF WaitersWait

\* A task that ends is in no queue any more.
LEMMA EndQueues ==
    ASSUME TypeOK, TaskInv, WaitersWait, NEW w \in Writes, Resume(w) \/ Cancel(w)
    PROVE  WaitersWait'
  <1> DEFINE c == command[w]
             q == ackWaiters[c]
             r == RemoveFirst(q, w)
  <1>1. /\ pc[w] \in {"wait", "woken"} /\ c \in Commands
        /\ ackWaiters' = Without(ackWaiters, w)
        /\ pc' = [pc EXCEPT ![w] = "over"]
        /\ command' = [command EXCEPT ![w] = None]
    BY DEF Resume, Cancel, Finished, TaskInv
  <1>2. /\ ackWaiters'[c] = r /\ \A d \in Commands \ {c} : ackWaiters'[d] = ackWaiters[d]
        /\ q \in Seq(Writes)
        /\ \A i, j \in DOMAIN q : q[i] = w /\ q[j] = w => i = j
    BY <1>1, WithoutIs DEF TypeOK
  <1>3. /\ r \in Seq(Writes)
        /\ \A i \in DOMAIN r : r[i] # w
        /\ \E g \in [DOMAIN r -> DOMAIN q] :
              /\ \A i \in DOMAIN r : r[i] = q[g[i]]
              /\ \A i, j \in DOMAIN r : (g[i] = g[j] => i = j) /\ (i < j => g[i] < g[j])
        /\ \A i \in DOMAIN q : q[i] # w => q[i] \in Range(r)
    <2> HIDE DEF q
    <2> QED
      BY <1>2, RemoveFirstIndices, Zenon
  <1>4. \A d \in Commands : \A i \in DOMAIN ackWaiters[d] :
            /\ ackWaiters[d][i] \in Writes
            /\ pc[ackWaiters[d][i]] \in {"wait", "woken"} /\ command[ackWaiters[d][i]] = d
            /\ \A j \in DOMAIN ackWaiters[d] : ackWaiters[d][j] = ackWaiters[d][i] => i = j
    <2>1. \A d \in Commands : \A i \in DOMAIN ackWaiters[d] : ackWaiters[d][i] \in Writes
      BY ElementOfSeq, LenProperties DEF TypeOK
    <2> QED
      BY <2>1 DEF WaitersWait
  <1>5. pc'[w] = "over" /\ \A v \in Writes \ {w} : pc'[v] = pc[v] /\ command'[v] = command[v]
    BY <1>1 DEF TypeOK
  <1>6. PICK g \in [DOMAIN r -> DOMAIN q] :
              /\ \A i \in DOMAIN r : r[i] = q[g[i]]
              /\ \A i, j \in DOMAIN r : g[i] = g[j] => i = j
    BY <1>3
  <1>10. \A i \in DOMAIN q : /\ q[i] \in Writes /\ pc[q[i]] \in {"wait", "woken"} /\ command[q[i]] = c
                             /\ \A j \in DOMAIN q : q[j] = q[i] => i = j
    BY <1>1, <1>4
  <1> HIDE DEF q, r
  <1>7. ASSUME NEW d \in Commands, NEW i \in DOMAIN ackWaiters'[d]
        PROVE  /\ pc'[ackWaiters'[d][i]] \in {"wait", "woken"} /\ command'[ackWaiters'[d][i]] = d
               /\ \A j \in DOMAIN ackWaiters'[d] : ackWaiters'[d][j] = ackWaiters'[d][i] => i = j
    <2>1. CASE d # c
      <3>1. ackWaiters'[d] = ackWaiters[d] /\ command[ackWaiters[d][i]] = d /\ ackWaiters[d][i] # w
        BY <1>2, <1>4, <2>1
      <3> QED
        BY <1>4, <1>5, <3>1
    <2>2. CASE d = c
      <3>1. i \in DOMAIN r /\ r[i] = q[g[i]] /\ g[i] \in DOMAIN q /\ r[i] # w
        BY <1>2, <1>3, <1>6, <2>2
      <3>2. pc'[r[i]] \in {"wait", "woken"} /\ command'[r[i]] = c
        BY <1>5, <1>10, <3>1
      <3>3. ASSUME NEW j \in DOMAIN r, r[j] = r[i] PROVE i = j
        <4>1. g[j] \in DOMAIN q /\ q[g[j]] = q[g[i]]
          BY <1>6, <3>1, <3>3
        <4>2. g[i] = g[j]
          BY <1>10, <3>1, <4>1
        <4> QED
          BY <1>6, <3>1, <4>2
      <3> QED
        BY <1>2, <2>2, <3>2, <3>3
    <2> QED
      BY <2>1, <2>2
  <1>8. ASSUME NEW v \in Writes, pc'[v] = "wait" PROVE v \in Range(ackWaiters'[command'[v]])
    <2>1. v # w /\ pc[v] = "wait" /\ command'[v] = command[v] /\ command[v] \in Commands
      BY <1>5, <1>8 DEF TaskInv
    <2>2. PICK i \in DOMAIN ackWaiters[command[v]] : ackWaiters[command[v]][i] = v
      BY <2>1 DEF WaitersWait, Range
    <2>3. CASE command[v] = c
      BY <1>2, <1>3, <2>1, <2>2, <2>3 DEF q
    <2>4. CASE command[v] # c
      BY <1>2, <2>1, <2>2, <2>4 DEF Range
    <2> QED
      BY <2>3, <2>4
  <1> QED
    BY <1>7, <1>8 DEF WaitersWait

\* An acknowledgement: who is left waits, and was not before the one that is woken.
LEMMA AckQueues ==
    ASSUME TypeOK, TaskInv, WaitersWait, NEW c \in Commands, AckResolved(c), command' = command
    PROVE  WaitersWait'
  <1> DEFINE q == ackWaiters[c]
  <1>1. q \in Seq(Writes)
    BY DEF TypeOK
  <1>2. \A d \in Commands : \A i \in DOMAIN ackWaiters[d] :
            /\ ackWaiters[d][i] \in Writes
            /\ pc[ackWaiters[d][i]] \in {"wait", "woken"} /\ command[ackWaiters[d][i]] = d
            /\ \A j \in DOMAIN ackWaiters[d] : ackWaiters[d][j] = ackWaiters[d][i] => i = j
    <2>1. \A d \in Commands : \A i \in DOMAIN ackWaiters[d] : ackWaiters[d][i] \in Writes
      BY ElementOfSeq, LenProperties DEF TypeOK
    <2> QED
      BY <2>1 DEF WaitersWait
  <1>3. \A v \in Writes : pc[v] = "wait" =>
            command[v] \in Commands /\ \E i \in DOMAIN ackWaiters[command[v]] : ackWaiters[command[v]][i] = v
    BY DEF WaitersWait, Range, TaskInv
  <1>4. CASE /\ \A i \in DOMAIN q : pc[q[i]] # "wait"
             /\ ackWaiters' = [ackWaiters EXCEPT ![c] = <<>>]
             /\ pc' = pc
    <2>1. ackWaiters'[c] = <<>> /\ \A d \in Commands \ {c} : ackWaiters'[d] = ackWaiters[d]
      BY <1>4 DEF TypeOK
    <2>2. \A d \in Commands : \A i \in DOMAIN ackWaiters'[d] : d # c
      BY <2>1
    <2>3. ASSUME NEW v \in Writes, pc[v] = "wait" PROVE command[v] # c
      BY <1>3, <1>4, <2>3
    <2> HIDE DEF q
    <2>4. ASSUME NEW d \in Commands, NEW i \in DOMAIN ackWaiters'[d]
          PROVE  /\ pc'[ackWaiters'[d][i]] \in {"wait", "woken"} /\ command'[ackWaiters'[d][i]] = d
                 /\ \A j \in DOMAIN ackWaiters'[d] : ackWaiters'[d][j] = ackWaiters'[d][i] => i = j
      <3>1. ackWaiters'[d] = ackWaiters[d]
        BY <2>1, <2>2
      <3> QED
        BY <1>2, <1>4, <3>1
    <2>5. ASSUME NEW v \in Writes, pc'[v] = "wait" PROVE v \in Range(ackWaiters'[command'[v]])
      <3>1. pc[v] = "wait" /\ command[v] \in Commands \ {c}
        BY <1>3, <1>4, <2>3, <2>5
      <3> QED
        BY <1>3, <2>1, <3>1 DEF Range
    <2> QED
      BY <2>4, <2>5 DEF WaitersWait
  <1>5. ASSUME NEW k \in DOMAIN q, pc[q[k]] = "wait",
               \A i \in DOMAIN q : i < k => pc[q[i]] # "wait",
               ackWaiters' = [ackWaiters EXCEPT ![c] = SubSeq(q, k + 1, Len(q))],
               pc' = [pc EXCEPT ![q[k]] = "woken"]
        PROVE  WaitersWait'
    <2> DEFINE r == SubSeq(q, k + 1, Len(q))
    <2>1. ackWaiters'[c] = r /\ \A d \in Commands \ {c} : ackWaiters'[d] = ackWaiters[d]
      BY <1>5 DEF TypeOK
    <2>2. /\ \A i \in DOMAIN r : i \in Nat /\ i >= 1 /\ k + i \in DOMAIN q /\ r[i] = q[k + i]
          /\ \A i \in DOMAIN q : i > k => i - k \in DOMAIN r /\ r[i - k] = q[i]
          /\ k \in Nat /\ DOMAIN q \subseteq Nat
      <3> HIDE DEF q
      <3> QED
        BY <1>1, SuffixIndices
    <2>3. q[k] \in Writes /\ command[q[k]] = c
      BY <1>2
    <2>4. \A v \in Writes : pc[v] \in {"wait", "woken"} => pc'[v] \in {"wait", "woken"}
      BY <1>5 DEF TypeOK
    <2>5. \A v \in Writes : pc'[v] = "wait" => pc[v] = "wait" /\ v # q[k]
      BY <1>5 DEF TypeOK
    <2>6. \A i \in DOMAIN q : /\ q[i] \in Writes /\ pc[q[i]] \in {"wait", "woken"} /\ command[q[i]] = c
                              /\ \A j \in DOMAIN q : q[j] = q[i] => i = j
      BY <1>2
    <2>10. \A v \in Writes : pc[v] = "wait" /\ command[v] = c => \E i \in DOMAIN q : q[i] = v
      BY <1>3
    <2>11. k \in DOMAIN q /\ \A i \in DOMAIN q : i < k => pc[q[i]] # "wait"
      BY <1>5
    <2> HIDE DEF q, r
    <2>7. ASSUME NEW d \in Commands, NEW i \in DOMAIN ackWaiters'[d]
          PROVE  /\ pc'[ackWaiters'[d][i]] \in {"wait", "woken"} /\ command'[ackWaiters'[d][i]] = d
                 /\ \A j \in DOMAIN ackWaiters'[d] : ackWaiters'[d][j] = ackWaiters'[d][i] => i = j
      <3>1. CASE d # c
        BY <1>2, <2>1, <2>4, <3>1
      <3>2. CASE d = c
        <4>1. i \in DOMAIN r /\ k + i \in DOMAIN q /\ r[i] = q[k + i] /\ i \in Nat
          BY <2>1, <2>2, <3>2
        <4>2. pc'[r[i]] \in {"wait", "woken"} /\ command'[r[i]] = c
          BY <2>4, <2>6, <4>1
        <4>3. ASSUME NEW j \in DOMAIN r, r[j] = r[i] PROVE i = j
          <5>1. j \in Nat /\ k + j \in DOMAIN q /\ q[k + j] = q[k + i]
            BY <2>2, <4>1, <4>3
          <5>2. k + i = k + j
            BY <2>6, <4>1, <5>1
          <5> QED
            BY <2>2, <4>1, <5>1, <5>2
        <4> QED
          BY <2>1, <3>2, <4>2, <4>3
      <3> QED
        BY <3>1, <3>2
    <2>8. ASSUME NEW v \in Writes, pc'[v] = "wait" PROVE v \in Range(ackWaiters'[command'[v]])
      <3>1. pc[v] = "wait" /\ v # q[k] /\ command[v] \in Commands
        BY <1>3, <2>5, <2>8
      <3>2. CASE command[v] # c
        BY <1>3, <2>1, <3>1, <3>2 DEF Range
      <3>3. CASE command[v] = c
        <4>1. PICK i \in DOMAIN q : q[i] = v
          BY <2>10, <3>1, <3>3
        <4>2. i > k
          BY <2>2, <2>11, <3>1, <4>1
        <4>3. i - k \in DOMAIN r /\ r[i - k] = v
          BY <2>2, <4>1, <4>2
        <4> QED
          BY <2>1, <3>3, <4>3 DEF Range
      <3> QED
        BY <3>2, <3>3
    <2> QED
      BY <2>7, <2>8 DEF WaitersWait
  <1> QED
    BY <1>4, <1>5, AckIs

\* Every step keeps the waiters in their queues.
LEMMA WaitersStep ==
    ASSUME TypeOK, TaskInv, WaitersWait, [Next]_vars
    PROVE  WaitersWait'
  <1>1. CASE UNCHANGED <<pc, command, ackWaiters>>
    BY <1>1 DEF WaitersWait
  <1>2. CASE \E w \in Writes : TimesOut(w)
    <2>1. PICK w \in Writes : TimesOut(w)
      BY <1>2
    <2>2. /\ UNCHANGED <<command, ackWaiters>>
          /\ \A v \in Writes : pc[v] \in {"wait", "woken"} => pc'[v] \in {"wait", "woken"}
          /\ \A v \in Writes : pc'[v] = "wait" => pc[v] = "wait"
      BY <2>1 DEF TimesOut, TypeOK
    <2>3. \A c \in Commands : \A i \in DOMAIN ackWaiters[c] : ackWaiters[c][i] \in Writes
      BY ElementOfSeq, LenProperties DEF TypeOK
    <2> QED
      BY <2>2, <2>3 DEF WaitersWait
  <1>3. CASE HandleFrame
    <2> DEFINE frame == Head(downlink)
    <2>1. /\ frame \in Frames /\ command' = command
          /\ \/ frame.kind \in {"echo", "push"} /\ HandleCommand(frame)
             \/ frame.kind = "state" /\ HandleState(frame)
             \/ frame.kind = "report" /\ HandleReport(frame)
      BY <1>3, HandleFrameType DEF HandleFrame
    <2> HIDE DEF frame
    <2>2. UNCHANGED <<pc, ackWaiters>> \/ (frame.kind = "echo" /\ AckResolved(frame.cmd))
      BY <2>1 DEF HandleCommand, HandleState, HandleReport
    <2>3. frame.kind = "echo" => frame.cmd \in Commands
      BY <2>1, FrameFields
    <2> QED
      BY <1>1, <2>1, <2>2, <2>3, AckQueues
  <1>4. CASE Reconnect
    <2>1. /\ \A c \in Commands : DOMAIN ackWaiters'[c] = {}
          /\ \A w \in Writes : pc'[w] # "wait"
      BY <1>4 DEF Reconnect
    <2> QED
      BY <2>1 DEF WaitersWait
  <1>5. CASE Drop \/ Connected \/ RelayCommand \/ RelayRequest \/ RelayLoses \/ \E c \in Commands : ForeignCommand(c)
    BY <1>1, <1>5 DEF Drop, Connected, RelayCommand, RelayRequest, RelayLoses, ForeignCommand, tasks
  <1> QED
    BY <1>1, <1>2, <1>3, <1>4, <1>5, WriteQueues, EndQueues DEF Next, vars


-----------------------------------------------------------------------------
(* As many acknowledgements under way as tasks that wait for one. *)

\* Fewer tasks, or places that have moved.
LEMMA FitsMoved ==
    ASSUME NEW S, NEW T, NEW U, NEW R \in SUBSET S, Fits(S, T), Fits(T, U)
    PROVE  Fits(R, U)
  <1>1. PICK f \in [S -> T] : \A v, w \in S : f[v] = f[w] => v = w
    BY DEF Fits
  <1>2. PICK g \in [T -> U] : \A p, q \in T : g[p] = g[q] => p = q
    BY DEF Fits
  <1> DEFINE h == [v \in R |-> g[f[v]]]
  <1>3. h \in [R -> U]
    BY <1>1, <1>2
  <1>4. \A v, w \in R : h[v] = h[w] => v = w
    BY <1>1, <1>2
  <1> QED
    BY <1>3, <1>4 DEF Fits

\* One task less and one place less.
LEMMA FitsWithout ==
    ASSUME NEW S, NEW T, NEW v \in S, NEW p, Fits(S, T)
    PROVE  Fits(S \ {v}, T \ {p})
  <1>1. PICK f \in [S -> T] : \A x, y \in S : f[x] = f[y] => x = y
    BY DEF Fits
  <1> DEFINE h == [x \in S \ {v} |-> IF f[x] = p THEN f[v] ELSE f[x]]
  <1>2. h \in [S \ {v} -> T \ {p}]
    BY <1>1
  <1>3. \A x, y \in S \ {v} : h[x] = h[y] => x = y
    BY <1>1
  <1> QED
    BY <1>2, <1>3 DEF Fits

\* One task more and one place more.
LEMMA FitsWith ==
    ASSUME NEW S, NEW T, NEW v, NEW p \in T, Fits(S, T \ {p})
    PROVE  Fits(S \cup {v}, T)
  <1>1. PICK f \in [S -> T \ {p}] : \A x, y \in S : f[x] = f[y] => x = y
    BY DEF Fits
  <1> DEFINE h == [x \in S \cup {v} |-> IF x \in S THEN f[x] ELSE p]
  <1>2. h \in [S \cup {v} -> T]
    BY <1>1
  <1>3. \A x, y \in S \cup {v} : h[x] = h[y] => x = y
    BY <1>1
  <1> QED
    BY <1>2, <1>3 DEF Fits

LEMMA FitsSubset ==
    ASSUME NEW S, NEW T, S \subseteq T
    PROVE  Fits(S, T)
  <1>1. [x \in S |-> x] \in [S -> T]
    OBVIOUS
  <1> QED
    BY <1>1 DEF Fits

\* A command that is published has a place of its own.
LEMMA PublishedPlace ==
    ASSUME TypeOK, NEW c \in Commands, uplink' = Append(uplink, c), downlink' = downlink
    PROVE  /\ \A d \in Commands : Places(d) \subseteq Places(d)'
           /\ \E p \in Places(c)' : Places(c) \subseteq Places(c)' \ {p}
  <1>1. /\ \A i \in DOMAIN uplink : i \in DOMAIN uplink' /\ uplink'[i] = uplink[i]
        /\ Len(uplink) + 1 \in DOMAIN uplink' /\ uplink'[Len(uplink) + 1] = c
        /\ Len(uplink) \in Nat /\ DOMAIN uplink = 1..Len(uplink)
    BY AppendIndices DEF TypeOK
  <1>2. \A d \in Commands : Places(d) \subseteq Places(d)'
    BY <1>1 DEF Places
  <1> DEFINE p == <<"up", Len(uplink) + 1>>
  <1>3. p \in Places(c)'
    BY <1>1 DEF Places
  <1>4. p \notin Places(c)
    <2>1. Len(uplink) + 1 \notin DOMAIN uplink
      BY <1>1
    <2> QED
      BY <2>1 DEF Places
  <1> QED
    BY <1>2, <1>3, <1>4

\* A frame that is handled gives up its place, the others move up.
LEMMA HandledPlaces ==
    ASSUME TypeOK, downlink # <<>>, downlink' = Tail(downlink), uplink' = uplink, NEW c \in Commands
    PROVE  /\ Fits(Places(c) \ {<<"down", 1>>}, Places(c)')
           /\ Head(downlink) # Echo(c) => Fits(Places(c), Places(c)')
  <1>1. /\ Head(downlink) = downlink[1]
        /\ \A i \in DOMAIN downlink : i \in Nat /\ (i # 1 => i - 1 \in DOMAIN downlink' /\ downlink'[i - 1] = downlink[i])
    BY TailIndices DEF TypeOK
  <1> DEFINE P == Places(c) \ {<<"down", 1>>}
             g == [p \in P |-> IF p[1] = "up" THEN p ELSE <<"down", p[2] - 1>>]
  <1>2. ASSUME NEW p \in P
        PROVE  \/ p[1] = "up" /\ g[p] = p /\ p \in Places(c)'
               \/ \E i \in DOMAIN downlink : /\ p = <<"down", i>> /\ i # 1 /\ i \in Nat
                                             /\ g[p] = <<"down", i - 1>> /\ g[p] \in Places(c)'
    <2>1. CASE \E i \in DOMAIN uplink : p = <<"up", i>> /\ uplink[i] = c
      <3>1. p[1] = "up" /\ p \in Places(c)'
        BY <2>1 DEF Places
      <3> QED
        BY <3>1
    <2>2. CASE \E i \in DOMAIN downlink : p = <<"down", i>> /\ downlink[i] = Echo(c)
      <3>1. PICK i \in DOMAIN downlink : p = <<"down", i>> /\ downlink[i] = Echo(c)
        BY <2>2
      <3>2. i # 1 /\ i \in Nat /\ i - 1 \in DOMAIN downlink' /\ downlink'[i - 1] = Echo(c)
        BY <1>1, <3>1
      <3>3. p[1] # "up" /\ p[2] = i
        BY <3>1
      <3>4. g[p] = <<"down", i - 1>>
        BY <3>3
      <3>5. <<"down", i - 1>> \in Places(c)'
        BY <3>2 DEF Places, Echo
      <3> QED
        BY <3>1, <3>2, <3>4, <3>5
    <2> QED
      BY <2>1, <2>2 DEF Places
  <1>3. \A p \in P : g[p] \in Places(c)'
    BY <1>2
  <1>4. g \in [P -> Places(c)']
    BY <1>3
  <1>5. ASSUME NEW p \in P, NEW q \in P, g[p] = g[q] PROVE p = q
    <2> HIDE DEF g, P
    <2>1. CASE p[1] = "up" /\ g[p] = p
      <3>1. CASE q[1] = "up" /\ g[q] = q
        BY <1>5, <2>1, <3>1
      <3>2. ASSUME NEW j \in DOMAIN downlink, g[q] = <<"down", j - 1>> PROVE FALSE
        <4>1. p = <<"down", j - 1>>
          BY <1>5, <2>1, <3>2
        <4>2. p[1] = "down"
          BY <4>1
        <4> QED
          BY <2>1, <4>2
      <3> QED
        BY <1>2, <3>1, <3>2
    <2>2. ASSUME NEW i \in DOMAIN downlink, p = <<"down", i>>, i \in Nat, g[p] = <<"down", i - 1>> PROVE p = q
      <3>1. CASE q[1] = "up" /\ g[q] = q
        BY <1>5, <2>2, <3>1
      <3>2. ASSUME NEW j \in DOMAIN downlink, q = <<"down", j>>, j \in Nat, g[q] = <<"down", j - 1>> PROVE p = q
        <4>1. i - 1 = j - 1
          BY <1>5, <2>2, <3>2
        <4>2. i = j
          BY <2>2, <3>2, <4>1
        <4> QED
          BY <2>2, <3>2, <4>2
      <3> QED
        BY <1>2, <3>1, <3>2
    <2> QED
      BY <1>2, <2>1, <2>2
  <1>6. Fits(P, Places(c)')
    <2> HIDE DEF g, P
    <2> QED
      BY <1>4, <1>5 DEF Fits
  <1>7. ASSUME Head(downlink) # Echo(c) PROVE P = Places(c)
    BY <1>1, <1>7 DEF Places
  <1> QED
    BY <1>6, <1>7


\* A command that is relayed gives up its place; the others keep theirs, apart from what is new.
LEMMA RelayedPlaces ==
    ASSUME TypeOK, uplink # <<>>, uplink' = Tail(uplink), NEW c \in Commands,
           \A i \in DOMAIN downlink : i \in DOMAIN downlink' /\ downlink'[i] = downlink[i]
    PROVE  /\ Fits(Places(c) \ {<<"up", 1>>}, Places(c)' \ {<<"down", Len(downlink) + 1>>})
           /\ Head(uplink) # c => <<"up", 1>> \notin Places(c)
  <1>1. /\ Head(uplink) = uplink[1]
        /\ \A i \in DOMAIN uplink : i \in Nat /\ (i # 1 => i - 1 \in DOMAIN uplink' /\ uplink'[i - 1] = uplink[i])
    BY TailIndices DEF TypeOK
  <1>2. Len(downlink) + 1 \notin DOMAIN downlink
    BY LenProperties DEF TypeOK
  <1> DEFINE P == Places(c) \ {<<"up", 1>>}
             Q == Places(c)' \ {<<"down", Len(downlink) + 1>>}
             g == [p \in P |-> IF p[1] = "down" THEN p ELSE <<"up", p[2] - 1>>]
  <1>3. ASSUME NEW p \in P
        PROVE  \/ p[1] = "down" /\ g[p] = p /\ p \in Q
               \/ \E i \in DOMAIN uplink : /\ p = <<"up", i>> /\ i # 1 /\ i \in Nat
                                           /\ g[p] = <<"up", i - 1>> /\ g[p] \in Q
    <2>1. CASE \E i \in DOMAIN downlink : p = <<"down", i>> /\ downlink[i] = Echo(c)
      <3>1. PICK i \in DOMAIN downlink : p = <<"down", i>> /\ downlink[i] = Echo(c)
        BY <2>1
      <3>2. p[1] = "down" /\ p[2] = i
        BY <3>1
      <3>3. p \in Places(c)'
        BY <3>1 DEF Places, Echo
      <3>4. p # <<"down", Len(downlink) + 1>>
        BY <1>2, <3>1
      <3> QED
        BY <3>2, <3>3, <3>4
    <2>2. CASE \E i \in DOMAIN uplink : p = <<"up", i>> /\ uplink[i] = c
      <3>1. PICK i \in DOMAIN uplink : p = <<"up", i>> /\ uplink[i] = c
        BY <2>2
      <3>2. i # 1 /\ i \in Nat /\ i - 1 \in DOMAIN uplink' /\ uplink'[i - 1] = c
        BY <1>1, <3>1
      <3>3. p[1] # "down" /\ p[2] = i
        BY <3>1
      <3>4. g[p] = <<"up", i - 1>>
        BY <3>3
      <3>5. <<"up", i - 1>> \in Places(c)'
        BY <3>2 DEF Places
      <3>6. <<"up", i - 1>> # <<"down", Len(downlink) + 1>>
        OBVIOUS
      <3> QED
        BY <3>1, <3>2, <3>4, <3>5, <3>6
    <2>3. p \in Places(c)
      OBVIOUS
    <2>4. \/ \E i \in DOMAIN downlink : p = <<"down", i>> /\ downlink[i] = Echo(c)
          \/ \E i \in DOMAIN uplink : p = <<"up", i>> /\ uplink[i] = c
      BY <2>3, Zenon DEF Places
    <2> HIDE DEF g, P, Q
    <2> QED
      BY <2>1, <2>2, <2>4
  <1>4. \A p \in P : g[p] \in Q
    BY <1>3
  <1>5. g \in [P -> Q]
    BY <1>4
  <1>6. ASSUME NEW p \in P, NEW q \in P, g[p] = g[q] PROVE p = q
    <2> HIDE DEF g, P, Q
    <2>1. CASE p[1] = "down" /\ g[p] = p
      <3>1. CASE q[1] = "down" /\ g[q] = q
        BY <1>6, <2>1, <3>1
      <3>2. ASSUME NEW j \in DOMAIN uplink, g[q] = <<"up", j - 1>> PROVE FALSE
        <4>1. p = <<"up", j - 1>>
          BY <1>6, <2>1, <3>2
        <4>2. p[1] = "up"
          BY <4>1
        <4> QED
          BY <2>1, <4>2
      <3> QED
        BY <1>3, <3>1, <3>2
    <2>2. ASSUME NEW i \in DOMAIN uplink, p = <<"up", i>>, i \in Nat, g[p] = <<"up", i - 1>> PROVE p = q
      <3>1. CASE q[1] = "down" /\ g[q] = q
        <4>1. q = <<"up", i - 1>>
          BY <1>6, <2>2, <3>1
        <4>2. q[1] = "up"
          BY <4>1
        <4> QED
          BY <3>1, <4>2
      <3>2. ASSUME NEW j \in DOMAIN uplink, q = <<"up", j>>, j \in Nat, g[q] = <<"up", j - 1>> PROVE p = q
        <4>1. i - 1 = j - 1
          BY <1>6, <2>2, <3>2
        <4>2. i = j
          BY <2>2, <3>2, <4>1
        <4> QED
          BY <2>2, <3>2, <4>2
      <3> QED
        BY <1>3, <3>1, <3>2
    <2> QED
      BY <1>3, <2>1, <2>2
  <1>7. Fits(P, Q)
    <2> HIDE DEF g, P, Q
    <2> QED
      BY <1>5, <1>6 DEF Fits
  <1>8. ASSUME Head(uplink) # c PROVE <<"up", 1>> \notin Places(c)
    BY <1>1, <1>8 DEF Places
  <1> QED
    BY <1>7, <1>8

\* Frames are only added.
LEMMA ReceivedKeeps ==
    ASSUME TypeOK, NEW frames \in Seq(Frames),
           downlink' = IF link = "up" THEN downlink \o frames ELSE downlink
    PROVE  /\ \A i \in DOMAIN downlink : i \in DOMAIN downlink' /\ downlink'[i] = downlink[i]
           /\ \A i \in DOMAIN downlink' :
                  \/ i \in DOMAIN downlink
                  \/ /\ link = "up"
                     /\ i - Len(downlink) \in DOMAIN frames /\ downlink'[i] = frames[i - Len(downlink)]
           /\ link = "up" => \A k \in DOMAIN frames :
                  Len(downlink) + k \in DOMAIN downlink' /\ downlink'[Len(downlink) + k] = frames[k]
           /\ Len(downlink) \in Nat /\ DOMAIN downlink = 1..Len(downlink)
           /\ \A k \in DOMAIN frames : k \in Nat /\ k >= 1
  <1>1. Len(downlink) \in Nat /\ DOMAIN downlink = 1..Len(downlink) /\ Len(frames) \in Nat /\ DOMAIN frames = 1..Len(frames)
    BY LenProperties DEF TypeOK
  <1>2. CASE link # "up"
    BY <1>1, <1>2
  <1>3. CASE link = "up"
    <2>1. /\ Len(downlink') = Len(downlink) + Len(frames) /\ downlink' \in Seq(Frames)
          /\ \A i \in 1..Len(downlink) + Len(frames) :
                downlink'[i] = IF i <= Len(downlink) THEN downlink[i] ELSE frames[i - Len(downlink)]
      BY <1>3, ConcatProperties DEF TypeOK
    <2>2. DOMAIN downlink' = 1..Len(downlink) + Len(frames)
      BY <2>1, LenProperties
    <2>3. ASSUME NEW k \in DOMAIN frames
          PROVE  Len(downlink) + k \in DOMAIN downlink' /\ downlink'[Len(downlink) + k] = frames[k]
      <3>1. Len(downlink) + k \in 1..Len(downlink) + Len(frames) /\ ~(Len(downlink) + k <= Len(downlink))
            /\ Len(downlink) + k - Len(downlink) = k
        BY <1>1
      <3> QED
        BY <2>1, <2>2, <3>1
    <2>4. ASSUME NEW i \in DOMAIN downlink', i \notin DOMAIN downlink
          PROVE  i - Len(downlink) \in DOMAIN frames /\ downlink'[i] = frames[i - Len(downlink)]
      <3>1. i \in 1..Len(downlink) + Len(frames) /\ ~(i <= Len(downlink))
        BY <1>1, <2>2, <2>4
      <3> QED
        BY <1>1, <2>1, <3>1
    <2>5. \A i \in DOMAIN downlink : i \in DOMAIN downlink' /\ downlink'[i] = downlink[i]
      BY <1>1, <2>1, <2>2
    <2> QED
      BY <1>1, <1>3, <2>3, <2>4, <2>5
  <1> QED
    BY <1>2, <1>3


\* Tasks and the queue of frames: a command's acknowledgement takes one of those who wait for it.
LEMMA AckWaiting ==
    ASSUME TypeOK, TaskInv, WaitersWait, NEW c \in Commands, AckResolved(c), command' = command
    PROVE  /\ \A d \in Commands : Waiting(d)' \subseteq Waiting(d)
           /\ Waiting(c)' = {} \/ \E v \in Waiting(c) : Waiting(c)' \subseteq Waiting(c) \ {v}
  <1> DEFINE q == ackWaiters[c]
  <1>1. \A v \in Writes : pc[v] = "wait" /\ command[v] = c => \E i \in DOMAIN q : q[i] = v
    BY DEF WaitersWait, Range
  <1>2. \A i \in DOMAIN q : q[i] \in Writes /\ command[q[i]] = c
    <2>1. \A i \in DOMAIN q : q[i] \in Writes
      BY ElementOfSeq, LenProperties DEF TypeOK
    <2> QED
      BY <2>1 DEF WaitersWait
  <1>3. CASE (\A i \in DOMAIN q : pc[q[i]] # "wait") /\ pc' = pc
    <2>1. \A v \in Writes : ~(pc[v] = "wait" /\ command[v] = c)
      BY <1>1, <1>3
    <2> QED
      BY <1>3, <2>1 DEF Waiting
  <1>4. ASSUME NEW k \in DOMAIN q, pc[q[k]] = "wait", pc' = [pc EXCEPT ![q[k]] = "woken"]
        PROVE  /\ \A d \in Commands : Waiting(d)' \subseteq Waiting(d)
               /\ \E v \in Waiting(c) : Waiting(c)' \subseteq Waiting(c) \ {v}
    <2>1. q[k] \in Waiting(c)
      BY <1>2, <1>4 DEF Waiting
    <2>2. \A v \in Writes : pc'[v] = "wait" => pc[v] = "wait" /\ v # q[k]
      BY <1>4 DEF TypeOK
    <2> HIDE DEF q
    <2>3. \A d \in Commands : Waiting(d)' \subseteq Waiting(d) \ {q[k]}
      BY <2>2 DEF Waiting
    <2> QED
      BY <2>1, <2>3
  <1> QED
    BY <1>3, <1>4, AckIs

\* Nothing waits: nothing has to be on its way.
LEMMA FitsNone ==
    ASSUME NEW T
    PROVE  Fits({}, T)
  BY FitsSubset

LEMMA TaskEcho ==
    ASSUME IInv, link = "up", NEW w \in Writes,
           (\E c \in Commands : Write(w, c)) \/ TimesOut(w) \/ Resume(w) \/ Cancel(w)
    PROVE  EchoInv'
  <1> USE DEF IInv
  <1>1. ASSUME NEW c \in Commands, Write(w, c), NEW d \in Commands, d \notin lost
        PROVE  Fits(Waiting(d)', Places(d)')
    <2>1. /\ pc[w] = "idle" /\ pc' = [pc EXCEPT ![w] = "wait"] /\ command' = [command EXCEPT ![w] = c]
          /\ uplink' = Append(uplink, c) /\ downlink' = downlink
      BY <1>1 DEF Write
    <2>2. Fits(Waiting(d), Places(d))
      BY <1>1 DEF EchoInv
    <2>3. /\ Places(d) \subseteq Places(d)'
          /\ \E p \in Places(c)' : Places(c) \subseteq Places(c)' \ {p}
      BY <1>1, <2>1, PublishedPlace
    <2>4. CASE d = c
      <3>1. PICK p \in Places(c)' : Places(c) \subseteq Places(c)' \ {p}
        BY <2>3
      <3>2. Waiting(c)' = Waiting(c) \cup {w}
        BY <2>1 DEF Waiting, TypeOK
      <3>3. Fits(Waiting(c), Places(c)' \ {p})
        BY <2>2, <2>4, <3>1, FitsSubset, FitsMoved
      <3>4. Fits(Waiting(c) \cup {w}, Places(c)')
        BY <3>3, FitsWith
      <3> QED
        BY <2>4, <3>2, <3>4
    <2>5. CASE d # c
      <3>1. Waiting(d)' \subseteq Waiting(d)
        BY <2>1, <2>5 DEF Waiting, TypeOK
      <3>2. Fits(Places(d), Places(d)')
        BY <2>3, FitsSubset
      <3> QED
        BY <2>2, <3>1, <3>2, FitsMoved
    <2> QED
      BY <2>4, <2>5
  <1>2. ASSUME TimesOut(w) \/ Resume(w) \/ Cancel(w), NEW d \in Commands, d \notin lost
        PROVE  Fits(Waiting(d)', Places(d)')
    <2>1. Places(d)' = Places(d)
      BY <1>2 DEF TimesOut, Resume, Cancel, Places
    <2>2. Waiting(d)' \subseteq Waiting(d)
      BY <1>2 DEF TimesOut, Resume, Cancel, Finished, Waiting, TypeOK
    <2>3. Fits(Waiting(d), Places(d)) /\ Fits(Places(d), Places(d))
      BY <1>2, FitsSubset DEF EchoInv
    <2> QED
      BY <2>1, <2>2, <2>3, FitsMoved
  <1>3. lost' = lost
    BY DEF Write, TimesOut, Resume, Cancel, ghosts
  <1> QED
    BY <1>1, <1>2, <1>3 DEF EchoInv

LEMMA HandleEcho ==
    ASSUME IInv, HandleFrame
    PROVE  EchoInv'
  <1> USE DEF IInv
  <1> DEFINE frame == Head(downlink)
  <1>1. /\ frame \in Frames
        /\ \/ frame.kind \in {"echo", "push"} /\ HandleCommand(frame)
           \/ frame.kind = "state" /\ HandleState(frame)
           \/ frame.kind = "report" /\ HandleReport(frame)
    BY HandleFrameType
  <1>2. /\ link = "up" /\ downlink # <<>> /\ downlink' = Tail(downlink)
        /\ UNCHANGED <<uplink, command, lost>>
    BY DEF HandleFrame
  <1>3. \A d \in Commands : /\ Fits(Places(d) \ {<<"down", 1>>}, Places(d)')
                            /\ frame # Echo(d) => Fits(Places(d), Places(d)')
    BY <1>2, HandledPlaces
  <1> HIDE DEF frame
  <1>4. SUFFICES ASSUME NEW d \in Commands, d \notin lost
                 PROVE  Fits(Waiting(d)', Places(d)')
    BY <1>2 DEF EchoInv
  <1>5. Fits(Waiting(d), Places(d))
    BY <1>2, <1>4 DEF EchoInv
  <1>6. CASE pc' = pc /\ frame.kind # "echo"
    <2>1. Waiting(d)' = Waiting(d)
      BY <1>2, <1>6 DEF Waiting
    <2>2. frame # Echo(d)
      BY <1>6 DEF Echo
    <2> QED
      BY <1>3, <1>5, <2>1, <2>2, FitsMoved
  <1>7. CASE frame.kind = "echo" /\ AckResolved(frame.cmd)
    <2>1. frame.cmd \in Commands /\ frame = Echo(frame.cmd)
      BY <1>1, <1>7, FrameFields
    <2>2. Waiting(d)' \subseteq Waiting(d)
      BY <1>2, <1>7, <2>1, AckWaiting
    <2>3. CASE frame.cmd # d
      <3>1. frame # Echo(d)
        <4>1. Echo(d).cmd = d
          BY DEF Echo
        <4> QED
          BY <2>3, <4>1
      <3> QED
        BY <1>3, <1>5, <2>2, <3>1, FitsMoved
    <2>4. CASE frame.cmd = d
      <3>1. Waiting(d)' = {} \/ \E v \in Waiting(d) : Waiting(d)' \subseteq Waiting(d) \ {v}
        BY <1>2, <1>7, <2>1, <2>4, AckWaiting
      <3>2. CASE Waiting(d)' = {}
        BY <3>2, FitsNone
      <3>3. ASSUME NEW v \in Waiting(d), Waiting(d)' \subseteq Waiting(d) \ {v}
            PROVE  Fits(Waiting(d)', Places(d)')
        <4>1. Fits(Waiting(d) \ {v}, Places(d) \ {<<"down", 1>>})
          BY <1>5, FitsWithout
        <4> QED
          BY <1>3, <3>3, <4>1, FitsMoved
      <3> QED
        BY <3>1, <3>2, <3>3
    <2> QED
      BY <2>3, <2>4
  <1> QED
    BY <1>1, <1>6, <1>7 DEF HandleCommand, HandleState, HandleReport


LEMMA RelayEcho ==
    ASSUME IInv, link = "up",
           RelayCommand \/ RelayRequest \/ RelayLoses \/ \E c \in Commands : ForeignCommand(c)
    PROVE  EchoInv'
  <1> USE DEF IInv
  <1>1. Request \notin Commands
    BY CommandFields
  <1>2. CASE RelayCommand
    <2> DEFINE h == Head(uplink)
    <2>1. h \in Commands /\ uplink # <<>> /\ uplink' = Tail(uplink) /\ UNCHANGED <<pc, command, lost>>
      BY <1>2, RelayedHead DEF RelayCommand, tasks, ghosts
    <2>2. Effect(h, <<Echo(h)>>)
      BY <1>2 DEF RelayCommand, Echo
    <2> HIDE DEF h
    <2>3. <<Echo(h)>> \in Seq(Frames)
      <3>1. Echo(h) \in Frames
        BY <2>1, FramesMade
      <3> QED
        BY <3>1
    <2>4. PICK told \in Seq(Frames) : /\ downlink' = IF link = "up" THEN downlink \o (<<Echo(h)>> \o told) ELSE downlink
                                      /\ AllTell(told, h)
      BY <2>1, <2>2, EffectFrames
    <2>5. /\ <<Echo(h)>> \o told \in Seq(Frames)
          /\ 1 \in DOMAIN (<<Echo(h)>> \o told) /\ (<<Echo(h)>> \o told)[1] = Echo(h)
      <3>1. 1 \in DOMAIN <<Echo(h)>> /\ <<Echo(h)>>[1] = Echo(h)
        OBVIOUS
      <3> QED
        BY <2>3, <3>1, ConcatIndices
    <2>6. /\ \A i \in DOMAIN downlink : i \in DOMAIN downlink' /\ downlink'[i] = downlink[i]
          /\ Len(downlink) + 1 \in DOMAIN downlink' /\ downlink'[Len(downlink) + 1] = Echo(h)
      BY <2>4, <2>5, ReceivedKeeps
    <2>7. ASSUME NEW d \in Commands, d \notin lost PROVE Fits(Waiting(d)', Places(d)')
      <3>1. /\ Fits(Places(d) \ {<<"up", 1>>}, Places(d)' \ {<<"down", Len(downlink) + 1>>})
            /\ h # d => <<"up", 1>> \notin Places(d)
        BY <2>1, <2>6, RelayedPlaces DEF h
      <3>2. Waiting(d)' = Waiting(d) /\ Fits(Waiting(d), Places(d))
        BY <2>1, <2>7 DEF Waiting, EchoInv
      <3>3. CASE h # d
        <4>1. Places(d) \ {<<"up", 1>>} = Places(d)
          BY <3>1, <3>3
        <4>2. Fits(Places(d)' \ {<<"down", Len(downlink) + 1>>}, Places(d)')
          BY FitsSubset
        <4>3. Fits(Places(d), Places(d)')
          BY <3>1, <4>1, <4>2, FitsMoved
        <4> QED
          BY <3>2, <4>3, FitsMoved
      <3>4. CASE h = d
        <4>1. <<"down", Len(downlink) + 1>> \in Places(d)'
          BY <2>6, <3>4 DEF Places, Echo
        <4>2. Fits((Places(d) \ {<<"up", 1>>}) \cup {<<"up", 1>>}, Places(d)')
          BY <3>1, <4>1, FitsWith
        <4>3. Fits(Places(d), (Places(d) \ {<<"up", 1>>}) \cup {<<"up", 1>>})
          BY FitsSubset
        <4>4. Fits(Places(d), Places(d)')
          BY <4>2, <4>3, FitsMoved
        <4> QED
          BY <3>2, <4>4, FitsMoved
      <3> QED
        BY <3>3, <3>4
    <2> QED
      BY <2>1, <2>7 DEF EchoInv
  <1>3. ASSUME UNCHANGED <<pc, command>>, lost \subseteq lost', uplink # <<>>, uplink' = Tail(uplink),
               Head(uplink) \notin Commands \ lost',
               \A i \in DOMAIN downlink : i \in DOMAIN downlink' /\ downlink'[i] = downlink[i]
        PROVE  EchoInv'
    <2> SUFFICES ASSUME NEW d \in Commands, d \notin lost' PROVE Fits(Waiting(d)', Places(d)')
      BY DEF EchoInv
    <2>1. /\ Fits(Places(d) \ {<<"up", 1>>}, Places(d)' \ {<<"down", Len(downlink) + 1>>})
          /\ <<"up", 1>> \notin Places(d)
      BY <1>3, RelayedPlaces
    <2>2. Waiting(d)' = Waiting(d) /\ Fits(Waiting(d), Places(d))
      BY <1>3 DEF Waiting, EchoInv
    <2>3. Places(d) \ {<<"up", 1>>} = Places(d)
      BY <2>1
    <2>4. Fits(Places(d)' \ {<<"down", Len(downlink) + 1>>}, Places(d)')
      BY FitsSubset
    <2>5. Fits(Places(d), Places(d)')
      BY <2>1, <2>3, <2>4, FitsMoved
    <2> QED
      BY <2>2, <2>5, FitsMoved
  <1>4. CASE RelayRequest
    <2>1. <<[kind |-> "report", states |-> real]>> \in Seq(Frames)
      BY FramesMade DEF TypeOK
    <2>2. \A i \in DOMAIN downlink : i \in DOMAIN downlink' /\ downlink'[i] = downlink[i]
      BY <1>4, <2>1, ReceivedKeeps DEF RelayRequest, Received
    <2> QED
      BY <1>1, <1>3, <1>4, <2>2 DEF RelayRequest, tasks, ghosts
  <1>5. CASE RelayLoses
    BY <1>3, <1>5 DEF RelayLoses, tasks
  <1>6. ASSUME NEW c \in Commands, ForeignCommand(c) PROVE EchoInv'
    <2> DEFINE first == IF c.addr = Room THEN <<[kind |-> "push", cmd |-> c]>> ELSE <<>>
    <2>1. first \in Seq(Frames)
      BY FramesMade
    <2>2. Effect(c, first) /\ UNCHANGED <<uplink, pc, command, lost>>
      BY <1>6 DEF ForeignCommand, tasks, ghosts
    <2> HIDE DEF first
    <2>3. PICK told \in Seq(Frames) : /\ downlink' = IF link = "up" THEN downlink \o (first \o told) ELSE downlink
                                      /\ AllTell(told, c)
      BY <2>2, EffectFrames
    <2>4. first \o told \in Seq(Frames)
      BY <2>1, ConcatProperties
    <2>5. \A i \in DOMAIN downlink : i \in DOMAIN downlink' /\ downlink'[i] = downlink[i]
      BY <2>3, <2>4, ReceivedKeeps
    <2>6. ASSUME NEW d \in Commands, d \notin lost PROVE Fits(Waiting(d)', Places(d)')
      <3>1. Places(d) \subseteq Places(d)'
        BY <2>2, <2>5 DEF Places, Echo
      <3>2. Waiting(d)' = Waiting(d) /\ Fits(Waiting(d), Places(d)) /\ Fits(Places(d), Places(d)')
        BY <2>2, <2>6, <3>1, FitsSubset DEF Waiting, EchoInv
      <3> QED
        BY <3>2, FitsMoved
    <2> QED
      BY <2>2, <2>6 DEF EchoInv
  <1> QED
    BY <1>2, <1>4, <1>5, <1>6

\* Every step keeps an acknowledgement under way for every task that waits.
LEMMA EchoStep ==
    ASSUME IInv, [Next]_vars
    PROVE  EchoInv'
  <1> USE DEF IInv
  <1>1. CASE UNCHANGED vars
    BY <1>1 DEF vars, EchoInv, Waiting, Places
  <1>2. CASE link = "up" /\ Next
    <2>1. CASE Drop
      BY <2>1 DEF Drop, EchoInv
    <2>2. CASE Reconnect \/ Connected
      BY <1>2, <2>2 DEF Reconnect, Connected
    <2> QED
      BY <1>2, <2>1, <2>2, TaskEcho, HandleEcho, RelayEcho DEF Next
  <1>3. CASE link # "up" /\ Next
    <2>1. CASE link' # "up"
      BY <2>1 DEF EchoInv
    <2>2. CASE link' = "up"
      <3>1. Connected
        BY <1>3, <2>2 DEF Next, Write, TimesOut, Resume, Cancel, HandleFrame, Drop, Reconnect, RelayCommand,
                          RelayRequest, RelayLoses, ForeignCommand
      <3>2. \A c \in Commands : Waiting(c)' = {}
        BY <3>1 DEF Connected, tasks, Waiting, LinkInv
      <3> QED
        BY <3>2, FitsNone DEF EchoInv
    <2> QED
      BY <2>1, <2>2
  <1> QED
    BY <1>1, <1>2, <1>3


-----------------------------------------------------------------------------
(* The frames that are in flight. *)

\* Only echoes and pushes carry a command, and they do not tell what an output is.
LEMMA TellsNotEcho ==
    ASSUME NEW f, NEW o, Tells(f, o)
    PROVE  f.kind \notin {"echo", "push"} /\ f.kind \in {"state", "report"}
  BY DEF Tells

\* Frames are added that are right about T, and say so after every echo: the wire stays right.
LEMMA WireGrows ==
    ASSUME IInv, NEW T \in SUBSET Outputs, NEW frames \in Seq(Frames),
           downlink' = IF link = "up" THEN downlink \o frames ELSE downlink,
           \A o \in Outputs \ T : real'[o] = real[o],
           \A i \in DOMAIN frames :
               \/ frames[i].kind \in {"echo", "push"} /\ Targets(frames[i].cmd.addr) \subseteq T
               \/ /\ frames[i].kind \notin {"echo", "push"}
                  /\ \A o \in Outputs : Tells(frames[i], o) => o \in T /\ Told(frames[i], o) = real'[o],
           \A o \in T : \E k \in DOMAIN frames :
               Tells(frames[k], o) /\ \A i \in DOMAIN frames : frames[i].kind \in {"echo", "push"} => i < k
    PROVE  /\ LastInv' /\ FollowInv'
           /\ link # "up" => downlink' = <<>>
           /\ \A o \in Outputs : Coming(o) => Coming(o)'
           /\ link = "up" => \A o \in T : Coming(o)'
  <1> USE DEF IInv
  <1> DEFINE n == Len(downlink)
  <1>1. /\ \A i \in DOMAIN downlink : i \in DOMAIN downlink' /\ downlink'[i] = downlink[i]
        /\ \A i \in DOMAIN downlink' :
               \/ i \in DOMAIN downlink
               \/ link = "up" /\ i - n \in DOMAIN frames /\ downlink'[i] = frames[i - n]
        /\ link = "up" => \A k \in DOMAIN frames : n + k \in DOMAIN downlink' /\ downlink'[n + k] = frames[k]
        /\ n \in Nat /\ DOMAIN downlink = 1..n
        /\ \A k \in DOMAIN frames : k \in Nat /\ k >= 1
    BY ReceivedKeeps
  <1>2. DOMAIN downlink' \subseteq Nat
    <2>1. \A i \in DOMAIN downlink : i \in Nat
      BY <1>1
    <2>2. downlink' \in Seq(Frames)
      BY ConcatProperties DEF TypeOK
    <2> QED
      BY <2>2, LenProperties
  <1> HIDE DEF n
  <1>3. \A o \in Outputs : Coming(o) => Coming(o)'
    BY <1>1 DEF Coming
  <1>4. ASSUME link = "up", NEW o \in T PROVE Coming(o)'
    <2>1. PICK k \in DOMAIN frames : Tells(frames[k], o)
      OBVIOUS
    <2>2. n + k \in DOMAIN downlink' /\ Tells(downlink'[n + k], o)
      BY <1>1, <1>4, <2>1
    <2> QED
      BY <2>2 DEF Coming
  <1>5. ASSUME NEW o \in Outputs, NEW i \in DOMAIN downlink', Tells(downlink'[i], o),
               \A j \in DOMAIN downlink' : j > i => ~Tells(downlink'[j], o)
        PROVE  Told(downlink'[i], o) = real'[o]
    <2>1. CASE i \in DOMAIN downlink
      <3>1. link = "up"
        BY <2>1 DEF LinkInv
      <3>2. o \notin T
        <4> SUFFICES ASSUME o \in T PROVE FALSE
          OBVIOUS
        <4>1. PICK k \in DOMAIN frames : Tells(frames[k], o)
          OBVIOUS
        <4>2. n + k \in DOMAIN downlink' /\ Tells(downlink'[n + k], o) /\ n + k > i
          BY <1>1, <2>1, <3>1, <4>1
        <4> QED
          BY <1>5, <4>2
      <3>3. \A j \in DOMAIN downlink : j > i => ~Tells(downlink[j], o)
        BY <1>1, <1>5
      <3>4. downlink'[i] = downlink[i]
        BY <1>1, <2>1
      <3>5. Told(downlink[i], o) = real[o]
        BY <1>5, <2>1, <3>3, <3>4 DEF LastInv
      <3> QED
        BY <3>2, <3>4, <3>5
    <2>2. CASE i - n \in DOMAIN frames /\ downlink'[i] = frames[i - n]
      BY <1>5, <2>2, TellsNotEcho
    <2> QED
      BY <1>1, <2>1, <2>2
  <1>6. ASSUME NEW i \in DOMAIN downlink', downlink'[i].kind \in {"echo", "push"},
               NEW o \in Targets(downlink'[i].cmd.addr)
        PROVE  \E j \in DOMAIN downlink' : j > i /\ Tells(downlink'[j], o)
    <2>1. CASE i \in DOMAIN downlink
      <3>1. downlink'[i] = downlink[i]
        BY <1>1, <2>1
      <3>2. PICK j \in DOMAIN downlink : j > i /\ Tells(downlink[j], o)
        BY <1>6, <2>1, <3>1 DEF FollowInv
      <3> QED
        BY <1>1, <3>2
    <2>2. CASE link = "up" /\ i - n \in DOMAIN frames /\ downlink'[i] = frames[i - n]
      <3>1. o \in T
        BY <1>6, <2>2
      <3>2. PICK k \in DOMAIN frames : /\ Tells(frames[k], o)
                                       /\ \A j \in DOMAIN frames : frames[j].kind \in {"echo", "push"} => j < k
        BY <3>1
      <3>3. i - n < k
        BY <1>6, <2>2, <3>2
      <3>4. n + k \in DOMAIN downlink' /\ Tells(downlink'[n + k], o) /\ i \in Nat /\ k \in Nat
        BY <1>1, <1>2, <2>2, <3>2
      <3>5. n + k > i
        BY <1>1, <3>3, <3>4
      <3> QED
        BY <3>4, <3>5
    <2> QED
      BY <1>1, <2>1, <2>2
  <1>7. LastInv'
    BY <1>5 DEF LastInv
  <1>8. FollowInv'
    BY <1>6 DEF FollowInv
  <1>9. link # "up" => downlink' = <<>>
    BY DEF LinkInv
  <1> QED
    BY <1>3, <1>4, <1>7, <1>8, <1>9

\* A command that takes effect.
LEMMA EffectWire ==
    ASSUME IInv, NEW c \in Commands, NEW first, Effect(c, first),
           first = <<>> \/ \E f \in Frames : first = <<f>> /\ f.kind \in {"echo", "push"} /\ f.cmd = c
    PROVE  /\ RealInv' /\ LastInv' /\ FollowInv'
           /\ link # "up" => downlink' = <<>>
           /\ \A o \in Outputs : Coming(o) => Coming(o)'
           /\ link = "up" => \A o \in Targets(c.addr) : Coming(o)'
           /\ \A o \in Outputs \ Targets(c.addr) : real'[o] = real[o]
  <1> USE DEF IInv
  <1>1. /\ \A o \in Outputs : real'[o] = IF o \in Targets(c.addr) THEN Applied(c, real[o]) ELSE real[o]
        /\ Targets(c.addr) \subseteq Outputs
    BY EffectFrames, CommandFields
  <1>2. RealInv'
    <2>1. \A o \in Outputs : Applied(c, real[o]).level # 0
      BY CommandFields DEF Applied, RealInv
    <2> QED
      BY <1>1, <2>1 DEF RealInv
  <1>3. PICK told \in Seq(Frames) : /\ downlink' = IF link = "up" THEN downlink \o (first \o told) ELSE downlink
                                    /\ AllTell(told, c)
    BY EffectFrames
  <1>4. first \in Seq(Frames)
    <2>1. \A f \in Frames : <<f>> \in Seq(Frames)
      OBVIOUS
    <2> QED
      BY <2>1, EmptySeq
  <1>5. Len(first) \in Nat /\ DOMAIN first = 1..Len(first) /\ Len(first) <= 1 /\ Len(told) \in Nat /\ DOMAIN told = 1..Len(told)
    <2>1. Len(first) <= 1
      <3>1. CASE first = <<>>
        BY <3>1
      <3>2. CASE \E f \in Frames : first = <<f>>
        BY <3>2
      <3> QED
        BY <3>1, <3>2
    <2> QED
      BY <1>4, <2>1, LenProperties
  <1>6. \A i \in DOMAIN first : first[i].kind \in {"echo", "push"} /\ first[i].cmd = c
    <2>1. CASE first = <<>>
      BY <2>1
    <2>2. ASSUME NEW f \in Frames, first = <<f>>, f.kind \in {"echo", "push"}, f.cmd = c
          PROVE  \A i \in DOMAIN first : first[i].kind \in {"echo", "push"} /\ first[i].cmd = c
      <3>1. \A i \in DOMAIN first : first[i] = f
        BY <2>2
      <3> QED
        BY <2>2, <3>1
    <2> QED
      BY <2>1, <2>2
  <1> DEFINE frames == first \o told
             m == Len(first)
  <1>7. /\ frames \in Seq(Frames)
        /\ \A i \in DOMAIN frames : (i \in DOMAIN first /\ frames[i] = first[i]) \/ (i - m \in DOMAIN told /\ frames[i] = told[i - m])
        /\ \A k \in DOMAIN told : m + k \in DOMAIN frames /\ frames[m + k] = told[k]
        /\ DOMAIN frames \subseteq Nat
    <2>1. /\ frames \in Seq(Frames)
          /\ \A i \in DOMAIN first : i \in DOMAIN frames /\ frames[i] = first[i]
          /\ \A k \in DOMAIN told : m + k \in DOMAIN frames /\ frames[m + k] = told[k]
          /\ \A i \in DOMAIN frames : i \in DOMAIN first \/ i - m \in DOMAIN told
      BY <1>4, ConcatIndices
    <2> HIDE DEF frames, m
    <2>2. DOMAIN frames \subseteq Nat
      BY <2>1, LenProperties
    <2>3. ASSUME NEW i \in DOMAIN frames, i - m \in DOMAIN told PROVE frames[i] = told[i - m]
      <3>1. m + (i - m) = i
        BY <1>5, <2>2 DEF m
      <3> QED
        BY <2>1, <2>3, <3>1
    <2> QED
      BY <2>1, <2>2, <2>3
  <1> HIDE DEF frames, m
  <1>8. ASSUME NEW i \in DOMAIN told
        PROVE  /\ told[i].kind \notin {"echo", "push"}
               /\ \A o \in Outputs : Tells(told[i], o) => o \in Targets(c.addr) /\ Told(told[i], o) = real'[o]
    <2>1. told[i].kind = "state" /\ told[i].addr \in Targets(c.addr) /\ told[i].state = real'[told[i].addr]
      BY <1>3 DEF AllTell
    <2> QED
      BY <2>1 DEF Tells, Told
  <1>9. \A i \in DOMAIN frames :
            \/ frames[i].kind \in {"echo", "push"} /\ Targets(frames[i].cmd.addr) \subseteq Targets(c.addr)
            \/ /\ frames[i].kind \notin {"echo", "push"}
               /\ \A o \in Outputs : Tells(frames[i], o) => o \in Targets(c.addr) /\ Told(frames[i], o) = real'[o]
    BY <1>6, <1>7, <1>8
  <1>10. ASSUME NEW o \in Targets(c.addr)
         PROVE  \E k \in DOMAIN frames :
                    Tells(frames[k], o) /\ \A i \in DOMAIN frames : frames[i].kind \in {"echo", "push"} => i < k
    <2>1. PICK k \in DOMAIN told : told[k].addr = o
      BY <1>3 DEF AllTell
    <2>2. Tells(told[k], o)
      BY <1>3, <2>1 DEF AllTell, Tells
    <2>3. ASSUME NEW i \in DOMAIN frames, frames[i].kind \in {"echo", "push"} PROVE i < m + k
      <3>1. i \in DOMAIN first
        BY <1>7, <1>8, <2>3
      <3>2. i <= m /\ k >= 1 /\ k \in Nat /\ m \in Nat
        BY <1>5, <2>1, <3>1 DEF m
      <3> QED
        BY <1>5, <3>1, <3>2
    <2> QED
      BY <1>7, <2>2, <2>3
  <1>11. downlink' = IF link = "up" THEN downlink \o frames ELSE downlink
    BY <1>3 DEF frames
  <1>12. \A o \in Outputs \ Targets(c.addr) : real'[o] = real[o]
    BY <1>1
  <1>13. /\ LastInv' /\ FollowInv'
         /\ link # "up" => downlink' = <<>>
         /\ \A o \in Outputs : Coming(o) => Coming(o)'
         /\ link = "up" => \A o \in Targets(c.addr) : Coming(o)'
    BY <1>1, <1>7, <1>9, <1>10, <1>11, <1>12, WireGrows
  <1> QED
    BY <1>2, <1>12, <1>13

\* A snapshot.
LEMMA RequestWire ==
    ASSUME IInv, RelayRequest
    PROVE  /\ RealInv' /\ LastInv' /\ FollowInv'
           /\ link # "up" => downlink' = <<>>
           /\ link = "up" => \A o \in Outputs : Coming(o)'
  <1> USE DEF IInv
  <1> DEFINE f == [kind |-> "report", states |-> real]
             frames == <<f>>
  <1>1. real' = real /\ downlink' = IF link = "up" THEN downlink \o frames ELSE downlink
    BY DEF RelayRequest, Received
  <1>2. f \in Frames /\ f.kind = "report" /\ \A o \in Outputs : Tells(f, o) /\ Told(f, o) = real[o]
    BY FramesMade DEF TypeOK, Tells, Told
  <1> HIDE DEF f
  <1>3. frames \in Seq(Frames) /\ DOMAIN frames = {1} /\ frames[1] = f
    BY <1>2
  <1> HIDE DEF frames
  <1>4. /\ \A o \in Outputs \ Outputs : real'[o] = real[o]
        /\ \A i \in DOMAIN frames :
               \/ frames[i].kind \in {"echo", "push"} /\ Targets(frames[i].cmd.addr) \subseteq Outputs
               \/ /\ frames[i].kind \notin {"echo", "push"}
                  /\ \A o \in Outputs : Tells(frames[i], o) => o \in Outputs /\ Told(frames[i], o) = real'[o]
    BY <1>1, <1>2, <1>3
  <1>5. \A o \in Outputs : \E k \in DOMAIN frames :
            Tells(frames[k], o) /\ \A i \in DOMAIN frames : frames[i].kind \in {"echo", "push"} => i < k
    BY <1>2, <1>3
  <1>6. RealInv'
    BY <1>1 DEF RealInv
  <1> QED
    BY <1>1, <1>3, <1>4, <1>5, <1>6, WireGrows

\* A frame is handled.
LEMMA HandledWire ==
    ASSUME IInv, HandleFrame
    PROVE  /\ RealInv' /\ LastInv' /\ FollowInv'
           /\ \A o \in Outputs : Coming(o) => Coming(o)' \/ Tells(Head(downlink), o)
           /\ \A o \in Outputs : Tells(Head(downlink), o) /\ ~Coming(o)' => Told(Head(downlink), o) = real[o]
           /\ Head(downlink).kind \in {"echo", "push"} => \A o \in Targets(Head(downlink).cmd.addr) : Coming(o)'
  <1> USE DEF IInv
  <1>1. real' = real /\ downlink # <<>> /\ downlink' = Tail(downlink)
    BY DEF HandleFrame
  <1>2. /\ Head(downlink) = downlink[1] /\ 1 \in DOMAIN downlink
        /\ \A i \in DOMAIN downlink' : i \in Nat /\ i + 1 \in DOMAIN downlink /\ downlink'[i] = downlink[i + 1]
        /\ \A i \in DOMAIN downlink : i \in Nat /\ (i # 1 => i - 1 \in DOMAIN downlink' /\ downlink'[i - 1] = downlink[i])
        /\ \A i \in DOMAIN downlink : i >= 1
    BY <1>1, TailIndices DEF TypeOK
  <1>3. ASSUME NEW o \in Outputs, NEW i \in DOMAIN downlink', Tells(downlink'[i], o),
               \A j \in DOMAIN downlink' : j > i => ~Tells(downlink'[j], o)
        PROVE  Told(downlink'[i], o) = real[o]
    <2>1. ASSUME NEW j \in DOMAIN downlink, j > i + 1 PROVE ~Tells(downlink[j], o)
      <3>1. j - 1 \in DOMAIN downlink' /\ downlink'[j - 1] = downlink[j] /\ j - 1 > i
        BY <1>2, <2>1
      <3> QED
        BY <1>3, <3>1
    <2>2. i + 1 \in DOMAIN downlink /\ downlink'[i] = downlink[i + 1]
      BY <1>2
    <2> QED
      BY <1>3, <2>1, <2>2 DEF LastInv
  <1>4. ASSUME NEW i \in DOMAIN downlink', downlink'[i].kind \in {"echo", "push"},
               NEW o \in Targets(downlink'[i].cmd.addr)
        PROVE  \E j \in DOMAIN downlink' : j > i /\ Tells(downlink'[j], o)
    <2>1. i \in Nat /\ i + 1 \in DOMAIN downlink /\ downlink'[i] = downlink[i + 1]
      BY <1>2
    <2>2. PICK j \in DOMAIN downlink : j > i + 1 /\ Tells(downlink[j], o)
      BY <1>4, <2>1 DEF FollowInv
    <2>3. j - 1 \in DOMAIN downlink' /\ downlink'[j - 1] = downlink[j] /\ j - 1 > i
      BY <1>2, <2>1, <2>2
    <2> QED
      BY <2>2, <2>3
  <1>5. ASSUME NEW o \in Outputs, NEW i \in DOMAIN downlink, i # 1, Tells(downlink[i], o) PROVE Coming(o)'
    <2>1. i - 1 \in DOMAIN downlink' /\ downlink'[i - 1] = downlink[i]
      BY <1>2, <1>5
    <2> QED
      BY <1>5, <2>1 DEF Coming
  <1>6. \A o \in Outputs : Coming(o) => Coming(o)' \/ Tells(Head(downlink), o)
    BY <1>2, <1>5 DEF Coming
  <1>7. ASSUME NEW o \in Outputs, Tells(Head(downlink), o), ~Coming(o)' PROVE Told(Head(downlink), o) = real[o]
    <2>1. \A j \in DOMAIN downlink : j > 1 => ~Tells(downlink[j], o)
      BY <1>5, <1>7
    <2> QED
      BY <1>2, <1>7, <2>1 DEF LastInv
  <1>8. ASSUME Head(downlink).kind \in {"echo", "push"}, NEW o \in Targets(Head(downlink).cmd.addr) PROVE Coming(o)'
    <2>1. PICK j \in DOMAIN downlink : j > 1 /\ Tells(downlink[j], o)
      BY <1>2, <1>8 DEF FollowInv
    <2>2. o \in Outputs
      <3>1. Head(downlink) \in Frames
        BY HandleFrameType
      <3> QED
        BY <1>8, <3>1, FrameFields, CommandFields
    <2> QED
      BY <1>5, <2>1, <2>2
  <1>9. RealInv' /\ LastInv' /\ FollowInv'
    BY <1>1, <1>3, <1>4 DEF RealInv, LastInv, FollowInv
  <1> QED
    BY <1>6, <1>7, <1>8, <1>9


-----------------------------------------------------------------------------
(* What is shown. *)

\* A task leaves nothing wrong behind, unless it could not see that it does.
LEMMA ResumeTruth ==
    ASSUME IInv, NEW w \in Writes, Resume(w)
    PROVE  TruthInv'
  <1> USE DEF IInv
  <1> DEFINE c == command[w]
             recorded == IF state[c.addr] \in {None, prior[w], RawEcho(c)}
                         THEN [state EXCEPT ![c.addr] = Remembering(prior[w], c)]
                         ELSE state
  <1>1. /\ pc[w] = "woken" /\ c \in Commands
        /\ state' = IF c.addr = Room THEN RecordMembers(recorded, c) ELSE recorded
        /\ UNCHANGED <<real, link, uplink, downlink, lost>>
    BY DEF Resume, Record, TaskInv
  <1>2. blind' = IF c \in lost \/ (w \in overtaken /\ (c.addr = Room \/ state[c.addr] = prior[w]))
                 THEN blind \cup Targets(c.addr)
                 ELSE blind
    BY DEF Resume
  <1>3. SUFFICES ASSUME link = "up", NEW o \in Outputs, o \notin blind', ~Asked(o), ~Coming(o)
                 PROVE  state'[o] = real[o]
    BY <1>1 DEF TruthInv, Asked, Coming
  <1>4. state[o] = real[o] /\ o \notin blind
    BY <1>2, <1>3 DEF TruthInv
  <1>5. o # Room /\ o \in Addresses
    BY DEF Addresses
  <1>6. CASE o \notin Targets(c.addr)
    <2>1. c.addr # o /\ (c.addr = Room => o \notin Members)
      BY <1>5, <1>6 DEF Targets
    <2>2. recorded[o] = state[o]
      BY <1>5, <2>1 DEF TypeOK
    <2> HIDE DEF recorded
    <2>3. state'[o] = recorded[o]
      BY <1>1, <1>5, <2>1 DEF RecordMembers
    <2> QED
      BY <1>4, <2>2, <2>3
  <1>7. CASE o \in Targets(c.addr)
    <2>1. c \notin lost /\ (w \in overtaken => c.addr # Room /\ state[c.addr] # prior[w])
      BY <1>2, <1>3, <1>7
    <2>2. ~Sent(c)
      BY <1>3, <1>7 DEF Sent, Asked
    <2>3. w \in overtaken
      BY <1>1, <1>3, <1>7, <2>1, <2>2 DEF WokenInv
    <2>4. c.addr = o /\ state[o] # prior[w] /\ state[o] \in States
      BY <1>4, <1>7, <2>1, <2>3 DEF Targets, TypeOK
    <2>5. state' = recorded
      BY <1>1, <1>5, <2>4
    <2>6. CASE state[o] = RawEcho(c)
      <3>1. real[o].level # 0 /\ RawEcho(c).level = c.level
        BY DEF RealInv, RawEcho
      <3>2. c.on
        BY <1>1, <1>4, <2>6, <3>1, CommandFields
      <3>3. Remembering(prior[w], c) = RawEcho(c)
        BY <1>1, <3>2, CommandFields DEF Remembering, Applied, RawEcho
      <3>4. recorded[o] = RawEcho(c)
        BY <1>5, <2>4, <2>6, <3>3 DEF TypeOK
      <3> QED
        BY <1>4, <2>5, <2>6, <3>4
    <2>7. CASE state[o] # RawEcho(c)
      <3>1. state[o] # None
        BY <2>4, NoneIsNoState
      <3>2. recorded = state
        BY <2>4, <2>7, <3>1
      <3> QED
        BY <1>4, <2>5, <3>2
    <2> QED
      BY <2>6, <2>7
  <1> QED
    BY <1>6, <1>7

\* A frame about an output makes what is shown of it right, or another one follows.
LEMMA HandleTruth ==
    ASSUME IInv, HandleFrame
    PROVE  TruthInv'
  <1> USE DEF IInv
  <1> DEFINE frame == Head(downlink)
  <1>1. /\ frame \in Frames
        /\ \/ frame.kind \in {"echo", "push"} /\ HandleCommand(frame)
           \/ frame.kind = "state" /\ HandleState(frame)
           \/ frame.kind = "report" /\ HandleReport(frame)
    BY HandleFrameType
  <1>2. /\ \A o \in Outputs : Coming(o) => Coming(o)' \/ Tells(frame, o)
        /\ \A o \in Outputs : Tells(frame, o) /\ ~Coming(o)' => Told(frame, o) = real[o]
        /\ frame.kind \in {"echo", "push"} => \A o \in Targets(frame.cmd.addr) : Coming(o)'
    BY HandledWire
  <1>3. link = "up" /\ UNCHANGED <<real, link, uplink>>
    BY DEF HandleFrame
  <1> HIDE DEF frame
  <1>4. SUFFICES ASSUME NEW o \in Outputs, o \notin blind', ~Asked(o), ~Coming(o)' PROVE state'[o] = real[o]
    BY <1>3 DEF TruthInv, Asked
  <1>5. o # Room /\ o \in Addresses
    BY DEF Addresses
  <1>6. CASE Tells(frame, o)
    <2>1. Told(frame, o) = real[o]
      BY <1>2, <1>4, <1>6
    <2>2. CASE frame.kind = "report"
      BY <1>1, <1>5, <2>1, <2>2 DEF HandleReport, Told
    <2>3. CASE frame.kind = "state" /\ frame.addr = o
      BY <1>1, <1>5, <2>1, <2>3 DEF HandleState, Told, TypeOK
    <2> QED
      BY <1>6, <2>2, <2>3 DEF Tells
  <1>7. CASE ~Tells(frame, o)
    <2>1. ~Coming(o)
      BY <1>2, <1>4, <1>7
    <2>2. CASE frame.kind \in {"echo", "push"}
      <3>1. HandleCommand(frame) /\ o \notin Targets(frame.cmd.addr) /\ frame.cmd \in Commands
        BY <1>1, <1>2, <1>4, <2>2, FrameFields
      <3>2. o \notin blind
        BY <1>4, <3>1 DEF HandleCommand
      <3>3. frame.cmd.addr # o /\ (frame.cmd.addr = Room => o \notin Members)
        BY <1>5, <3>1 DEF Targets
      <3>4. state'[o] = state[o]
        BY <1>5, <3>1, <3>3 DEF HandleCommand, RecordMembers, TypeOK
      <3> QED
        BY <1>3, <1>4, <2>1, <3>2, <3>4 DEF TruthInv
    <2>3. CASE frame.kind = "state"
      <3>1. frame.addr # o /\ HandleState(frame)
        BY <1>1, <1>7, <2>3 DEF Tells
      <3>2. o \notin blind /\ state'[o] = state[o]
        BY <1>4, <1>5, <3>1 DEF HandleState, TypeOK
      <3> QED
        BY <1>3, <1>4, <2>1, <3>2 DEF TruthInv
    <2> QED
      BY <1>1, <1>7, <2>2, <2>3 DEF Tells
  <1> QED
    BY <1>6, <1>7

\* What is relayed tells of itself when it has taken effect, or is lost.
LEMMA RelayTruth ==
    ASSUME IInv, RelayCommand \/ RelayRequest \/ RelayLoses \/ \E c \in Commands : ForeignCommand(c)
    PROVE  TruthInv'
  <1> USE DEF IInv
  <1>1. CASE link # "up"
    BY <1>1 DEF RelayCommand, RelayRequest, RelayLoses, ForeignCommand, TruthInv
  <1>2. CASE link = "up"
    <2>1. ASSUME uplink # <<>>, uplink' = Tail(uplink), NEW o \in Outputs, Asked(o)
          PROVE  Asked(o)' \/ Head(uplink) = Request \/ o \in Targets(Head(uplink).addr)
      <3>1. PICK i \in DOMAIN uplink : uplink[i] = Request \/ o \in Targets(uplink[i].addr)
        BY <2>1 DEF Asked
      <3>2. Head(uplink) = uplink[1] /\ (i # 1 => i - 1 \in DOMAIN uplink' /\ uplink'[i - 1] = uplink[i])
        BY <2>1, TailIndices DEF TypeOK
      <3> QED
        BY <3>1, <3>2 DEF Asked
    <2>2. CASE RelayCommand
      <3> DEFINE h == Head(uplink)
      <3>1. h \in Commands /\ uplink # <<>> /\ uplink' = Tail(uplink) /\ h # Request
            /\ UNCHANGED <<state, blind, link>>
        BY <2>2, RelayedHead DEF RelayCommand, ghosts
      <3>2. Echo(h) \in Frames /\ Echo(h).kind = "echo" /\ Echo(h).cmd = h
        BY <3>1, FramesMade DEF Echo
      <3>3. Effect(h, <<Echo(h)>>)
        BY <2>2 DEF RelayCommand, Echo
      <3> HIDE DEF h
      <3>4. /\ \A o \in Outputs : Coming(o) => Coming(o)'
            /\ \A o \in Targets(h.addr) : Coming(o)'
            /\ \A o \in Outputs \ Targets(h.addr) : real'[o] = real[o]
        BY <1>2, <3>1, <3>2, <3>3, EffectWire
      <3>5. \A o \in Outputs : Asked(o) => Asked(o)' \/ o \in Targets(h.addr)
        BY <2>1, <3>1 DEF h
      <3> QED
        BY <1>2, <3>1, <3>4, <3>5 DEF TruthInv
    <2>3. CASE RelayRequest
      BY <1>2, <2>3, RequestWire DEF TruthInv
    <2>4. CASE RelayLoses
      <3> DEFINE h == Head(uplink)
      <3>1. h \in Commands /\ uplink # <<>> /\ uplink' = Tail(uplink) /\ h # Request
            /\ UNCHANGED <<state, real, downlink, link>> /\ blind' = blind \cup Targets(h.addr)
        BY <2>4, RelayedHead DEF RelayLoses
      <3> HIDE DEF h
      <3>2. \A o \in Outputs : Asked(o) => Asked(o)' \/ o \in Targets(h.addr)
        BY <2>1, <3>1 DEF h
      <3>3. \A o \in Outputs : Coming(o)' <=> Coming(o)
        BY <3>1 DEF Coming
      <3> QED
        BY <1>2, <3>1, <3>2, <3>3 DEF TruthInv
    <2>5. ASSUME NEW c \in Commands, ForeignCommand(c) PROVE TruthInv'
      <3> DEFINE first == IF c.addr = Room THEN <<[kind |-> "push", cmd |-> c]>> ELSE <<>>
      <3>1. first = <<>> \/ \E f \in Frames : first = <<f>> /\ f.kind \in {"echo", "push"} /\ f.cmd = c
        <4>1. [kind |-> "push", cmd |-> c] \in Frames
          BY FramesMade
        <4> QED
          BY <4>1
      <3>2. Effect(c, first) /\ UNCHANGED <<state, link, uplink, blind>>
        BY <2>5 DEF ForeignCommand, ghosts
      <3> HIDE DEF first
      <3>3. /\ \A o \in Outputs : Coming(o) => Coming(o)'
            /\ \A o \in Targets(c.addr) : Coming(o)'
            /\ \A o \in Outputs \ Targets(c.addr) : real'[o] = real[o]
        BY <1>2, <3>1, <3>2, EffectWire
      <3>4. \A o \in Outputs : Asked(o)' <=> Asked(o)
        BY <3>2 DEF Asked
      <3> QED
        BY <1>2, <3>2, <3>3, <3>4 DEF TruthInv
    <2> QED
      BY <2>2, <2>3, <2>4, <2>5
  <1> QED
    BY <1>1, <1>2

\* Every step keeps what is shown right, or to be put right.
LEMMA TruthStep ==
    ASSUME IInv, [Next]_vars
    PROVE  TruthInv'
  <1> USE DEF IInv
  <1>1. CASE UNCHANGED <<link, state, real, blind, uplink, downlink>>
    BY <1>1 DEF TruthInv, Asked, Coming
  <1>2. ASSUME NEW w \in Writes, NEW c \in Commands, Write(w, c) PROVE TruthInv'
    <2>1. UNCHANGED <<link, state, real, blind, downlink>>
      BY <1>2 DEF Write, ghosts
    <2>2. CASE link = "up"
      <3>1. \A i \in DOMAIN uplink : i \in DOMAIN uplink' /\ uplink'[i] = uplink[i]
        BY <1>2, <2>2, AppendIndices DEF Write, TypeOK
      <3>2. \A o \in Outputs : (Asked(o) => Asked(o)') /\ (Coming(o) <=> Coming(o)')
        BY <2>1, <3>1 DEF Asked, Coming
      <3> QED
        BY <2>1, <2>2, <3>2 DEF TruthInv
    <2>3. CASE link # "up"
      BY <2>1, <2>3 DEF TruthInv
    <2> QED
      BY <2>2, <2>3
  <1>3. ASSUME NEW w \in Writes, TimesOut(w) \/ Cancel(w) PROVE TruthInv'
    BY <1>1, <1>3 DEF TimesOut, Cancel, ghosts
  <1>4. CASE Drop \/ Reconnect
    BY <1>4 DEF Drop, Reconnect, TruthInv
  <1>5. CASE Connected
    <2>1. /\ Len(uplink) + 1 \in DOMAIN uplink' /\ uplink'[Len(uplink) + 1] = Request
      BY <1>5, AppendIndices DEF Connected, TypeOK
    <2> QED
      BY <2>1 DEF TruthInv, Asked
  <1> QED
    BY <1>1, <1>2, <1>3, <1>4, <1>5, ResumeTruth, HandleTruth, RelayTruth DEF Next, vars

\* Every step keeps the wire right.
LEMMA WireStep ==
    ASSUME IInv, [Next]_vars
    PROVE  RealInv' /\ LinkInv' /\ LastInv' /\ FollowInv'
  <1> USE DEF IInv
  <1>1. ASSUME UNCHANGED <<real, link, downlink>>, link # "connecting" \/ UNCHANGED pc
        PROVE  RealInv' /\ LinkInv' /\ LastInv' /\ FollowInv'
    BY <1>1 DEF RealInv, LinkInv, LastInv, FollowInv
  <1>2. ASSUME RealInv', LastInv', FollowInv', link # "up" => downlink' = <<>>, UNCHANGED <<link, pc>>
        PROVE  LinkInv'
    BY <1>2 DEF LinkInv
  <1>3. ASSUME NEW w \in Writes, NEW c \in Commands, Write(w, c)
        PROVE  RealInv' /\ LinkInv' /\ LastInv' /\ FollowInv'
    BY <1>1, <1>3 DEF Write
  <1>4. ASSUME NEW w \in Writes, TimesOut(w) \/ Resume(w) \/ Cancel(w)
        PROVE  RealInv' /\ LinkInv' /\ LastInv' /\ FollowInv'
    <2>1. UNCHANGED <<real, link, downlink>>
      BY <1>4 DEF TimesOut, Resume, Cancel
    <2>2. \A v \in Writes : pc'[v] = "wait" => pc[v] = "wait"
      BY <1>4 DEF TimesOut, Resume, Cancel, Finished, TypeOK
    <2> QED
      BY <2>1, <2>2 DEF RealInv, LinkInv, LastInv, FollowInv
  <1>5. CASE HandleFrame
    <2>1. link = "up" /\ link' = link
      BY <1>5 DEF HandleFrame
    <2> QED
      BY <1>5, <2>1, HandledWire DEF LinkInv
  <1>6. CASE Drop
    BY <1>6 DEF Drop, RealInv, LinkInv, LastInv, FollowInv
  <1>7. CASE Reconnect
    <2>1. \A v \in Writes : pc'[v] # "wait"
      BY <1>7 DEF Reconnect
    <2>2. UNCHANGED <<real, downlink>> /\ link # "up"
      BY <1>7 DEF Reconnect
    <2> QED
      BY <2>1, <2>2 DEF RealInv, LinkInv, LastInv, FollowInv
  <1>8. CASE Connected
    <2>1. UNCHANGED <<real, downlink>> /\ link' = "up"
      BY <1>8 DEF Connected
    <2> QED
      BY <2>1 DEF RealInv, LinkInv, LastInv, FollowInv
  <1>9. CASE RelayCommand
    <2> DEFINE h == Head(uplink)
    <2>1. h \in Commands /\ UNCHANGED <<link, pc>>
      BY <1>9, RelayedHead DEF RelayCommand, tasks
    <2>2. Echo(h) \in Frames /\ Echo(h).kind = "echo" /\ Echo(h).cmd = h
      BY <2>1, FramesMade DEF Echo
    <2>3. Effect(h, <<Echo(h)>>)
      BY <1>9 DEF RelayCommand, Echo
    <2> HIDE DEF h
    <2>4. RealInv' /\ LastInv' /\ FollowInv' /\ (link # "up" => downlink' = <<>>)
      BY <2>1, <2>2, <2>3, EffectWire
    <2> QED
      BY <1>2, <2>1, <2>4
  <1>10. CASE RelayRequest
    <2>1. UNCHANGED <<link, pc>>
      BY <1>10 DEF RelayRequest, tasks
    <2> QED
      BY <1>2, <1>10, <2>1, RequestWire
  <1>11. CASE RelayLoses
    BY <1>1, <1>11 DEF RelayLoses, tasks
  <1>12. ASSUME NEW c \in Commands, ForeignCommand(c)
         PROVE  RealInv' /\ LinkInv' /\ LastInv' /\ FollowInv'
    <2> DEFINE first == IF c.addr = Room THEN <<[kind |-> "push", cmd |-> c]>> ELSE <<>>
    <2>1. first = <<>> \/ \E f \in Frames : first = <<f>> /\ f.kind \in {"echo", "push"} /\ f.cmd = c
      <3>1. [kind |-> "push", cmd |-> c] \in Frames
        BY FramesMade
      <3> QED
        BY <3>1
    <2>2. Effect(c, first) /\ UNCHANGED <<link, pc>>
      BY <1>12 DEF ForeignCommand, tasks
    <2> HIDE DEF first
    <2>3. RealInv' /\ LastInv' /\ FollowInv' /\ (link # "up" => downlink' = <<>>)
      BY <2>1, <2>2, EffectWire
    <2> QED
      BY <1>2, <2>2, <2>3
  <1>13. CASE UNCHANGED vars
    BY <1>1, <1>13 DEF vars, tasks
  <1> QED
    BY <1>3, <1>4, <1>5, <1>6, <1>7, <1>8, <1>9, <1>10, <1>11, <1>12, <1>13 DEF Next


-----------------------------------------------------------------------------
(* Tasks that have been woken. *)

\* What a task gives up on is still under way, unless its echo has been relayed.
LEMMA TaskWoken ==
    ASSUME IInv, NEW w \in Writes, (\E c \in Commands : Write(w, c)) \/ TimesOut(w) \/ Resume(w) \/ Cancel(w)
    PROVE  WokenInv'
  <1> USE DEF IInv
  <1>1. ASSUME NEW c \in Commands, Write(w, c) PROVE WokenInv'
    <2>1. UNCHANGED <<link, downlink, lost, overtaken>>
      BY <1>1 DEF Write, ghosts
    <2>2. \A v \in Writes : pc'[v] = "woken" => pc[v] = "woken" /\ command'[v] = command[v]
      BY <1>1 DEF Write, TypeOK
    <2>3. \A i \in DOMAIN uplink : i \in DOMAIN uplink' /\ uplink'[i] = uplink[i]
      BY <1>1, AppendIndices DEF Write, TypeOK
    <2>4. \A v \in Writes : pc[v] = "woken" /\ Sent(command[v]) => \E i \in DOMAIN uplink' : uplink'[i] = command[v]
      BY <2>3 DEF Sent
    <2>5. \A v \in Writes : pc'[v] = "woken" => \A o \in Targets(command'[v].addr) :
              (Sent(command[v]) => Sent(command[v])') /\ (Coming(o) => Coming(o)')
      BY <2>1, <2>2, <2>4 DEF Sent, Coming
    <2> QED
      BY <2>1, <2>2, <2>5 DEF WokenInv
  <1>2. CASE Resume(w) \/ Cancel(w)
    <2>1. UNCHANGED <<link, uplink, downlink, lost>>
      BY <1>2 DEF Resume, Cancel
    <2>2. \A v \in Writes : pc'[v] = "woken" =>
              pc[v] = "woken" /\ command'[v] = command[v] /\ (v \in overtaken => v \in overtaken')
      BY <1>2 DEF Resume, Cancel, Finished, TypeOK
    <2> QED
      BY <2>1, <2>2 DEF WokenInv, Sent, Coming
  <1>3. CASE TimesOut(w)
    <2> DEFINE c == command[w]
    <2>1. /\ UNCHANGED <<link, uplink, downlink, lost, overtaken, command>>
          /\ pc[w] = "wait" /\ c \in Commands
          /\ \A v \in Writes : v # w => pc'[v] = pc[v]
      BY <1>3 DEF TimesOut, ghosts, TaskInv, TypeOK
    <2>2. ASSUME link = "up", c \notin lost, NEW o \in Targets(c.addr) PROVE Sent(c) \/ Coming(o)
      <3>1. PICK f \in [Waiting(c) -> Places(c)] : \A v, u \in Waiting(c) : f[v] = f[u] => v = u
        BY <2>1, <2>2 DEF EchoInv, Fits
      <3>2. w \in Waiting(c)
        BY <2>1 DEF Waiting
      <3>3. f[w] \in Places(c)
        BY <3>1, <3>2
      <3>4. CASE \E i \in DOMAIN uplink : uplink[i] = c
        BY <3>4 DEF Sent
      <3>5. CASE \E i \in DOMAIN downlink : downlink[i] = Echo(c)
        <4>1. Echo(c).kind = "echo" /\ Echo(c).cmd = c
          BY DEF Echo
        <4> QED
          BY <2>2, <3>5, <4>1 DEF FollowInv, Coming
      <3> HIDE DEF c
      <3> QED
        BY <3>3, <3>4, <3>5 DEF Places
    <2> QED
      BY <2>1, <2>2 DEF WokenInv, Sent, Coming
  <1> QED
    BY <1>1, <1>2, <1>3

\* A frame about its outputs overtakes a woken task, and after an echo such a frame is to come.
LEMMA HandleWoken ==
    ASSUME IInv, HandleFrame
    PROVE  WokenInv'
  <1> USE DEF IInv
  <1> DEFINE frame == Head(downlink)
  <1>1. /\ frame \in Frames
        /\ \/ frame.kind \in {"echo", "push"} /\ HandleCommand(frame)
           \/ frame.kind = "state" /\ HandleState(frame)
           \/ frame.kind = "report" /\ HandleReport(frame)
    BY HandleFrameType
  <1>2. /\ \A o \in Outputs : Coming(o) => Coming(o)' \/ Tells(frame, o)
        /\ frame.kind \in {"echo", "push"} => \A o \in Targets(frame.cmd.addr) : Coming(o)'
    BY HandledWire
  <1>3. link = "up" /\ UNCHANGED <<uplink, command, lost>>
    BY DEF HandleFrame
  <1> HIDE DEF frame
  <1> SUFFICES ASSUME NEW w \in Writes, pc'[w] = "woken", w \notin overtaken', command[w] \notin lost,
                      NEW o \in Targets(command[w].addr)
               PROVE  Sent(command[w]) \/ Coming(o)'
    BY <1>3 DEF WokenInv, Sent
  <1>4. CASE pc[w] = "woken"
    <2>1. command[w] \in Commands /\ o \in Outputs
      BY <1>4, CommandFields DEF TaskInv
    <2>2. overtaken \subseteq overtaken'
      BY <1>1 DEF HandleCommand, HandleState, HandleReport
    <2>3. Sent(command[w]) \/ Coming(o)
      BY <1>3, <1>4, <2>2 DEF WokenInv
    <2>4. ~Tells(frame, o)
      <3>1. CASE frame.kind = "report"
        BY <1>1, <1>4, <2>1, <3>1 DEF HandleReport, Overtakes
      <3>2. CASE frame.kind = "state" /\ frame.addr = o
        BY <1>1, <1>4, <3>2 DEF HandleState, Overtakes
      <3> QED
        BY <3>1, <3>2 DEF Tells
    <2> QED
      BY <1>2, <2>1, <2>3, <2>4
  <1>5. CASE pc[w] # "woken"
    <2>1. frame.kind = "echo" /\ AckResolved(frame.cmd)
      BY <1>1, <1>5 DEF HandleCommand, HandleState, HandleReport
    <2>2. frame.cmd \in Commands
      BY <1>1, <2>1, FrameFields
    <2>3. PICK k \in DOMAIN ackWaiters[frame.cmd] : pc' = [pc EXCEPT ![ackWaiters[frame.cmd][k]] = "woken"]
      BY <1>5, <2>1, <2>2, AckIs
    <2>4. w = ackWaiters[frame.cmd][k]
      BY <1>5, <2>3 DEF TypeOK
    <2>5. command[w] = frame.cmd
      BY <2>2, <2>3, <2>4 DEF WaitersWait
    <2> QED
      BY <1>2, <2>1, <2>5
  <1> QED
    BY <1>4, <1>5

\* When a command has been relayed its outputs tell of themselves, or it is lost.
LEMMA RelayWoken ==
    ASSUME IInv, RelayCommand \/ RelayRequest \/ RelayLoses \/ \E c \in Commands : ForeignCommand(c)
    PROVE  WokenInv'
  <1> USE DEF IInv
  <1>1. /\ UNCHANGED <<link, pc, command, overtaken>> /\ lost \subseteq lost'
    BY DEF RelayCommand, RelayRequest, RelayLoses, ForeignCommand, tasks, ghosts
  <1>2. CASE link # "up"
    BY <1>1, <1>2 DEF WokenInv
  <1>3. ASSUME uplink # <<>>, uplink' = Tail(uplink), NEW d, Sent(d), Head(uplink) # d
        PROVE  \E i \in DOMAIN uplink' : uplink'[i] = d
    <2>1. PICK i \in DOMAIN uplink : uplink[i] = d
      BY <1>3 DEF Sent
    <2>2. Head(uplink) = uplink[1] /\ (i # 1 => i - 1 \in DOMAIN uplink' /\ uplink'[i - 1] = uplink[i])
      BY <1>3, TailIndices DEF TypeOK
    <2> QED
      BY <1>3, <2>1, <2>2
  <1>4. ASSUME link = "up", \A o \in Outputs : Coming(o) => Coming(o)',
               \A w \in Writes : pc[w] = "woken" /\ Sent(command[w]) =>
                   \/ \E i \in DOMAIN uplink' : uplink'[i] = command[w]
                   \/ command[w] \in lost'
                   \/ \A o \in Targets(command[w].addr) : Coming(o)'
        PROVE  WokenInv'
    <2> SUFFICES ASSUME NEW w \in Writes, pc[w] = "woken", w \notin overtaken, command[w] \notin lost',
                        NEW o \in Targets(command[w].addr)
                 PROVE  (\E i \in DOMAIN uplink' : uplink'[i] = command[w]) \/ Coming(o)'
      BY <1>1 DEF WokenInv, Sent
    <2>1. command[w] \in Commands /\ o \in Outputs
      BY CommandFields DEF TaskInv
    <2>2. Sent(command[w]) \/ Coming(o)
      BY <1>1, <1>4 DEF WokenInv
    <2> QED
      BY <1>4, <2>1, <2>2
  <1>5. CASE RelayCommand /\ link = "up"
    <2> DEFINE h == Head(uplink)
    <2>1. h \in Commands /\ uplink # <<>> /\ uplink' = Tail(uplink)
      BY <1>5, RelayedHead DEF RelayCommand
    <2>2. Echo(h) \in Frames /\ Echo(h).kind = "echo" /\ Echo(h).cmd = h
      BY <2>1, FramesMade DEF Echo
    <2>3. Effect(h, <<Echo(h)>>)
      BY <1>5 DEF RelayCommand, Echo
    <2> HIDE DEF h
    <2>4. (\A o \in Outputs : Coming(o) => Coming(o)') /\ \A o \in Targets(h.addr) : Coming(o)'
      BY <1>5, <2>1, <2>2, <2>3, EffectWire
    <2>5. \A w \in Writes : Sent(command[w]) /\ h # command[w] => \E i \in DOMAIN uplink' : uplink'[i] = command[w]
      BY <1>3, <2>1 DEF h
    <2> QED
      BY <1>4, <1>5, <2>4, <2>5
  <1>6. CASE RelayRequest /\ link = "up"
    BY <1>1, <1>6, CommandFields, RequestWire DEF WokenInv, TaskInv
  <1>7. CASE RelayLoses /\ link = "up"
    <2>1. \A w \in Writes : Sent(command[w]) /\ Head(uplink) # command[w] => \E i \in DOMAIN uplink' : uplink'[i] = command[w]
      BY <1>3, <1>7 DEF RelayLoses
    <2>2. lost' = lost \cup {Head(uplink)} /\ downlink' = downlink
      BY <1>7 DEF RelayLoses
    <2> QED
      BY <1>4, <1>7, <2>1, <2>2 DEF Coming
  <1>8. ASSUME NEW c \in Commands, ForeignCommand(c), link = "up" PROVE WokenInv'
    <2> DEFINE first == IF c.addr = Room THEN <<[kind |-> "push", cmd |-> c]>> ELSE <<>>
    <2>1. first = <<>> \/ \E f \in Frames : first = <<f>> /\ f.kind \in {"echo", "push"} /\ f.cmd = c
      <3>1. [kind |-> "push", cmd |-> c] \in Frames
        BY FramesMade
      <3> QED
        BY <3>1
    <2>2. Effect(c, first) /\ UNCHANGED uplink
      BY <1>8 DEF ForeignCommand
    <2> HIDE DEF first
    <2>3. \A o \in Outputs : Coming(o) => Coming(o)'
      BY <2>1, <2>2, EffectWire
    <2>4. \A w \in Writes : Sent(command[w]) => \E i \in DOMAIN uplink' : uplink'[i] = command[w]
      BY <2>2 DEF Sent
    <2> QED
      BY <1>4, <1>8, <2>3, <2>4
  <1> QED
    BY <1>2, <1>5, <1>6, <1>7, <1>8

\* Every step keeps, for a task that is woken, the word of its outputs before it.
LEMMA WokenStep ==
    ASSUME IInv, [Next]_vars
    PROVE  WokenInv'
  <1> USE DEF IInv
  <1>1. CASE UNCHANGED vars
    BY <1>1 DEF vars, tasks, ghosts, WokenInv, Sent, Coming
  <1>2. CASE Drop \/ Reconnect
    BY <1>2 DEF Drop, Reconnect, WokenInv
  <1>3. CASE Connected
    BY <1>3 DEF Connected, tasks, WokenInv
  <1> QED
    BY <1>1, <1>2, <1>3, TaskWoken, HandleWoken, RelayWoken DEF Next


-----------------------------------------------------------------------------
(* The theorems. *)

LEMMA InitIInv == Init => IInv
  <1> SUFFICES ASSUME Init PROVE IInv
    OBVIOUS
  <1>1. TypeOK
    BY InitType
  <1>2. TaskInv /\ WaitersWait
    BY DEF Init, TaskInv, WaitersWait
  <1>3. RealInv
    BY DEF Init, RealInv
  <1>4. LinkInv /\ LastInv /\ FollowInv
    BY DEF Init, LinkInv, LastInv, FollowInv
  <1>5. TruthInv
    <2>1. 1 \in DOMAIN uplink /\ uplink[1] = Request
      BY DEF Init
    <2> QED
      BY <2>1 DEF TruthInv, Asked
  <1>6. WokenInv
    BY DEF Init, WokenInv
  <1>7. EchoInv
    <2>1. \A c \in Commands : Waiting(c) = {}
      BY DEF Init, Waiting
    <2> QED
      BY <2>1, FitsNone DEF EchoInv
  <1> QED
    BY <1>1, <1>2, <1>3, <1>4, <1>5, <1>6, <1>7 DEF IInv

LEMMA NextStep == IInv /\ [Next]_vars => IInv'
  <1> SUFFICES ASSUME IInv, [Next]_vars PROVE IInv'
    OBVIOUS
  <1>1. TypeOK' /\ TaskInv'
    BY TypeStep DEF IInv
  <1>2. WaitersWait'
    BY WaitersStep DEF IInv
  <1> QED
    BY <1>1, <1>2, WireStep, TruthStep, WokenStep, EchoStep DEF IInv

LEMMA Invariance == Spec => []IInv
  <1>1. IInv /\ [Next]_vars => IInv'
    BY NextStep
  <1> QED
    BY InitIInv, <1>1, PTL DEF Spec

\* The state of the connection, the queues of waiters and what is in flight keep their
\* types (PlejdGatewayConnection's fields and the frames of gateway_codec).
THEOREM TypeCorrect == Spec => []TypeOK
  <1>1. IInv => TypeOK
    BY DEF IInv
  <1> QED
    BY Invariance, <1>1, PTL

\* Whoever waits for an acknowledgement is in the queue of its command, once, and nobody
\* stays in a queue (_register_ack_waiter, _resolve_ack_waiter and _discard_ack_waiter).
THEOREM NobodyStranded == Spec => []WaitersWait
  <1>1. IInv => WaitersWait
    BY DEF IInv
  <1> QED
    BY Invariance, <1>1, PTL

\* As long as the socket is up and no publish of it was lost, an echo of its own is on its
\* way to every task that waits: no two tasks that gave the same command share one (write,
\* which answers False only "on timeout", and _resolve_ack_waiter's oldest waiter first).
THEOREM EchoForEveryWaiter == Spec => []EchoInv
  <1>1. IInv => EchoInv
    BY DEF IInv
  <1> QED
    BY Invariance, <1>1, PTL

\* When everything has arrived, what is shown of an output is what it is, unless the last
\* record of it was made blindly (async_set_output and async_set_group_output: "don't stomp
\* that with our stale optimistic guess").
THEOREM ShownIsReal == Spec => []StateIsReal
  <1>1. IInv => StateIsReal
    <2> SUFFICES ASSUME IInv, Quiet, NEW o \in Outputs PROVE state[o] = real[o] \/ o \in blind
      BY DEF StateIsReal
    <2>1. ~Asked(o) /\ ~Coming(o) /\ link = "up"
      BY DEF Quiet, Asked, Coming
    <2> QED
      BY <2>1 DEF IInv, TruthInv
  <1> QED
    BY Invariance, <1>1, PTL

-----------------------------------------------------------------------------
(* The refinement: every step of Outputs is a step of Delivery, or none. *)

Seen == [c \in Commands |-> Waiting(c)]

\* The same tasks wait, in the same order.
LEMMA SameSeen ==
    ASSUME \A c \in Commands : Waiting(c)' = Waiting(c),
           \A c \in Commands : \A v, w \in Waiting(c) : Ahead(c, v, w)' <=> Ahead(c, v, w)
    PROVE  Seen' = Seen /\ Older' = Older
  <1>1. Seen' = Seen
    BY DEF Seen
  <1>2. ASSUME NEW e \in Writes \X Writes PROVE e \in Older' <=> e \in Older
    BY DEF Older
  <1> QED
    BY <1>1, <1>2 DEF Older

\* Some wait no more; the others do, in the same order.
LEMMA LeaveSeen ==
    ASSUME NEW S,
           \A c \in Commands : Waiting(c)' = Waiting(c) \ S,
           \A c \in Commands : \A v, w \in Waiting(c) \ S : Ahead(c, v, w)' <=> Ahead(c, v, w)
    PROVE  Delivered!Leave(S)
  <1>1. Seen' = [c \in Commands |-> Seen[c] \ S]
    BY DEF Seen
  <1>2. ASSUME NEW e \in Writes \X Writes
        PROVE  e \in Older' <=> e \in Older /\ e[1] \notin S /\ e[2] \notin S
    BY DEF Older
  <1>3. Older' = {e \in Older : e[1] \notin S /\ e[2] \notin S}
    BY <1>2 DEF Older
  <1> QED
    BY <1>1, <1>3 DEF Delivered!Leave, Seen

LEMMA AcksAre ==
    ASSUME NEW s \in Seq(Frames)
    PROVE  /\ [i \in DOMAIN s |-> IF s[i].kind = "echo" THEN {s[i].cmd} ELSE {}] \in Seq(SUBSET Commands)
           /\ Len([i \in DOMAIN s |-> IF s[i].kind = "echo" THEN {s[i].cmd} ELSE {}]) = Len(s)
  <1> DEFINE a == [i \in DOMAIN s |-> IF s[i].kind = "echo" THEN {s[i].cmd} ELSE {}]
  <1>1. Len(s) \in Nat /\ DOMAIN s = 1..Len(s)
    BY LenProperties
  <1>2. ASSUME NEW i \in 1..Len(s) PROVE a[i] \in SUBSET Commands
    <2>1. s[i] \in Frames
      BY <1>2, ElementOfSeq
    <2> QED
      BY <1>1, <2>1, FrameFields
  <1>3. a \in [1..Len(s) -> SUBSET Commands]
    BY <1>1, <1>2
  <1> HIDE DEF a
  <1>4. a \in Seq(SUBSET Commands)
    BY <1>1, <1>3
  <1>5. DOMAIN a = 1..Len(s)
    BY <1>3
  <1>6. Len(a) = Len(s)
    BY <1>1, <1>4, <1>5, LenProperties
  <1> QED
    BY <1>4, <1>6 DEF a

\* The first frame is handled.
LEMMA AcksTaken ==
    ASSUME TypeOK, downlink # <<>>, downlink' = Tail(downlink)
    PROVE  /\ Acks # <<>> /\ Acks' = Tail(Acks)
           /\ Head(Acks) = IF Head(downlink).kind = "echo" THEN {Head(downlink).cmd} ELSE {}
  <1>1. downlink \in Seq(Frames) /\ downlink' \in Seq(Frames)
    BY TailIndices DEF TypeOK
  <1>2. /\ Acks \in Seq(SUBSET Commands) /\ Len(Acks) = Len(downlink)
        /\ Acks' \in Seq(SUBSET Commands) /\ Len(Acks') = Len(downlink')
    BY <1>1, AcksAre DEF Acks
  <1>3. /\ Len(downlink) \in Nat \ {0} /\ DOMAIN downlink = 1..Len(downlink) /\ Head(downlink) = downlink[1]
        /\ Len(downlink') = Len(downlink) - 1 /\ DOMAIN downlink' = 1..Len(downlink) - 1
        /\ \A i \in 1..Len(downlink) - 1 : downlink'[i] = downlink[i + 1]
    <2>1. Len(downlink') = Len(downlink) - 1 /\ \A i \in 1..Len(downlink') : downlink'[i] = downlink[i + 1]
      BY <1>1, HeadTailProperties
    <2>2. Len(downlink) \in Nat \ {0} /\ DOMAIN downlink = 1..Len(downlink) /\ DOMAIN downlink' = 1..Len(downlink')
      BY <1>1, LenProperties, EmptySeq
    <2>3. Head(downlink) = downlink[1]
      OBVIOUS
    <2> QED
      BY <2>1, <2>2, <2>3
  <1>4. /\ \A i \in DOMAIN downlink : Acks[i] = IF downlink[i].kind = "echo" THEN {downlink[i].cmd} ELSE {}
        /\ \A i \in DOMAIN downlink' : Acks'[i] = IF downlink'[i].kind = "echo" THEN {downlink'[i].cmd} ELSE {}
    BY DEF Acks
  <1>5. Acks # <<>>
    BY <1>2, <1>3, EmptySeq
  <1>6. /\ Tail(Acks) \in Seq(SUBSET Commands) /\ Len(Tail(Acks)) = Len(Acks) - 1
        /\ \A i \in 1..Len(Tail(Acks)) : Tail(Acks)[i] = Acks[i + 1]
    BY <1>2, <1>5, HeadTailProperties
  <1>7. ASSUME NEW i \in 1..Len(Acks') PROVE Acks'[i] = Tail(Acks)[i]
    <2>1. i \in 1..Len(downlink) - 1 /\ i + 1 \in 1..Len(downlink) /\ i \in 1..Len(Tail(Acks))
      BY <1>2, <1>3, <1>6, <1>7
    <2>2. Acks'[i] = IF downlink'[i].kind = "echo" THEN {downlink'[i].cmd} ELSE {}
      BY <1>3, <1>4, <2>1
    <2>3. Acks[i + 1] = IF downlink[i + 1].kind = "echo" THEN {downlink[i + 1].cmd} ELSE {}
      BY <1>3, <1>4, <2>1
    <2>4. downlink'[i] = downlink[i + 1] /\ Tail(Acks)[i] = Acks[i + 1]
      BY <1>3, <1>6, <2>1
    <2> QED
      BY <2>2, <2>3, <2>4
  <1>8. Acks' = Tail(Acks)
    BY <1>2, <1>3, <1>6, <1>7, SeqEqual
  <1>9. Head(Acks) = Acks[1] /\ 1 \in DOMAIN downlink
    BY <1>3
  <1> QED
    BY <1>3, <1>4, <1>5, <1>8, <1>9


\* A queue from which some have been taken: the others are in the order they were in.
LEMMA OrderKept ==
    ASSUME NEW q, NEW r, DOMAIN q \subseteq Nat, DOMAIN r \subseteq Nat,
           NEW g \in [DOMAIN r -> DOMAIN q],
           \A i \in DOMAIN r : r[i] = q[g[i]],
           \A i, j \in DOMAIN r : i < j => g[i] < g[j],
           \A i, j \in DOMAIN q : q[i] = q[j] => i = j,
           NEW v \in Range(r), NEW w \in Range(r)
    PROVE  (\E i, j \in DOMAIN r : i < j /\ r[i] = v /\ r[j] = w)
               <=> (\E i, j \in DOMAIN q : i < j /\ q[i] = v /\ q[j] = w)
  <1>1. ASSUME NEW i \in DOMAIN r, NEW j \in DOMAIN r, i < j, r[i] = v, r[j] = w
        PROVE  \E k, l \in DOMAIN q : k < l /\ q[k] = v /\ q[l] = w
    BY <1>1
  <1>2. ASSUME NEW k \in DOMAIN q, NEW l \in DOMAIN q, k < l, q[k] = v, q[l] = w
        PROVE  \E i, j \in DOMAIN r : i < j /\ r[i] = v /\ r[j] = w
    <2>1. PICK i \in DOMAIN r, j \in DOMAIN r : r[i] = v /\ r[j] = w
      BY DEF Range
    <2>2. g[i] = k /\ g[j] = l
      BY <1>2, <2>1
    <2>3. i < j
      <3>1. i \in Nat /\ j \in Nat /\ k \in Nat /\ l \in Nat
        BY <1>2, <2>1
      <3>2. ~(j < i) /\ i # j
        BY <1>2, <2>2, <3>1
      <3> QED
        BY <3>1, <3>2
    <2> QED
      BY <2>1, <2>3
  <1> QED
    BY <1>1, <1>2

\* A queue as it is in every reachable state.
LEMMA QueueIs ==
    ASSUME TypeOK, WaitersWait, NEW c \in Commands
    PROVE  /\ ackWaiters[c] \in Seq(Writes) /\ DOMAIN ackWaiters[c] \subseteq Nat
           /\ \A i, j \in DOMAIN ackWaiters[c] : ackWaiters[c][i] = ackWaiters[c][j] => i = j
           /\ \A i \in DOMAIN ackWaiters[c] : ackWaiters[c][i] \in Writes /\ command[ackWaiters[c][i]] = c
           /\ \A w \in Waiting(c) : \E i \in DOMAIN ackWaiters[c] : ackWaiters[c][i] = w
  <1>1. ackWaiters[c] \in Seq(Writes)
    BY DEF TypeOK
  <1>2. DOMAIN ackWaiters[c] = 1..Len(ackWaiters[c]) /\ Len(ackWaiters[c]) \in Nat
    BY <1>1, LenProperties
  <1>3. \A i \in DOMAIN ackWaiters[c] : ackWaiters[c][i] \in Writes
    BY <1>1, <1>2, ElementOfSeq
  <1> QED
    BY <1>1, <1>2, <1>3 DEF WaitersWait, Waiting, Range

\* The queues of the other commands are as they were.
LEMMA OtherAhead ==
    ASSUME NEW c, ackWaiters'[c] = ackWaiters[c]
    PROVE  \A v, w : Ahead(c, v, w)' <=> Ahead(c, v, w)
  BY DEF Ahead

-----------------------------------------------------------------------------
(* The steps. *)

LEMMA WritePublishes ==
    ASSUME IInv, NEW w \in Writes, NEW c \in Commands, Write(w, c)
    PROVE  Delivered!Publish(w, c)
  <1> USE DEF IInv
  <1> DEFINE q == ackWaiters[c]
             r == Append(q, w)
  <1>1. /\ pc[w] = "idle" /\ link' = link /\ downlink' = downlink
        /\ pc' = [pc EXCEPT ![w] = "wait"] /\ command' = [command EXCEPT ![w] = c]
        /\ ackWaiters' = [ackWaiters EXCEPT ![c] = r]
    BY DEF Write
  <1>2. \A d \in Commands : w \notin Waiting(d)
    BY <1>1 DEF Waiting
  <1>3. /\ Waiting(c)' = Waiting(c) \cup {w}
        /\ \A d \in Commands \ {c} : Waiting(d)' = Waiting(d)
    <2>1. pc'[w] = "wait" /\ command'[w] = c /\ \A v \in Writes \ {w} : pc'[v] = pc[v] /\ command'[v] = command[v]
      BY <1>1 DEF TypeOK
    <2> QED
      BY <1>1, <2>1 DEF Waiting
  <1>4. /\ ackWaiters'[c] = r /\ \A d \in Commands \ {c} : ackWaiters'[d] = ackWaiters[d]
        /\ \A i \in DOMAIN q : q[i] # w /\ i \in Nat
    <2>1. \A i \in DOMAIN q : q[i] # w /\ i \in Nat
      BY <1>1, QueueIs DEF WaitersWait
    <2> QED
      BY <1>1, <2>1 DEF TypeOK
  <1>5. /\ \A i \in DOMAIN q : i \in DOMAIN r /\ r[i] = q[i] /\ i <= Len(q)
        /\ Len(q) + 1 \in DOMAIN r /\ r[Len(q) + 1] = w
        /\ \A i \in DOMAIN r : i \in DOMAIN q \/ i = Len(q) + 1
        /\ Len(q) \in Nat
    <2>1. q \in Seq(Writes)
      BY DEF TypeOK
    <2> HIDE DEF q
    <2> QED
      BY <2>1, AppendIndices
  <1>6. \A v \in Waiting(c) : v # w /\ \E i \in DOMAIN q : q[i] = v
    BY <1>2, QueueIs
  <1> HIDE DEF r
  <1>7. ASSUME NEW v \in Waiting(c), NEW u \in Waiting(c) PROVE Ahead(c, v, u)' <=> Ahead(c, v, u)
    BY <1>4, <1>5, <1>6 DEF Ahead
  <1>8. ASSUME NEW v \in Waiting(c) PROVE Ahead(c, v, w)'
    <2>1. PICK i \in DOMAIN q : q[i] = v
      BY <1>6
    <2>2. i \in DOMAIN r /\ r[i] = v /\ i < Len(q) + 1
      BY <1>4, <1>5, <2>1
    <2> QED
      BY <1>4, <1>5, <2>2 DEF Ahead
  <1>9. ASSUME NEW u PROVE ~Ahead(c, w, u)'
    BY <1>4, <1>5 DEF Ahead
  <1>10. ASSUME NEW e \in Writes \X Writes
         PROVE  e \in Older' <=> e \in Older \/ e \in Waiting(c) \X {w}
    <2>1. PICK v \in Writes, u \in Writes : e = <<v, u>>
      OBVIOUS
    <2>2. e \in Older <=> \E d \in Commands : v \in Waiting(d) /\ u \in Waiting(d) /\ Ahead(d, v, u)
      BY <2>1 DEF Older
    <2>3. e \in Older' <=> \E d \in Commands : v \in Waiting(d)' /\ u \in Waiting(d)' /\ Ahead(d, v, u)'
      BY <2>1 DEF Older
    <2>4. \A d \in Commands \ {c} : (v \in Waiting(d)' /\ u \in Waiting(d)' /\ Ahead(d, v, u)')
                                        <=> (v \in Waiting(d) /\ u \in Waiting(d) /\ Ahead(d, v, u))
      BY <1>3, <1>4, OtherAhead
    <2>5. (v \in Waiting(c)' /\ u \in Waiting(c)' /\ Ahead(c, v, u)')
              <=> ((v \in Waiting(c) /\ u \in Waiting(c) /\ Ahead(c, v, u)) \/ (v \in Waiting(c) /\ u = w))
      <3>1. CASE v = w
        BY <1>2, <1>9, <3>1
      <3>2. CASE v # w /\ u = w
        BY <1>2, <1>3, <1>8, <3>2
      <3>3. CASE v # w /\ u # w
        BY <1>3, <1>7, <3>3
      <3> QED
        BY <3>1, <3>2, <3>3
    <2>6. e \in Waiting(c) \X {w} <=> v \in Waiting(c) /\ u = w
      BY <2>1
    <2> QED
      BY <2>2, <2>3, <2>4, <2>5, <2>6
  <1>11. Older' = Older \cup (Waiting(c) \X {w})
    <2>1. Older \subseteq Writes \X Writes /\ Older' \subseteq Writes \X Writes /\ Waiting(c) \X {w} \subseteq Writes \X Writes
      BY DEF Older, Waiting
    <2> QED
      BY <1>10, <2>1
  <1>12. Seen' = [Seen EXCEPT ![c] = Seen[c] \cup {w}]
    BY <1>3 DEF Seen
  <1>13. UNCHANGED <<link, Acks>>
    BY <1>1 DEF Acks
  <1> QED
    BY <1>2, <1>11, <1>12, <1>13 DEF Delivered!Publish, Seen


\* Giving up: of the tasks that wait this one waits no more.
LEMMA GivesUp ==
    ASSUME IInv, NEW w \in Writes, TimesOut(w) \/ (Cancel(w) /\ pc[w] = "wait"),
           \A c \in Commands : \A v, u \in Waiting(c) \ {w} : Ahead(c, v, u)' <=> Ahead(c, v, u)
    PROVE  Delivered!GiveUp(w)
  <1> USE DEF IInv
  <1>1. pc[w] = "wait" /\ command[w] \in Commands /\ link' = link /\ downlink' = downlink
    BY DEF TimesOut, Cancel, TaskInv
  <1>2. w \in Waiting(command[w])
    BY <1>1 DEF Waiting
  <1>3. pc'[w] # "wait" /\ \A v \in Writes \ {w} : pc'[v] = pc[v] /\ command'[v] = command[v]
    BY DEF TimesOut, Cancel, Finished, TypeOK
  <1>4. \A c \in Commands : Waiting(c)' = Waiting(c) \ {w}
    BY <1>3 DEF Waiting
  <1>5. Delivered!Leave({w})
    BY <1>4, LeaveSeen
  <1>6. UNCHANGED <<link, Acks>>
    BY <1>1 DEF Acks
  <1> QED
    BY <1>1, <1>2, <1>5, <1>6 DEF Delivered!GiveUp

\* A task that ends is taken out of its queue, and nobody else moves.
LEMMA EndKeepsOrder ==
    ASSUME IInv, NEW w \in Writes, Resume(w) \/ Cancel(w)
    PROVE  \A c \in Commands : \A v, u \in Waiting(c) \ {w} : Ahead(c, v, u)' <=> Ahead(c, v, u)
  <1> USE DEF IInv
  <1> SUFFICES ASSUME NEW c \in Commands, NEW v \in Waiting(c) \ {w}, NEW u \in Waiting(c) \ {w}
               PROVE  Ahead(c, v, u)' <=> Ahead(c, v, u)
    OBVIOUS
  <1>1. command[w] \in Commands /\ ackWaiters' = Without(ackWaiters, w)
    BY DEF Resume, Cancel, TaskInv
  <1>2. CASE c # command[w]
    BY <1>1, <1>2, WithoutIs, OtherAhead
  <1>3. CASE c = command[w]
    <2> DEFINE q == ackWaiters[c]
               r == RemoveFirst(q, w)
    <2>1. ackWaiters'[c] = r /\ q \in Seq(Writes) /\ \A i, j \in DOMAIN q : q[i] = w /\ q[j] = w => i = j
      BY <1>1, <1>3, WithoutIs DEF TypeOK
    <2>2. /\ DOMAIN q \subseteq Nat /\ \A i, j \in DOMAIN q : q[i] = q[j] => i = j
          /\ \A x \in Waiting(c) : \E i \in DOMAIN q : q[i] = x
      BY QueueIs
    <2> HIDE DEF q
    <2>3. /\ r \in Seq(Writes)
          /\ \A i \in DOMAIN r : r[i] # w
          /\ \E g \in [DOMAIN r -> DOMAIN q] :
                /\ \A i \in DOMAIN r : r[i] = q[g[i]]
                /\ \A i, j \in DOMAIN r : (g[i] = g[j] => i = j) /\ (i < j => g[i] < g[j])
          /\ \A i \in DOMAIN q : q[i] # w => q[i] \in Range(r)
      BY <2>1, RemoveFirstIndices, Zenon
    <2> HIDE DEF r
    <2>4. DOMAIN r \subseteq Nat
      BY <2>3, LenProperties
    <2>5. v \in Range(r) /\ u \in Range(r)
      BY <2>2, <2>3
    <2>6. PICK g \in [DOMAIN r -> DOMAIN q] :
                /\ \A i \in DOMAIN r : r[i] = q[g[i]]
                /\ \A i, j \in DOMAIN r : i < j => g[i] < g[j]
      BY <2>3
    <2>7. (\E i, j \in DOMAIN r : i < j /\ r[i] = v /\ r[j] = u)
              <=> (\E i, j \in DOMAIN q : i < j /\ q[i] = v /\ q[j] = u)
      BY <2>2, <2>4, <2>5, <2>6, OrderKept
    <2> QED
      BY <2>1, <2>7 DEF Ahead, q
  <1> QED
    BY <1>2, <1>3

\* The tasks: they publish, they give up, or they take no part any more.
LEMMA TaskDelivers ==
    ASSUME IInv, NEW w \in Writes, (\E c \in Commands : Write(w, c)) \/ TimesOut(w) \/ Resume(w) \/ Cancel(w)
    PROVE  [Delivered!Next]_(Delivered!vars)
  <1>1. CASE \E c \in Commands : Write(w, c)
    BY <1>1, WritePublishes DEF Delivered!Next
  <1>2. CASE TimesOut(w)
    <2>1. \A c \in Commands : ackWaiters'[c] = ackWaiters[c]
      BY <1>2 DEF TimesOut
    <2>2. \A c \in Commands : \A v, u : Ahead(c, v, u)' <=> Ahead(c, v, u)
      BY <2>1, OtherAhead
    <2>3. Delivered!GiveUp(w)
      BY <1>2, <2>2, GivesUp
    <2> QED
      BY <2>3 DEF Delivered!Next
  <1>3. CASE Cancel(w) /\ pc[w] = "wait"
    <2>1. Delivered!GiveUp(w)
      BY <1>3, EndKeepsOrder, GivesUp
    <2> QED
      BY <2>1 DEF Delivered!Next
  <1>4. CASE (Resume(w) \/ Cancel(w)) /\ pc[w] # "wait"
    <2>1. pc'[w] # "wait" /\ \A v \in Writes \ {w} : pc'[v] = pc[v] /\ command'[v] = command[v]
      BY <1>4 DEF Resume, Cancel, Finished, IInv, TypeOK
    <2>2. \A c \in Commands : w \notin Waiting(c) /\ Waiting(c)' = Waiting(c)
      BY <1>4, <2>1 DEF Waiting
    <2>3. Seen' = Seen /\ Older' = Older
      BY <1>4, <2>2, EndKeepsOrder, SameSeen
    <2>4. UNCHANGED <<link, downlink>>
      BY <1>4 DEF Resume, Cancel
    <2>5. UNCHANGED Acks
      BY <2>4 DEF Acks
    <2> QED
      BY <2>3, <2>4, <2>5 DEF Delivered!vars, Seen
  <1>5. Resume(w) => pc[w] # "wait"
    BY DEF Resume
  <1> QED
    BY <1>1, <1>2, <1>3, <1>4, <1>5


\* A frame is handled: the first of those who wait for the command it echoes is released.
LEMMA HandleHears ==
    ASSUME IInv, HandleFrame
    PROVE  Delivered!Hear
  <1> USE DEF IInv
  <1> DEFINE frame == Head(downlink)
  <1>1. /\ frame \in Frames
        /\ \/ frame.kind \in {"echo", "push"} /\ HandleCommand(frame)
           \/ frame.kind = "state" /\ HandleState(frame)
           \/ frame.kind = "report" /\ HandleReport(frame)
    BY HandleFrameType
  <1>2. link = "up" /\ link' = link /\ downlink # <<>> /\ downlink' = Tail(downlink) /\ command' = command
    BY DEF HandleFrame
  <1>3. /\ Acks # <<>> /\ Acks' = Tail(Acks)
        /\ Head(Acks) = IF frame.kind = "echo" THEN {frame.cmd} ELSE {}
    BY <1>2, AcksTaken
  <1> HIDE DEF frame
  <1>4. CASE pc' = pc /\ ackWaiters' = ackWaiters /\ frame.kind # "echo"
    <2>1. \A c \in Commands : Waiting(c)' = Waiting(c) /\ \A v, w : Ahead(c, v, w)' <=> Ahead(c, v, w)
      BY <1>2, <1>4 DEF Waiting, Ahead
    <2>2. Seen' = Seen /\ Older' = Older
      BY <2>1, SameSeen
    <2> QED
      BY <1>2, <1>3, <1>4, <2>2 DEF Delivered!Hear, Seen
  <1>5. ASSUME NEW c \in Commands, frame.kind = "echo", frame.cmd = c, AckResolved(c)
        PROVE  Delivered!Hear
    <2> DEFINE q == ackWaiters[c]
    <2>1. c \in Commands /\ Head(Acks) = {c}
      BY <1>3, <1>5
    <2>2. /\ q \in Seq(Writes) /\ DOMAIN q \subseteq Nat
          /\ \A i, j \in DOMAIN q : q[i] = q[j] => i = j
          /\ \A i \in DOMAIN q : q[i] \in Writes /\ command[q[i]] = c
          /\ \A w \in Waiting(c) : \E i \in DOMAIN q : q[i] = w
      BY <2>1, QueueIs
    <2>3. CASE (\A i \in DOMAIN q : pc[q[i]] # "wait") /\ ackWaiters' = [ackWaiters EXCEPT ![c] = <<>>] /\ pc' = pc
      <3>1. Waiting(c) = {}
        BY <2>2, <2>3 DEF Waiting
      <3>2. \A d \in Commands : Waiting(d)' = Waiting(d)
        BY <1>2, <2>3 DEF Waiting
      <3>3. \A d \in Commands \ {c} : ackWaiters'[d] = ackWaiters[d]
        BY <2>1, <2>3 DEF TypeOK
      <3>4. \A d \in Commands : \A v, w \in Waiting(d) : Ahead(d, v, w)' <=> Ahead(d, v, w)
        BY <3>1, <3>3, OtherAhead
      <3>5. Seen' = Seen /\ Older' = Older
        BY <3>2, <3>4, SameSeen
      <3>6. \A d \in Head(Acks) : Seen[d] = {}
        BY <2>1, <3>1 DEF Seen
      <3> QED
        BY <1>2, <1>3, <3>5, <3>6 DEF Delivered!Hear, Seen
    <2>4. ASSUME NEW k \in DOMAIN q, pc[q[k]] = "wait", \A i \in DOMAIN q : i < k => pc[q[i]] # "wait",
                 ackWaiters' = [ackWaiters EXCEPT ![c] = SubSeq(q, k + 1, Len(q))],
                 pc' = [pc EXCEPT ![q[k]] = "woken"]
          PROVE  \E w \in Delivered!Oldest(c) : Delivered!Leave({w})
      <3> PICK w \in Writes : w = q[k]
        BY <2>2, <2>4
      <3> DEFINE r == SubSeq(q, k + 1, Len(q))
      <3>1. w \in Waiting(c)
        BY <2>2, <2>4 DEF Waiting
      <3>2. ASSUME NEW v \in Waiting(c) PROVE <<v, w>> \notin Older
        <4>1. SUFFICES ASSUME NEW d \in Commands, w \in Waiting(d), Ahead(d, v, w) PROVE FALSE
          BY DEF Older
        <4>2. d = c
          BY <3>1, <4>1 DEF Waiting
        <4>3. PICK i, j \in DOMAIN q : i < j /\ q[i] = v /\ q[j] = w
          BY <4>1, <4>2 DEF Ahead
        <4>4. j = k
          BY <2>2, <2>4, <4>3
        <4> QED
          BY <2>4, <3>2, <4>3, <4>4 DEF Waiting
      <3>3. w \in Delivered!Oldest(c)
        BY <2>1, <3>1, <3>2 DEF Delivered!Oldest, Seen
      <3>4. \A d \in Commands : Waiting(d)' = Waiting(d) \ {w}
        <4>1. pc'[w] = "woken" /\ \A v \in Writes \ {w} : pc'[v] = pc[v]
          BY <2>2, <2>4 DEF TypeOK
        <4> QED
          BY <1>2, <4>1 DEF Waiting
      <3>5. ackWaiters'[c] = r /\ \A d \in Commands \ {c} : ackWaiters'[d] = ackWaiters[d]
        BY <2>1, <2>4 DEF TypeOK
      <3> HIDE DEF q
      <3>6. /\ \A i \in DOMAIN r : i \in Nat /\ i >= 1 /\ k + i \in DOMAIN q /\ r[i] = q[k + i]
            /\ \A i \in DOMAIN q : i > k => i - k \in DOMAIN r /\ r[i - k] = q[i]
            /\ k \in Nat
        BY <2>2, SuffixIndices
      <3> HIDE DEF r
      <3>7. \A v \in Waiting(c) \ {w} : v \in Range(r)
        <4> TAKE v \in Waiting(c) \ {w}
        <4>1. PICK i \in DOMAIN q : q[i] = v
          BY <2>2
        <4>2. i > k
          BY <2>2, <2>4, <4>1 DEF Waiting
        <4> QED
          BY <3>6, <4>1, <4>2 DEF Range
      <3>8. ASSUME NEW v \in Waiting(c) \ {w}, NEW u \in Waiting(c) \ {w}
            PROVE  Ahead(c, v, u)' <=> Ahead(c, v, u)
        <4> DEFINE h == [i \in DOMAIN r |-> k + i]
        <4>0. /\ h \in [DOMAIN r -> DOMAIN q]
              /\ \A i \in DOMAIN r : r[i] = q[h[i]]
              /\ \A i, j \in DOMAIN r : i < j => h[i] < h[j]
          BY <3>6
        <4> HIDE DEF h
        <4>1. PICK g \in [DOMAIN r -> DOMAIN q] :
                /\ \A i \in DOMAIN r : r[i] = q[g[i]]
                /\ \A i, j \in DOMAIN r : i < j => g[i] < g[j]
          BY <4>0
        <4>2. DOMAIN r \subseteq Nat /\ v \in Range(r) /\ u \in Range(r)
          BY <3>6, <3>7, <3>8
        <4>3. DOMAIN q \subseteq Nat /\ \A i, j \in DOMAIN q : q[i] = q[j] => i = j
          BY <2>2
        <4>4. (\E i, j \in DOMAIN r : i < j /\ r[i] = v /\ r[j] = u)
                  <=> (\E i, j \in DOMAIN q : i < j /\ q[i] = v /\ q[j] = u)
          BY <4>1, <4>2, <4>3, OrderKept
        <4> QED
          BY <3>5, <4>4 DEF Ahead, q
      <3>9. \A d \in Commands : \A v, u \in Waiting(d) \ {w} : Ahead(d, v, u)' <=> Ahead(d, v, u)
        BY <3>5, <3>8, OtherAhead
      <3>10. Delivered!Leave({w})
        BY <3>4, <3>9, LeaveSeen
      <3> QED
        BY <3>3, <3>10
    <2> HIDE DEF q
    <2>5. \/ (\A i \in DOMAIN q : pc[q[i]] # "wait") /\ ackWaiters' = [ackWaiters EXCEPT ![c] = <<>>] /\ pc' = pc
          \/ \E k \in DOMAIN q :
                /\ pc[q[k]] = "wait" /\ \A i \in DOMAIN q : i < k => pc[q[i]] # "wait"
                /\ ackWaiters' = [ackWaiters EXCEPT ![c] = SubSeq(q, k + 1, Len(q))]
                /\ pc' = [pc EXCEPT ![q[k]] = "woken"]
      BY <1>5, <2>1, AckIs DEF q
    <2>6. CASE \E w \in Delivered!Oldest(c) : Delivered!Leave({w})
      BY <1>2, <1>3, <2>1, <2>6 DEF Delivered!Hear
    <2> QED
      BY <2>3, <2>4, <2>5, <2>6
  <1>6. \/ pc' = pc /\ ackWaiters' = ackWaiters /\ frame.kind # "echo"
        \/ frame.kind = "echo" /\ AckResolved(frame.cmd)
    BY <1>1 DEF HandleCommand, HandleState, HandleReport
  <1>7. frame.kind = "echo" => \E c \in Commands : frame.cmd = c
    BY <1>1, FrameFields
  <1> QED
    BY <1>4, <1>5, <1>6, <1>7


\* The socket: it is lost, those who wait are released, and there is a new one.
LEMMA SocketDelivers ==
    ASSUME IInv, Drop \/ Reconnect \/ Connected
    PROVE  Delivered!Next
  <1> USE DEF IInv
  <1>1. CASE Drop
    <2>1. link = "up" /\ link' # "up" /\ downlink' = <<>> /\ UNCHANGED <<pc, command, ackWaiters>>
      BY <1>1 DEF Drop, tasks
    <2>2. downlink' \in Seq(Frames)
      BY <2>1
    <2>3. Acks' \in Seq(SUBSET Commands) /\ Len(Acks') = 0
      BY <2>1, <2>2, AcksAre DEF Acks
    <2>4. Acks' = <<>>
      BY <2>3, EmptySeq
    <2>5. \A c \in Commands : Waiting(c)' = Waiting(c) /\ \A v, w : Ahead(c, v, w)' <=> Ahead(c, v, w)
      BY <2>1 DEF Waiting, Ahead
    <2>6. Seen' = Seen /\ Older' = Older
      BY <2>5, SameSeen
    <2>7. Delivered!Drop
      BY <2>1, <2>4, <2>6 DEF Delivered!Drop, Seen
    <2> QED
      BY <2>7 DEF Delivered!Next
  <1>2. CASE Reconnect
    <2>1. link # "up" /\ link' # "up" /\ UNCHANGED downlink /\ \A w \in Writes : pc'[w] # "wait"
      BY <1>2 DEF Reconnect
    <2>2. \A c \in Commands : Waiting(c)' = {} /\ Waiting(c) \subseteq Writes
      BY <2>1 DEF Waiting
    <2>3. Delivered!Leave(Writes)
      BY <2>2, LeaveSeen
    <2>4. UNCHANGED Acks
      BY <2>1 DEF Acks
    <2>5. Delivered!ReleaseAll
      BY <2>1, <2>3, <2>4 DEF Delivered!ReleaseAll
    <2> QED
      BY <2>5 DEF Delivered!Next
  <1>3. CASE Connected
    <2>1. link = "connecting" /\ link' = "up" /\ UNCHANGED <<downlink, pc, command, ackWaiters>>
      BY <1>3 DEF Connected, tasks
    <2>2. \A c \in Commands : Waiting(c) = {}
      BY <2>1 DEF LinkInv, Waiting
    <2>3. \A c \in Commands : Waiting(c)' = Waiting(c) /\ \A v, w : Ahead(c, v, w)' <=> Ahead(c, v, w)
      BY <2>1 DEF Waiting, Ahead
    <2>4. Seen' = Seen /\ Older' = Older
      BY <2>3, SameSeen
    <2>5. UNCHANGED Acks
      BY <2>1 DEF Acks
    <2>6. Delivered!Connect
      BY <2>1, <2>2, <2>4, <2>5 DEF Delivered!Connect, Seen
    <2> QED
      BY <2>6 DEF Delivered!Next
  <1> QED
    BY <1>1, <1>2, <1>3

\* What the cloud sends arrives behind what is there already, if the socket is up.
LEMMA RelayDelivers ==
    ASSUME IInv, RelayCommand \/ RelayRequest \/ RelayLoses \/ \E c \in Commands : ForeignCommand(c)
    PROVE  [Delivered!Next]_(Delivered!vars)
  <1> USE DEF IInv
  <1>1. UNCHANGED <<link, pc, command, ackWaiters>>
    BY DEF RelayCommand, RelayRequest, RelayLoses, ForeignCommand, tasks
  <1>2. \A c \in Commands : Waiting(c)' = Waiting(c) /\ \A v, w : Ahead(c, v, w)' <=> Ahead(c, v, w)
    BY <1>1 DEF Waiting, Ahead
  <1>3. Seen' = Seen /\ Older' = Older
    BY <1>2, SameSeen
  <1> DEFINE Keeps ==
        /\ link = "up" => \A i \in DOMAIN downlink : i \in DOMAIN downlink' /\ downlink'[i] = downlink[i]
        /\ link # "up" => downlink' = downlink
  <1>4. Keeps
    <2>1. ASSUME NEW c \in Commands, NEW first \in Seq(Frames), Effect(c, first) PROVE Keeps
      <3>1. PICK told \in Seq(Frames) : downlink' = IF link = "up" THEN downlink \o (first \o told) ELSE downlink
        BY <2>1, EffectFrames
      <3>2. first \o told \in Seq(Frames)
        BY ConcatIndices
      <3> QED
        BY <3>1, <3>2, ReceivedKeeps
    <2>2. CASE RelayCommand
      <3> DEFINE h == Head(uplink)
      <3>1. h \in Commands /\ Effect(h, <<Echo(h)>>)
        BY <2>2, RelayedHead DEF RelayCommand, Echo
      <3> HIDE DEF h
      <3>2. Echo(h) \in Frames
        BY <3>1, FramesMade
      <3>3. <<Echo(h)>> \in Seq(Frames)
        BY <3>2
      <3> QED
        BY <2>1, <3>1, <3>3
    <2>3. CASE RelayRequest
      <3>1. <<[kind |-> "report", states |-> real]>> \in Seq(Frames)
        BY FramesMade DEF TypeOK
      <3> QED
        BY <2>3, <3>1, ReceivedKeeps DEF RelayRequest, Received
    <2>4. CASE RelayLoses
      BY <2>4 DEF RelayLoses
    <2>5. ASSUME NEW c \in Commands, ForeignCommand(c) PROVE Keeps
      <3>1. <<[kind |-> "push", cmd |-> c]>> \in Seq(Frames) /\ <<>> \in Seq(Frames)
        BY FramesMade
      <3> QED
        BY <2>1, <2>5, <3>1 DEF ForeignCommand
    <2> QED
      BY <2>2, <2>3, <2>4, <2>5
  <1>5. CASE link = "up"
    <2>1. \A i \in DOMAIN Acks : i \in DOMAIN Acks' /\ Acks'[i] = Acks[i]
      BY <1>4, <1>5 DEF Acks
    <2>2. Delivered!Receive
      BY <1>1, <1>3, <1>5, <2>1 DEF Delivered!Receive, Seen
    <2> QED
      BY <2>2 DEF Delivered!Next
  <1>6. CASE link # "up"
    <2>1. UNCHANGED Acks
      BY <1>4, <1>6 DEF Acks
    <2> QED
      BY <1>1, <1>3, <2>1 DEF Delivered!vars, Seen
  <1> QED
    BY <1>5, <1>6

LEMMA InitDelivers ==
    ASSUME Init
    PROVE  Delivered!Init
  <1>1. \A c \in Commands : Waiting(c) = {}
    BY DEF Init, Waiting
  <1>2. Older = {}
    BY <1>1 DEF Older
  <1>3. downlink = <<>> /\ link = "up"
    BY DEF Init
  <1>4. downlink \in Seq(Frames)
    BY <1>3
  <1>5. Acks \in Seq(SUBSET Commands) /\ Len(Acks) = 0
    BY <1>3, <1>4, AcksAre DEF Acks
  <1>6. Acks = <<>>
    BY <1>5, EmptySeq
  <1> QED
    BY <1>1, <1>2, <1>3, <1>6 DEF Delivered!Init

LEMMA StepDelivers ==
    ASSUME IInv, [Next]_vars
    PROVE  [Delivered!Next]_(Delivered!vars)
  <1>1. CASE UNCHANGED vars
    <2>1. UNCHANGED <<link, downlink, pc, command, ackWaiters>>
      BY <1>1 DEF vars, tasks
    <2>2. \A c \in Commands : Waiting(c)' = Waiting(c) /\ \A v, w : Ahead(c, v, w)' <=> Ahead(c, v, w)
      BY <2>1 DEF Waiting, Ahead
    <2>3. Seen' = Seen /\ Older' = Older
      BY <2>2, SameSeen
    <2>4. UNCHANGED Acks
      BY <2>1 DEF Acks
    <2> QED
      BY <2>1, <2>3, <2>4 DEF Delivered!vars, Seen
  <1>2. CASE HandleFrame
    BY <1>2, HandleHears DEF Delivered!Next
  <1>3. CASE Drop \/ Reconnect \/ Connected
    BY <1>3, SocketDelivers
  <1> QED
    BY <1>1, <1>2, <1>3, TaskDelivers, RelayDelivers DEF Next

\* The queues of futures deliver acknowledgements as they should: the echo of a command releases
\* the task that has waited longest for it, past any that have given up, and nobody else (write,
\* _register_ack_waiter and _resolve_ack_waiter: "skip any already timed out/cancelled").
THEOREM ImplementsDelivery == Spec => OldestFirst
  <1>1. Init => Delivered!Init
    BY InitDelivers
  <1>2. IInv /\ [Next]_vars => [Delivered!Next]_(Delivered!vars)
    BY StepDelivers
  <1> QED
    BY Invariance, <1>1, <1>2, PTL DEF Spec, OldestFirst, Delivered!Spec
=============================================================================
