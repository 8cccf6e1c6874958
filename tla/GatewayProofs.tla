--------------------------- MODULE GatewayProofs ---------------------------
(***************************************************************************)
(* No command is lost between the two threads of src/src/gateway.rs, also  *)
(* not at shutdown, for every ring capacity and number of commands; and    *)
(* what the numbers of its reports let the subscriber of                   *)
(* src/examples/subscriber.rs conclude, for every width of the counter,    *)
(* number of reports and capacity of the network.                          *)
(***************************************************************************)
EXTENDS Gateway, Feed, CommonLemmas

(* The flag is set when nothing more is pushed; once it has been seen, the *)
(* matching thread sees all that is in the ring.                           *)
ShutdownInv ==
    /\ ing = "start" => mat = "none"
    /\ shutdown => ing \in {"join", "exited"}
    /\ mat \in {"drain", "ended"} => shutdown /\ visible = Len(queue)
    /\ mat \in {"none", "check", "ended"} => ~busy
    /\ mat = "ended" => queue = <<>>

GwInv == GwTypeOK /\ EachCommandOnce /\ ShutdownInv

(* Number of commands popped.                                              *)
Taken == processed + (IF busy THEN 1 ELSE 0)
-----------------------------------------------------------------------------
(* The elements of a sequence are of its element type.                     *)
LEMMA ElementType ==
    ASSUME NEW S, NEW s \in Seq(S), NEW i \in 1 .. Len(s)
    PROVE  s[i] \in S
OBVIOUS

(* A fresh gateway satisfies the invariant.                                *)
LEMMA InitGwInv == GwInit => GwInv
<1>. SUFFICES ASSUME GwInit PROVE GwInv
  OBVIOUS
<1>1. GwTypeOK
  <2>1. busy \in BOOLEAN /\ shutdown \in BOOLEAN
    BY Zenon DEF GwInit
  <2>2. queue \in Seq(1 .. MaxRequests) /\ Len(queue) = 0
    BY DEF GwInit
  <2>. QED
    BY <2>1, <2>2, GatewayAssumption DEF GwInit, GwTypeOK
<1>. QED
  BY <1>1 DEF GwInv, EachCommandOnce, ShutdownInv, GwInit

(* The ingestion thread's steps that leave the ring alone.                 *)
LEMMA IngestionInv ==
    ASSUME GwInv,
           StartFails \/ SpawnMatching \/ ListenFails \/ Accept \/ ReadCommand
              \/ ClientDone \/ SetShutdown \/ Join
    PROVE  GwInv'
<1>. USE DEF StartFails, SpawnMatching, ListenFails, Accept, ReadCommand, ClientDone,
             SetShutdown, Join, ringVars, matVars
<1>1. /\ queue' = queue /\ out' = out /\ visible' = visible
      /\ busy' = busy /\ processed' = processed
  BY Zenon
<1>2. GwTypeOK'
  <2>1. busy' \in BOOLEAN /\ shutdown' \in BOOLEAN
    BY Zenon DEF GwInv, GwTypeOK
  <2>2. /\ ing' \in {"start", "listen", "read", "push", "flag", "join", "exited"}
        /\ mat' \in {"none", "pop", "check", "drain", "killed", "ended"}
    BY DEF GwInv, GwTypeOK
  <2>3. read' \in 0 .. MaxRequests
    BY GatewayAssumption DEF GwInv, GwTypeOK
  <2>. QED
    BY <1>1, <2>1, <2>2, <2>3 DEF GwInv, GwTypeOK
<1>3. EachCommandOnce'
  <2>1. \/ read' = read /\ ing # "push" /\ ing' # "push"
        \/ read' = read + 1 /\ ing # "push" /\ ing' = "push"
    OBVIOUS
  <2>2. Taken \in Nat /\ Len(queue) \in Nat /\ Taken' = Taken
    BY <1>1 DEF GwInv, GwTypeOK, Taken
  <2>3. read' = Taken' + Len(queue') + (IF ing' = "push" THEN 1 ELSE 0)
    BY <1>1, <2>1, <2>2 DEF GwInv, EachCommandOnce, Taken
  <2>4. (\A i \in 1 .. Len(queue') : queue'[i] = Taken' + i) /\ (busy' => out' = processed' + 1)
    BY <1>1, <2>2 DEF GwInv, EachCommandOnce, Taken
  <2>. QED
    BY <2>3, <2>4 DEF EachCommandOnce, Taken
<1>4. ShutdownInv'
  BY DEF GwInv, GwTypeOK, ShutdownInv
<1>. QED
  BY <1>2, <1>3, <1>4 DEF GwInv

(* A push appends the command read last.                                   *)
LEMMA PushInv == ASSUME GwInv, Push PROVE GwInv'
<1>1. /\ Len(queue) \in Nat /\ Len(queue) < RingCapacity /\ queue \in Seq(1 .. MaxRequests)
      /\ queue' = Append(queue, read) /\ out' = out /\ ing = "push" /\ ing' = "read"
  BY DEF GwInv, GwTypeOK, Push, Ring!Enqueue
<1>2. Taken \in Nat /\ read = Taken + Len(queue) + 1 /\ read \in 1 .. MaxRequests
  BY <1>1 DEF GwInv, GwTypeOK, EachCommandOnce, Taken
<1>3. queue' \in Seq(1 .. MaxRequests) /\ Len(queue') = Len(queue) + 1
  BY <1>1, <1>2
<1>4. GwTypeOK'
  BY <1>1, <1>3, GatewayAssumption DEF GwInv, GwTypeOK, Push, matVars
<1>5. EachCommandOnce'
  <2>1. Taken' = Taken /\ read' = Taken + Len(queue') /\ ing' # "push"
    BY <1>1, <1>2, <1>3 DEF Push, matVars, Taken
  <2>2. ASSUME NEW i \in 1 .. Len(queue') PROVE queue'[i] = Taken + i
    <3>1. CASE i = Len(queue) + 1
      BY <1>1, <1>2, <3>1
    <3>2. CASE i \in 1 .. Len(queue)
      <4>1. queue'[i] = queue[i]
        BY <1>1, <1>2, <3>2
      <4>. QED
        BY <3>2, <4>1 DEF GwInv, EachCommandOnce, Taken
    <3>. QED
      BY <1>1, <1>3, <3>1, <3>2
  <2>3. busy' = busy /\ out' = out /\ processed' = processed
    BY <1>1 DEF Push, matVars
  <2>4. busy => out = processed + 1
    BY DEF GwInv, EachCommandOnce
  <2>. QED
    BY <1>1, <1>3, <1>2, <2>1, <2>2, <2>3, <2>4, SMTT(30) DEF EachCommandOnce, Taken
<1>6. ShutdownInv'
  BY <1>1 DEF GwInv, ShutdownInv, Push, matVars
<1>. QED
  BY <1>4, <1>5, <1>6 DEF GwInv

(* A pop takes the oldest command.                                         *)
LEMMA PopInv == ASSUME GwInv, Pop PROVE GwInv'
<1>1. /\ Len(queue) \in Nat /\ queue \in Seq(1 .. MaxRequests) /\ queue # <<>>
      /\ queue' = Tail(queue) /\ out' = Head(queue) /\ ~busy /\ busy'
  BY DEF GwInv, GwTypeOK, Pop, Ring!Dequeue
<1>2. /\ Len(queue) > 0 /\ Len(queue') = Len(queue) - 1
      /\ queue' \in Seq(1 .. MaxRequests) /\ out' = queue[1] /\ out' \in 1 .. MaxRequests
      /\ \A i \in 1 .. Len(queue') : queue'[i] = queue[i + 1]
  <2>1. Len(queue) > 0
    BY <1>1
  <2>2. Len(queue') = Len(queue) - 1 /\ queue' \in Seq(1 .. MaxRequests)
    BY <1>1, <2>1
  <2>3. out' = queue[1] /\ out' \in 1 .. MaxRequests
    <3>1. 1 \in 1 .. Len(queue) /\ Head(queue) = queue[1]
      BY <1>1, <2>1
    <3>2. queue[1] \in 1 .. MaxRequests
      BY <1>1, <3>1, ElementType, Zenon
    <3>. QED
      BY <1>1, <3>1, <3>2
  <2>4. \A i \in 1 .. Len(queue') : queue'[i] = queue[i + 1]
    BY <1>1, <2>1, <2>2
  <2>. QED
    BY <2>1, <2>2, <2>3, <2>4
<1>3. processed \in Nat /\ out' = processed + 1
  BY <1>1, <1>2 DEF GwInv, GwTypeOK, EachCommandOnce
<1>4. visible \in 0 .. Len(queue) /\ visible' = IF visible = 0 THEN 0 ELSE visible - 1
  BY DEF GwInv, GwTypeOK, Pop
<1>5. GwTypeOK'
  BY <1>1, <1>2, <1>4, GatewayAssumption DEF GwInv, GwTypeOK, Pop
<1>6. EachCommandOnce'
  <2>1. /\ read = processed + Len(queue) + (IF ing = "push" THEN 1 ELSE 0)
        /\ \A i \in 1 .. Len(queue) : queue[i] = processed + i
    BY <1>1, <1>3 DEF GwInv, GwTypeOK, EachCommandOnce
  <2>2. processed' = processed /\ read' = read /\ ing' = ing
    BY DEF Pop
  <2>3. \A i \in 1 .. Len(queue') : queue'[i] = processed + 1 + i
    BY <1>1, <1>2, <1>3, <2>1
  <2>. QED
    BY <1>1, <1>2, <1>3, <2>1, <2>2, <2>3 DEF EachCommandOnce
<1>7. ShutdownInv'
  <2>1. mat' = mat /\ ing' = ing /\ shutdown' = shutdown /\ mat \in {"pop", "drain"}
    BY DEF Pop
  <2>2. mat = "drain" => visible' = Len(queue')
    BY <1>1, <1>2, <1>4 DEF GwInv, ShutdownInv
  <2>. QED
    BY <2>1, <2>2 DEF GwInv, ShutdownInv
<1>. QED
  BY <1>5, <1>6, <1>7 DEF GwInv

(* The matching thread's other steps.                                      *)
LEMMA MatchingInv ==
    ASSUME GwInv, Process \/ PopEmpty \/ SeeNoShutdown \/ SeeShutdown \/ DrainEmpty
    PROVE  GwInv'
<1>. USE DEF Process, PopEmpty, SeeNoShutdown, SeeShutdown, DrainEmpty, ringVars
<1>1. queue' = queue /\ out' = out /\ read' = read /\ ing' = ing /\ shutdown' = shutdown
  BY Zenon
<1>2. \/ busy' = busy /\ processed' = processed
      \/ busy /\ ~busy' /\ processed' = processed + 1
  BY Zenon
<1>3. GwTypeOK'
  <2>1. busy' \in BOOLEAN
    BY Zenon DEF GwInv, GwTypeOK
  <2>2. mat' \in {"none", "pop", "check", "drain", "killed", "ended"}
    BY DEF GwInv, GwTypeOK
  <2>3. processed' \in Nat
    BY <1>2 DEF GwInv, GwTypeOK
  <2>4. Len(queue) \in Nat /\ visible' \in 0 .. Len(queue)
    BY DEF GwInv, GwTypeOK
  <2>. QED
    BY <1>1, <2>1, <2>2, <2>3, <2>4 DEF GwInv, GwTypeOK
<1>4. EachCommandOnce'
  <2>1. processed \in Nat /\ Taken' = Taken
    BY <1>2 DEF GwInv, GwTypeOK, Taken
  <2>2. busy' => out' = processed' + 1
    BY <1>1, <1>2, Zenon DEF GwInv, EachCommandOnce
  <2>3. /\ read = Taken + Len(queue) + (IF ing = "push" THEN 1 ELSE 0)
        /\ \A i \in 1 .. Len(queue) : queue[i] = Taken + i
    BY DEF GwInv, EachCommandOnce, Taken
  <2>4. /\ read' = Taken' + Len(queue') + (IF ing' = "push" THEN 1 ELSE 0)
        /\ \A i \in 1 .. Len(queue') : queue'[i] = Taken' + i
    BY <1>1, <2>1, <2>3
  <2>. QED
    BY <2>2, <2>4 DEF EachCommandOnce, Taken
<1>5. ShutdownInv'
  BY DEF GwInv, GwTypeOK, ShutdownInv
<1>. QED
  BY <1>3, <1>4, <1>5 DEF GwInv

(* Every step preserves the invariant.                                     *)
LEMMA NextGwInv == GwInv /\ [GwNext]_gwVars => GwInv'
<1>. SUFFICES ASSUME GwInv, [GwNext]_gwVars PROVE GwInv'
  OBVIOUS
<1>1. CASE Ingestion
  BY <1>1, IngestionInv, PushInv, Zenon DEF Ingestion
<1>2. CASE MatchingLoop
  BY <1>2, MatchingInv, PopInv, Zenon DEF MatchingLoop
<1>3. CASE UNCHANGED gwVars
  BY <1>3, Zenon DEF gwVars, GwInv, GwTypeOK, EachCommandOnce, ShutdownInv
<1>. QED
  BY <1>1, <1>2, <1>3 DEF GwNext, Exited

(* The invariant holds of every state of the gateway.                      *)
THEOREM GatewayInductive == GwSpec => []GwInv
BY InitGwInv, NextGwInv, PTL DEF GwSpec

(* The flags, queues and counters of the two threads keep their types:     *)
(* the ring never holds more commands than its capacity.                   *)
THEOREM GatewayTypeCorrect == GwSpec => []GwTypeOK
<1>1. GwInv => GwTypeOK
  BY DEF GwInv
<1>. QED
  BY <1>1, GatewayInductive, PTL

(* Every command handle_client reads is processed once and in order.       *)
THEOREM GatewayKeepsCommands == GwSpec => []EachCommandOnce
<1>1. GwInv => EachCommandOnce
  BY DEF GwInv
<1>. QED
  BY <1>1, GatewayInductive, PTL

(* The drain of matching_loop leaves no command behind.                    *)
THEOREM DrainIsComplete == GwSpec => []NothingLeftBehind
<1>1. GwInv => NothingLeftBehind
  BY DEF GwInv, GwTypeOK, EachCommandOnce, ShutdownInv, NothingLeftBehind
<1>. QED
  BY <1>1, GatewayInductive, PTL

(* matching_loop does not return while handle_client may still push.       *)
THEOREM MatcherStaysForPushes == GwSpec => []MatcherOutlivesPushes
<1>1. GwInv => MatcherOutlivesPushes
  BY DEF GwInv, ShutdownInv, MatcherOutlivesPushes
<1>. QED
  BY <1>1, GatewayInductive, PTL
-----------------------------------------------------------------------------
Reports == [num : Int, serial : Int]

(* Report r is one of the first n and carries its number modulo NumMod.    *)
Numbered(r, n) == r.serial \in 1 .. n /\ r.num = r.serial % NumMod

LastSerial(s) == IF Len(s) = 0 THEN 0 ELSE s[Len(s)].serial

Increasing(s) == \A i, j \in 1 .. Len(s) : i < j => s[i].serial < s[j].serial

CountsUp(s) == \A i \in 1 .. Len(s) : s[i].serial = i

(* Types, and what the numbers of reports mean.                            *)
Numbers ==
    /\ published \in Nat /\ seqNum = published % NumMod
    /\ network \in Seq(Reports) /\ received \in Seq(Reports)
    /\ Len(network) <= MaxInFlight
    /\ missing \in Nat /\ gaps \in BOOLEAN /\ inOrder \in BOOLEAN
    /\ \A i \in 1 .. Len(network) : Numbered(network[i], published)
    /\ \A i \in 1 .. Len(received) : Numbered(received[i], published)
    /\ expected = (LastSerial(received) + 1) % NumMod

(* No report is in flight for a turn of the counter, nor is a turn lost.   *)
OneTurn ==
    /\ \A i \in 1 .. Len(network) : published + 1 - network[i].serial < NumMod
    /\ (~gaps \/ inOrder) => published - LastSerial(received) < NumMod

(* What holds as long as the network has only lost datagrams.              *)
OnlyLosses ==
    inOrder => /\ Increasing(network) /\ Increasing(received)
               /\ \A i \in 1 .. Len(network) : network[i].serial > LastSerial(received)
               /\ missing = LastSerial(received) - Len(received)

FeedInv == Numbers /\ OneTurn /\ OnlyLosses /\ (~gaps => CountsUp(received))
-----------------------------------------------------------------------------
(* Numbers less than a turn apart with the same remainder are equal.       *)
LEMMA SameNumber ==
    ASSUME NEW a \in Nat, NEW b \in Nat, NEW c \in Nat \ {0},
           a % c = b % c, a - b < c, b - a < c
    PROVE  a = b
<1>1. CASE a < b
  <2>1. a + c <= b
    BY <1>1, SameRemainderApart, Zenon
  <2>. QED
    BY <2>1
<1>2. CASE b < a
  <2>1. b + c <= a
    BY <1>2, SameRemainderApart, Zenon
  <2>. QED
    BY <2>1
<1>. QED
  BY <1>1, <1>2

(* wrapping_sub of two numbers less than a turn apart.                     *)
LEMMA WrappingSub ==
    ASSUME NEW s \in Nat, NEW t \in Nat, NEW c \in Nat \ {0}, t <= s, s - t < c
    PROVE  ((s % c) - (t % c)) % c = s - t
<1>1. PICK r \in 0 .. c - 1 : r = s % c
  BY SMT
<1>2. PICK u \in 0 .. c - 1 : u = t % c
  BY SMT
<1>3. PICK q \in Nat : s = c * q + r
  BY <1>1, Division, Zenon
<1>4. PICK p \in Nat : t = c * p + u
  BY <1>2, Division, Zenon
<1>5. /\ c * (p - q) = c * p - c * q /\ c * p \in Int /\ c * q \in Int
  BY Distributes
<1>6. PICK d \in 0 .. c - 1 : d = s - t
  OBVIOUS
<1>7. PICK e \in Int : e = p - q
  OBVIOUS
<1>8. PICK x \in Int : x = r - u
  OBVIOUS
<1>9. x = c * e + d
  BY <1>3, <1>4, <1>5, <1>6, <1>7, <1>8
<1>10. x % c = d
  BY <1>9, RemainderUnique, Zenon
<1>. QED
  BY <1>1, <1>2, <1>6, <1>8, <1>10

(* wrapping_add of one.                                                    *)
LEMMA WrappingSuccessor ==
    ASSUME NEW x \in Nat, NEW c \in Nat \ {0}
    PROVE  ((x % c) + 1) % c = (x + 1) % c
<1>1. c % c = 0
  <2>1. PICK e \in Int : e = 1
    OBVIOUS
  <2>2. PICK y \in Int : y = c
    OBVIOUS
  <2>3. PICK z \in 0 .. c - 1 : z = 0
    OBVIOUS
  <2>4. y = c * e + z
    BY <2>1, <2>2, <2>3
  <2>5. y % c = z
    BY <2>4, RemainderUnique, Zenon
  <2>. QED
    BY <2>2, <2>3, <2>5
<1>2. Rem(c, c) = 0
  BY <1>1 DEF Rem
<1>3. Rem(Rem(x, c) + 1, c) = Rem(x + 1, c)
  BY <1>2, RemainderOfSum
<1>. QED
  BY <1>3 DEF Rem
-----------------------------------------------------------------------------
(* A sequence without its i-th element.                                    *)
LEMMA WithoutOne ==
    ASSUME NEW S, NEW s \in Seq(S), NEW i \in 1 .. Len(s)
    PROVE  /\ RemoveAt(s, i) \in Seq(S) /\ Len(RemoveAt(s, i)) = Len(s) - 1
           /\ \A j \in 1 .. Len(s) - 1 :
                 RemoveAt(s, i)[j] = IF j < i THEN s[j] ELSE s[j + 1]
BY CutElements DEF RemoveAt, Cut

(* The elements of t are elements of s, in the same order.                 *)
Embeds(t, s) ==
    \A j, k \in 1 .. Len(t) : \E a, b \in 1 .. Len(s) :
       t[j] = s[a] /\ t[k] = s[b] /\ (j < k => a < b)

(* The rest of a sequence embeds in it.                                    *)
LEMMA WithoutOneEmbeds ==
    ASSUME NEW S, NEW s \in Seq(S), NEW i \in 1 .. Len(s)
    PROVE  Embeds(RemoveAt(s, i), s)
<1>. DEFINE At(j) == IF j < i THEN j ELSE j + 1
<1>1. Len(RemoveAt(s, i)) = Len(s) - 1
  BY WithoutOne
<1>2. \A j \in 1 .. Len(s) - 1 : RemoveAt(s, i)[j] = s[At(j)] /\ At(j) \in 1 .. Len(s)
  BY WithoutOne
<1>3. \A j, k \in 1 .. Len(s) - 1 : j < k => At(j) < At(k)
  OBVIOUS
<1>. HIDE DEF At
<1>. QED
  BY <1>1, <1>2, <1>3 DEF Embeds

(* The order of serial numbers is inherited.                               *)
LEMMA EmbedsIncreasing ==
    ASSUME NEW s, NEW t, Embeds(t, s), Increasing(s)
    PROVE  Increasing(t)
<1>. SUFFICES ASSUME NEW j \in 1 .. Len(t), NEW k \in 1 .. Len(t), j < k
              PROVE  t[j].serial < t[k].serial
  BY DEF Increasing
<1>1. PICK a \in 1 .. Len(s), b \in 1 .. Len(s) : t[j] = s[a] /\ t[k] = s[b] /\ a < b
  BY Zenon DEF Embeds
<1>2. s[a].serial < s[b].serial
  BY <1>1, Zenon DEF Increasing
<1>. QED
  BY <1>1, <1>2

(* The largest serial number of reports in order is the last one's.        *)
LEMMA LargestSerial ==
    ASSUME NEW s \in Seq(Reports), Len(s) # 0, Increasing(s)
    PROVE  Max({r.serial : r \in ToSet(s)}) = s[Len(s)].serial
<1>. DEFINE m == s[Len(s)].serial
            T == {r.serial : r \in ToSet(s)}
<1>1. \A i \in 1 .. Len(s) : s[i].serial \in Int
  <2>1. \A i \in 1 .. Len(s) : s[i] \in Reports
    OBVIOUS
  <2>. QED
    BY <2>1 DEF Reports
<1>2. Len(s) \in 1 .. Len(s) /\ DOMAIN s = 1 .. Len(s)
  OBVIOUS
<1>3. m \in T /\ m \in Int
  BY <1>1, <1>2 DEF ToSet
<1>4. ASSUME NEW x \in T PROVE x \in Int /\ m >= x
  <2>1. PICK i \in 1 .. Len(s) : x = s[i].serial
    BY <1>2 DEF ToSet
  <2>2. CASE i = Len(s)
    BY <1>3, <2>1, <2>2
  <2>3. CASE i < Len(s)
    BY <1>1, <1>2, <2>1, <2>3 DEF Increasing
  <2>. QED
    BY <2>2, <2>3
<1>. HIDE DEF m, T
<1>5. \E x \in T : \A y \in T : x >= y
  BY <1>3, <1>4
<1>6. Max(T) \in T /\ \A y \in T : Max(T) >= y
  BY <1>5, Zenon DEF Max
<1>7. Max(T) >= m /\ m >= Max(T) /\ Max(T) \in Int
  BY <1>3, <1>4, <1>6
<1>8. Max(T) = m
  BY <1>3, <1>7
<1>. QED
  BY <1>8 DEF m, T
-----------------------------------------------------------------------------
(* The last report's serial number is a count of published reports.        *)
LEMMA LastSerialRange == ASSUME Numbers PROVE LastSerial(received) \in 0 .. published
<1>1. \A i \in 1 .. Len(received) : received[i].serial \in 1 .. published
  BY DEF Numbers, Numbered
<1>2. Len(received) \in Nat /\ published \in Nat
  BY DEF Numbers
<1>3. CASE Len(received) = 0
  BY <1>2, <1>3 DEF LastSerial
<1>4. CASE Len(received) # 0
  BY <1>1, <1>2, <1>4 DEF LastSerial
<1>. QED
  BY <1>3, <1>4

(* A subscriber with nothing before it satisfies the invariant.            *)
LEMMA InitFeedInv == FeedInit => FeedInv
<1>. SUFFICES ASSUME FeedInit PROVE FeedInv
  OBVIOUS
<1>1. /\ network = <<>> /\ received = <<>> /\ published = 0 /\ seqNum = 0
      /\ expected = 1 /\ missing = 0
  BY DEF FeedInit
<1>2. gaps = FALSE /\ inOrder = TRUE
  BY Zenon DEF FeedInit
<1>3. gaps \in BOOLEAN /\ inOrder \in BOOLEAN
  BY <1>2, Zenon
<1>4. LastSerial(received) = 0 /\ Len(network) = 0 /\ Len(received) = 0
  BY <1>1 DEF LastSerial
<1>5. 0 % NumMod = 0 /\ (0 + 1) % NumMod = 1
  BY FeedAssumption
<1>6. network \in Seq(Reports) /\ received \in Seq(Reports)
  BY <1>1
<1>7. Numbers
  BY <1>1, <1>3, <1>4, <1>5, <1>6, FeedAssumption DEF Numbers
<1>8. OneTurn
  BY <1>1, <1>4, FeedAssumption DEF OneTurn
<1>9. OnlyLosses
  BY <1>1, <1>4 DEF OnlyLosses, Increasing
<1>. QED
  BY <1>4, <1>7, <1>8, <1>9 DEF FeedInv, CountsUp

(* A report is numbered and sent, or the send fails.                       *)
LEMMA PublishInv == ASSUME FeedInv, Publish PROVE FeedInv'
<1>1. /\ published \in Nat /\ published' = published + 1 /\ published' \in Nat
      /\ network \in Seq(Reports) /\ received \in Seq(Reports)
      /\ received' = received /\ expected' = expected /\ missing' = missing
  BY DEF FeedInv, Numbers, Publish, subscriberVars
<1>2. gaps' = gaps /\ inOrder' = inOrder
  BY Zenon DEF Publish, subscriberVars
<1>3. PICK n \in Int : n = published'
  BY <1>1
<1>4. seqNum' = n % NumMod
  <2>1. seqNum' = ((published % NumMod) + 1) % NumMod
    BY DEF FeedInv, Numbers, Publish
  <2>. QED
    BY <1>1, <1>3, <2>1, WrappingSuccessor, FeedAssumption
<1>. DEFINE r == [num |-> n % NumMod, serial |-> n]
<1>5. \/ Len(network) < MaxInFlight /\ network' = Append(network, r)
      \/ network' = network
  BY <1>1, <1>3, <1>4 DEF Publish
<1>6. r \in Reports /\ Numbered(r, n) /\ r.serial = n
  BY <1>1, <1>3, FeedAssumption DEF Reports, Numbered
<1>. HIDE DEF r
<1>7. network' \in Seq(Reports) /\ Len(network') <= MaxInFlight /\ Len(network') \in Nat
  <2>1. Len(network) \in Nat /\ Len(network) <= MaxInFlight
    BY <1>1 DEF FeedInv, Numbers
  <2>2. CASE Len(network) < MaxInFlight /\ network' = Append(network, r)
    <3>1. network' \in Seq(Reports) /\ Len(network') = Len(network) + 1
      BY <1>1, <1>6, <2>2
    <3>. QED
      BY <2>1, <2>2, <3>1, FeedAssumption
  <2>3. CASE network' = network
    BY <1>1, <2>1, <2>3
  <2>. QED
    BY <1>5, <2>2, <2>3
<1>8. ASSUME NEW i \in 1 .. Len(network')
      PROVE  \/ i \in 1 .. Len(network) /\ network'[i] = network[i]
             \/ i = Len(network) + 1 /\ network'[i] = r
  BY <1>1, <1>5, <1>6
<1>9. \A i \in 1 .. Len(network) : network[i].serial \in 1 .. published /\ Numbered(network[i], published)
  BY DEF FeedInv, Numbers, Numbered
<1>10. Numbers'
  <2>1. \A i \in 1 .. Len(network') : Numbered(network'[i], n)
    <3>. SUFFICES ASSUME NEW i \in 1 .. Len(network') PROVE Numbered(network'[i], n)
      OBVIOUS
    <3>1. CASE i \in 1 .. Len(network) /\ network'[i] = network[i]
      <4>1. PICK x : x = network[i]
        OBVIOUS
      <4>2. Numbered(x, published)
        BY <1>9, <3>1, <4>1, Zenon
      <4>3. Numbered(x, n)
        BY <1>1, <1>3, <4>2 DEF Numbered
      <4>. QED
        BY <3>1, <4>1, <4>3, Zenon
    <3>2. CASE network'[i] = r
      BY <1>6, <3>2, Zenon
    <3>. QED
      BY <1>8, <3>1, <3>2, Zenon
  <2>2. \A i \in 1 .. Len(received) : Numbered(received[i], n)
    <3>1. ASSUME NEW i \in 1 .. Len(received) PROVE Numbered(received[i], n)
      <4>1. PICK x : x = received[i]
        OBVIOUS
      <4>2. Numbered(x, published)
        BY <4>1, Zenon DEF FeedInv, Numbers
      <4>3. Numbered(x, n)
        BY <1>1, <1>3, <4>2 DEF Numbered
      <4>. QED
        BY <4>1, <4>3, Zenon
    <3>. QED
      BY <3>1, Zenon
  <2>3. expected' = (LastSerial(received) + 1) % NumMod /\ missing' \in Nat
    BY <1>1 DEF FeedInv, Numbers
  <2>4. gaps' \in BOOLEAN /\ inOrder' \in BOOLEAN
    BY <1>2, Zenon DEF FeedInv, Numbers
  <2>5. /\ published' = n /\ n \in Nat /\ received' = received
    BY <1>1, <1>3
  <2>. QED
    BY <1>1, <1>4, <1>7, <2>1, <2>2, <2>3, <2>4, <2>5 DEF Numbers, LastSerial
<1>11. OneTurn'
  <2>1. ASSUME NEW i \in 1 .. Len(network') PROVE n + 1 - network'[i].serial < NumMod
    <3>1. CASE i \in 1 .. Len(network) /\ network'[i] = network[i]
      <4>1. published + 2 - network[i].serial < NumMod
        BY <3>1 DEF Publish, WithinOneTurn
      <4>. QED
        <5>1. PICK x : x = network[i].serial
          OBVIOUS
        <5>2. x \in 1 .. published /\ published + 2 - x < NumMod
          BY <1>9, <3>1, <4>1, <5>1, Zenon
        <5>3. n + 1 - x < NumMod
          BY <1>1, <1>3, <5>2, FeedAssumption
        <5>. QED
          BY <3>1, <5>1, <5>3, Zenon
    <3>2. CASE network'[i] = r
      BY <1>1, <1>3, <1>6, <3>2, FeedAssumption
    <3>. QED
      BY <1>8, <3>1, <3>2
  <2>2. ASSUME ~gaps \/ inOrder PROVE n - LastSerial(received) < NumMod
    <3>1. CASE Len(received) = 0
      <4>1. received = <<>>
        BY <1>1, <3>1
      <4>2. published + 1 - 0 < NumMod
        BY <4>1 DEF Publish, WithinOneTurn
      <4>. QED
        BY <1>1, <1>3, <3>1, <4>2 DEF LastSerial
    <3>2. CASE Len(received) # 0
      <4>1. received # <<>>
        BY <1>1, <3>2
      <4>. DEFINE m == Max({x.serial : x \in ToSet(received)})
      <4>2. published + 1 - m < NumMod
        BY <4>1 DEF Publish, WithinOneTurn
      <4>3. Increasing(received)
        BY <2>2 DEF FeedInv, OnlyLosses, CountsUp, Increasing
      <4>4. m = received[Len(received)].serial
        BY <1>1, <3>2, <4>3, LargestSerial
      <4>5. LastSerial(received) = received[Len(received)].serial
        BY <3>2, Zenon DEF LastSerial
      <4>6. n = published + 1
        BY <1>1, <1>3
      <4>. HIDE DEF m
      <4>7. LastSerial(received) \in 0 .. published
        BY LastSerialRange DEF FeedInv
      <4>8. m = LastSerial(received) /\ m \in Int
        BY <1>1, <4>4, <4>5, <4>7
      <4>. QED
        BY <1>1, <4>2, <4>6, <4>8, FeedAssumption
    <3>. QED
      BY <3>1, <3>2
  <2>. QED
    BY <1>1, <1>2, <1>3, <2>1, <2>2 DEF OneTurn, LastSerial
<1>12. OnlyLosses'
  <2>. SUFFICES ASSUME inOrder'
                PROVE  /\ Increasing(network') /\ Increasing(received)
                       /\ \A i \in 1 .. Len(network') : network'[i].serial > LastSerial(received)
                       /\ missing = LastSerial(received) - Len(received)
    BY <1>1 DEF OnlyLosses, LastSerial, Increasing
  <2>1. /\ Increasing(network) /\ Increasing(received)
        /\ \A i \in 1 .. Len(network) : network[i].serial > LastSerial(received)
        /\ missing = LastSerial(received) - Len(received)
    BY <1>2 DEF FeedInv, OnlyLosses
  <2>2. LastSerial(received) \in 0 .. published
    BY LastSerialRange DEF FeedInv
  <2>3. Increasing(network')
    <3>. SUFFICES ASSUME NEW i \in 1 .. Len(network'), NEW j \in 1 .. Len(network'), i < j
                  PROVE  network'[i].serial < network'[j].serial
      BY DEF Increasing
    <3>1. Len(network) \in Nat /\ Len(network') \in Nat
      BY <1>1, <1>7
    <3>2. i \in 1 .. Len(network) /\ network'[i] = network[i]
      BY <1>5, <1>7, <1>8, <3>1
    <3>3. CASE j \in 1 .. Len(network) /\ network'[j] = network[j]
      BY <2>1, <3>2, <3>3 DEF Increasing
    <3>4. CASE network'[j] = r
      BY <1>1, <1>3, <1>6, <1>9, <3>2, <3>4
    <3>. QED
      BY <1>8, <3>3, <3>4
  <2>4. ASSUME NEW i \in 1 .. Len(network') PROVE network'[i].serial > LastSerial(received)
    BY <1>1, <1>3, <1>6, <1>8, <2>1, <2>2
  <2>. QED
    BY <2>1, <2>3, <2>4
<1>13. ~gaps' => CountsUp(received')
  BY <1>1, <1>2 DEF FeedInv
<1>. QED
  BY <1>10, <1>11, <1>12, <1>13 DEF FeedInv

(* A datagram is lost.                                                     *)
LEMMA LoseInv == ASSUME FeedInv, Lose PROVE FeedInv'
<1>1. PICK i \in 1 .. Len(network) : network' = RemoveAt(network, i)
  BY DEF Lose
<1>2. /\ published \in Nat /\ network \in Seq(Reports) /\ received \in Seq(Reports)
      /\ seqNum' = seqNum /\ published' = published /\ expected' = expected
      /\ received' = received /\ missing' = missing
  BY DEF FeedInv, Numbers, Lose, subscriberVars
<1>3. gaps' = gaps /\ inOrder' = inOrder
  BY Zenon DEF Lose, subscriberVars
<1>4. network' \in Seq(Reports) /\ Len(network') = Len(network) - 1 /\ Len(network) \in Nat
  BY <1>1, <1>2, WithoutOne
<1>5. Embeds(network', network)
  BY <1>1, <1>2, WithoutOneEmbeds
<1>6. \A j \in 1 .. Len(network') : \E a \in 1 .. Len(network) : network'[j] = network[a]
  BY <1>5, Zenon DEF Embeds
<1>7. Numbers'
  <2>1. \A j \in 1 .. Len(network') : Numbered(network'[j], published)
    BY <1>6 DEF FeedInv, Numbers
  <2>2. Len(network') <= MaxInFlight
    BY <1>4, FeedAssumption DEF FeedInv, Numbers
  <2>3. gaps' \in BOOLEAN /\ inOrder' \in BOOLEAN
    BY <1>3, Zenon DEF FeedInv, Numbers
  <2>4. /\ \A j \in 1 .. Len(received) : Numbered(received[j], published)
        /\ expected' = (LastSerial(received) + 1) % NumMod
        /\ seqNum' = published % NumMod /\ missing' \in Nat
    BY <1>2 DEF FeedInv, Numbers
  <2>. QED
    BY <1>2, <1>4, <2>1, <2>2, <2>3, <2>4 DEF Numbers, LastSerial
<1>8. OneTurn'
  <2>1. \A j \in 1 .. Len(network') : published + 1 - network'[j].serial < NumMod
    BY <1>6 DEF FeedInv, OneTurn
  <2>2. (~gaps \/ inOrder) => published - LastSerial(received) < NumMod
    BY DEF FeedInv, OneTurn
  <2>. QED
    BY <1>2, <1>3, <2>1, <2>2 DEF OneTurn, LastSerial
<1>9. OnlyLosses'
  <2>. SUFFICES ASSUME inOrder'
                PROVE  /\ Increasing(network') /\ Increasing(received)
                       /\ \A j \in 1 .. Len(network') : network'[j].serial > LastSerial(received)
                       /\ missing = LastSerial(received) - Len(received)
    BY <1>2 DEF OnlyLosses, LastSerial, Increasing
  <2>1. /\ Increasing(network) /\ Increasing(received)
        /\ \A j \in 1 .. Len(network) : network[j].serial > LastSerial(received)
        /\ missing = LastSerial(received) - Len(received)
    BY <1>3 DEF FeedInv, OnlyLosses
  <2>2. Increasing(network')
    BY <1>5, <2>1, EmbedsIncreasing, Zenon
  <2>3. \A j \in 1 .. Len(network') : network'[j].serial > LastSerial(received)
    BY <1>6, <2>1
  <2>. QED
    BY <2>1, <2>2, <2>3
<1>10. ~gaps' => CountsUp(received')
  BY <1>2, <1>3 DEF FeedInv
<1>. QED
  BY <1>7, <1>8, <1>9, <1>10 DEF FeedInv

(* A datagram is delivered twice.                                          *)
LEMMA DuplicateInv == ASSUME FeedInv, Duplicate PROVE FeedInv'
<1>1. PICK i \in 1 .. Len(network) : network' = Append(network, network[i])
  BY DEF Duplicate
<1>2. /\ published \in Nat /\ network \in Seq(Reports) /\ received \in Seq(Reports)
      /\ seqNum' = seqNum /\ published' = published /\ expected' = expected
      /\ received' = received /\ missing' = missing
  BY DEF FeedInv, Numbers, Duplicate, subscriberVars
<1>3. gaps' = gaps /\ inOrder' = FALSE
  BY Zenon DEF Duplicate, subscriberVars
<1>4. Len(network) \in Nat /\ Len(network) < MaxInFlight /\ network[i] \in Reports
  BY <1>2 DEF Duplicate
<1>5. network' \in Seq(Reports) /\ Len(network') = Len(network) + 1
  BY <1>1, <1>2, <1>4
<1>6. \A j \in 1 .. Len(network') : \E a \in 1 .. Len(network) : network'[j] = network[a]
  <2>. SUFFICES ASSUME NEW j \in 1 .. Len(network')
                PROVE  \E a \in 1 .. Len(network) : network'[j] = network[a]
    OBVIOUS
  <2>1. CASE j \in 1 .. Len(network)
    <3>1. network'[j] = network[j]
      BY <1>1, <1>2, <1>4, <2>1
    <3>. QED
      BY <2>1, <3>1
  <2>2. CASE j = Len(network) + 1
    <3>1. network'[j] = network[i]
      BY <1>1, <1>2, <1>4, <2>2
    <3>. QED
      BY <3>1
  <2>. QED
    BY <1>4, <1>5, <2>1, <2>2
<1>7. Numbers'
  <2>1. \A j \in 1 .. Len(network') : Numbered(network'[j], published)
    BY <1>6 DEF FeedInv, Numbers
  <2>2. Len(network') <= MaxInFlight
    BY <1>4, <1>5, FeedAssumption
  <2>3. gaps' \in BOOLEAN /\ inOrder' \in BOOLEAN
    BY <1>3, Zenon DEF FeedInv, Numbers
  <2>4. /\ \A j \in 1 .. Len(received) : Numbered(received[j], published)
        /\ expected' = (LastSerial(received) + 1) % NumMod
        /\ seqNum' = published % NumMod /\ missing' \in Nat
    BY <1>2 DEF FeedInv, Numbers
  <2>. QED
    BY <1>2, <1>5, <2>1, <2>2, <2>3, <2>4 DEF Numbers, LastSerial
<1>8. OneTurn'
  <2>1. \A j \in 1 .. Len(network') : published + 1 - network'[j].serial < NumMod
    BY <1>6 DEF FeedInv, OneTurn
  <2>2. ~gaps => published - LastSerial(received) < NumMod
    BY DEF FeedInv, OneTurn
  <2>. QED
    BY <1>2, <1>3, <2>1, <2>2 DEF OneTurn, LastSerial
<1>9. OnlyLosses'
  BY <1>3 DEF OnlyLosses
<1>10. ~gaps' => CountsUp(received')
  BY <1>2, <1>3 DEF FeedInv
<1>. QED
  BY <1>7, <1>8, <1>9, <1>10 DEF FeedInv

(* The subscriber takes a datagram.  Report r has number expected only if  *)
(* it is the one after the last.                                           *)
LEMMA ExpectedIsNext ==
    ASSUME FeedInv, ~gaps, NEW i \in 1 .. Len(network), network[i].num = expected
    PROVE  network[i].serial = LastSerial(received) + 1
<1>1. PICK s \in Nat : s = network[i].serial
  BY DEF FeedInv, Numbers, Numbered
<1>2. s \in 1 .. published /\ network[i].num = s % NumMod /\ published \in Nat
  BY <1>1 DEF FeedInv, Numbers, Numbered
<1>3. published + 1 - s < NumMod
  BY <1>1 DEF FeedInv, OneTurn
<1>4. PICK t \in Nat : t = LastSerial(received) + 1
  BY LastSerialRange DEF FeedInv
<1>5. t \in 1 .. published + 1
  BY <1>2, <1>4, LastSerialRange DEF FeedInv
<1>6. published + 1 - t < NumMod
  <2>1. published - LastSerial(received) < NumMod /\ LastSerial(received) \in 0 .. published
    BY LastSerialRange DEF FeedInv, OneTurn
  <2>. QED
    BY <1>2, <1>4, <2>1
<1>7. s % NumMod = t % NumMod
  BY <1>2, <1>4 DEF FeedInv, Numbers
<1>8. s - t < NumMod /\ t - s < NumMod
  BY <1>2, <1>3, <1>5, <1>6, FeedAssumption
<1>9. NumMod \in Nat \ {0}
  BY FeedAssumption
<1>10. s = t
  BY <1>7, <1>8, <1>9, SameNumber, Zenon
<1>. QED
  BY <1>1, <1>4, <1>10

(* The subscriber prints a report, and announces a gap before it if its    *)
(* number is not the one it expects.                                       *)
LEMMA ReceiveInv == ASSUME FeedInv, NEW i \in 1 .. Len(network), Receive(i) PROVE FeedInv'
<1>. DEFINE r == network[i]
            L == LastSerial(received)
<1>1. /\ published \in Nat /\ network \in Seq(Reports) /\ received \in Seq(Reports)
      /\ seqNum' = seqNum /\ published' = published
      /\ network' = RemoveAt(network, i) /\ received' = Append(received, r)
      /\ missing' = missing + ((r.num - expected) % NumMod)
      /\ expected' = (r.num + 1) % NumMod
  BY DEF FeedInv, Numbers, Receive
<1>2. gaps' = (gaps \/ r.num # expected) /\ inOrder' = (inOrder /\ i = 1)
  BY Zenon DEF Receive
<1>3. network' \in Seq(Reports) /\ Len(network') = Len(network) - 1 /\ Len(network) \in Nat
  <2>1. RemoveAt(network, i) \in Seq(Reports) /\ Len(RemoveAt(network, i)) = Len(network) - 1
    BY <1>1, WithoutOne
  <2>2. Len(network) \in Nat
    BY <1>1
  <2>. QED
    BY <1>1, <2>1, <2>2, Zenon
<1>4. Embeds(network', network)
  BY <1>1, WithoutOneEmbeds
<1>5. \A j \in 1 .. Len(network') : \E a \in 1 .. Len(network) : network'[j] = network[a]
  BY <1>4, Zenon DEF Embeds
<1>6. r \in Reports /\ Numbered(r, published) /\ r.serial \in 1 .. published /\ r.num = r.serial % NumMod
  BY <1>1 DEF FeedInv, Numbers, Numbered
<1>7. /\ received' \in Seq(Reports) /\ Len(received) \in Nat /\ Len(received') = Len(received) + 1
      /\ received'[Len(received) + 1] = r
      /\ \A j \in 1 .. Len(received) : received'[j] = received[j]
  BY <1>1, <1>6
<1>8. LastSerial(received') = r.serial
  BY <1>7 DEF LastSerial
<1>9. L \in 0 .. published /\ expected = (L + 1) % NumMod /\ expected \in Int
  BY LastSerialRange, FeedAssumption DEF FeedInv, Numbers
<1>10. missing \in Nat /\ (r.num - expected) % NumMod \in Nat
  <2>1. PICK x \in Int : x = r.num - expected
    BY <1>6, <1>9 DEF Reports
  <2>2. x % NumMod \in Nat
    BY FeedAssumption
  <2>. QED
    BY <2>1, <2>2 DEF FeedInv, Numbers
<1>. HIDE DEF r, L
<1>11. Numbers'
  <2>1. \A j \in 1 .. Len(network') : Numbered(network'[j], published)
    BY <1>5 DEF FeedInv, Numbers
  <2>2. \A j \in 1 .. Len(received') : Numbered(received'[j], published)
    <3>1. \A j \in 1 .. Len(received) : Numbered(received[j], published)
      BY DEF FeedInv, Numbers
    <3>. QED
      BY <1>6, <1>7, <3>1
  <2>3. Len(network') <= MaxInFlight
    BY <1>3, FeedAssumption DEF FeedInv, Numbers
  <2>4. gaps' \in BOOLEAN /\ inOrder' \in BOOLEAN
    BY <1>2, Zenon
  <2>5. expected' = (LastSerial(received') + 1) % NumMod
    <3>1. PICK s \in Nat : s = r.serial
      BY <1>6
    <3>2. NumMod \in Nat \ {0}
      BY FeedAssumption
    <3>3. ((s % NumMod) + 1) % NumMod = (s + 1) % NumMod
      BY <3>2, WrappingSuccessor, Zenon
    <3>. QED
      BY <1>1, <1>6, <1>8, <3>1, <3>3
  <2>6. missing' \in Nat /\ seqNum' = published' % NumMod
    BY <1>1, <1>10 DEF FeedInv, Numbers
  <2>. QED
    BY <1>1, <1>3, <1>7, <2>1, <2>2, <2>3, <2>4, <2>5, <2>6 DEF Numbers, LastSerial
<1>12. ASSUME inOrder, i = 1 PROVE r.serial > L
  BY <1>12 DEF FeedInv, OnlyLosses, r, L
<1>13. ASSUME ~gaps, r.num = expected PROVE r.serial = L + 1
  BY <1>13, ExpectedIsNext DEF r, L
<1>14. OneTurn'
  <2>1. \A j \in 1 .. Len(network') : published + 1 - network'[j].serial < NumMod
    BY <1>5 DEF FeedInv, OneTurn
  <2>2. ASSUME ~gaps' \/ inOrder' PROVE published - r.serial < NumMod
    <3>1. published - L < NumMod
      BY <1>2, <2>2 DEF FeedInv, OneTurn, L
    <3>2. r.serial > L
      <4>1. CASE inOrder'
        BY <1>2, <1>12, <4>1
      <4>2. CASE ~gaps'
        <5>1. r.serial = L + 1
          BY <1>2, <1>13, <4>2
        <5>. QED
          BY <1>9, <5>1
      <4>. QED
        BY <2>2, <4>1, <4>2
    <3>. QED
      BY <1>1, <1>6, <1>9, <3>1, <3>2, FeedAssumption
  <2>. QED
    BY <1>1, <1>8, <2>1, <2>2 DEF OneTurn
<1>15. OnlyLosses'
  <2>. SUFFICES ASSUME inOrder'
                PROVE  /\ Increasing(network') /\ Increasing(received')
                       /\ \A j \in 1 .. Len(network') : network'[j].serial > r.serial
                       /\ missing' = r.serial - Len(received')
    BY <1>8 DEF OnlyLosses
  <2>1. inOrder /\ i = 1 /\ r.serial > L
    BY <1>2, <1>12
  <2>2. /\ Increasing(network) /\ Increasing(received)
        /\ missing = L - Len(received)
    BY <2>1 DEF FeedInv, OnlyLosses, L
  <2>3. Increasing(network')
    BY <1>4, <2>2, EmbedsIncreasing, Zenon
  <2>4. ASSUME NEW j \in 1 .. Len(network') PROVE network'[j].serial > r.serial
    <3>1. network'[j] = network[j + 1]
      <4>1. \A k \in 1 .. Len(network) - 1 :
               RemoveAt(network, i)[k] = IF k < i THEN network[k] ELSE network[k + 1]
        BY <1>1, WithoutOne
      <4>2. j \in 1 .. Len(network) - 1 /\ ~(j < i)
        BY <1>3, <2>1
      <4>. QED
        BY <1>1, <4>1, <4>2
    <3>2. 1 \in 1 .. Len(network) /\ j + 1 \in 1 .. Len(network) /\ 1 < j + 1
      BY <1>3
    <3>3. network[1].serial < network[j + 1].serial
      BY <2>2, <3>2, Zenon DEF Increasing
    <3>4. network[j + 1].serial \in Int /\ r = network[1] /\ r.serial \in Int
      <4>1. r = network[1]
        BY <2>1, Zenon DEF r
      <4>2. ASSUME NEW m \in 1 .. Len(network) PROVE network[m].serial \in Int
        <5>1. network[m].serial \in 1 .. published
          BY Zenon DEF FeedInv, Numbers, Numbered
        <5>. QED
          BY <5>1
      <4>. QED
        BY <3>2, <4>1, <4>2, Zenon
    <3>. QED
      <4>1. PICK a \in Int, b \in Int : a = network[j + 1].serial /\ b = network[1].serial
        BY <3>4, Zenon
      <4>2. a > b
        BY <3>3, <4>1
      <4>. QED
        BY <3>1, <3>4, <4>1, <4>2, Zenon
  <2>5. Increasing(received')
    <3>. SUFFICES ASSUME NEW j \in 1 .. Len(received'), NEW k \in 1 .. Len(received'), j < k
                  PROVE  received'[j].serial < received'[k].serial
      BY DEF Increasing
    <3>1. j \in 1 .. Len(received) /\ received'[j] = received[j]
      BY <1>7
    <3>2. CASE k \in 1 .. Len(received)
      BY <1>7, <2>2, <3>1, <3>2 DEF Increasing
    <3>3. CASE k = Len(received) + 1
      <4>1. \A x \in 1 .. Len(received) : received[x].serial \in Int
        BY DEF FeedInv, Numbers, Numbered
      <4>2. L = received[Len(received)].serial /\ Len(received) \in 1 .. Len(received)
        BY <1>7, <3>1 DEF L, LastSerial
      <4>3. received[j].serial <= L
        <5>1. CASE j = Len(received)
          BY <3>1, <4>1, <4>2, <5>1
        <5>2. CASE j # Len(received)
          <6>1. j < Len(received)
            BY <3>1, <4>2, <5>2
          <6>2. received[j].serial < L
            BY <2>2, <3>1, <4>2, <6>1, Zenon DEF Increasing
          <6>. QED
            BY <3>1, <4>1, <4>2, <6>2
        <5>. QED
          BY <5>1, <5>2, Zenon
      <4>. QED
        BY <1>6, <1>7, <1>9, <2>1, <3>1, <3>3, <4>1, <4>3
    <3>. QED
      BY <1>7, <3>2, <3>3
  <2>6. missing' = r.serial - Len(received')
    <3>1. PICK s \in Nat : s = r.serial
      BY <1>6
    <3>2. PICK t \in Nat : t = L + 1
      BY <1>9
    <3>3. t <= s /\ s - t < NumMod
      <4>1. published - L < NumMod
        BY <2>1 DEF FeedInv, OneTurn, L
      <4>2. published \in Nat /\ s \in 1 .. published /\ s > L /\ L \in 0 .. published
        BY <1>1, <1>6, <1>9, <2>1, <3>1
      <4>. QED
        BY <3>2, <4>1, <4>2, FeedAssumption
    <3>4. NumMod \in Nat \ {0}
      BY FeedAssumption
    <3>5. ((s % NumMod) - (t % NumMod)) % NumMod = s - t
      BY <3>3, <3>4, WrappingSub, Zenon
    <3>6. (r.num - expected) % NumMod = s - t
      BY <1>6, <1>9, <3>1, <3>2, <3>5
    <3>. QED
      <4>1. missing' = missing + (s - t)
        BY <1>1, <3>6
      <4>2. PICK n \in Nat : n = Len(received)
        BY <1>7
      <4>3. missing = L - n /\ Len(received') = n + 1 /\ L \in Int
        BY <1>7, <1>9, <2>2, <4>2
      <4>4. missing' = s - (n + 1)
        BY <3>2, <4>1, <4>3
      <4>. QED
        BY <3>1, <4>3, <4>4
  <2>. QED
    BY <2>3, <2>4, <2>5, <2>6
<1>16. ASSUME ~gaps' PROVE CountsUp(received')
  <2>1. ~gaps /\ r.num = expected
    BY <1>2, <1>16
  <2>2. CountsUp(received) /\ r.serial = L + 1
    BY <1>13, <2>1 DEF FeedInv
  <2>3. L = Len(received)
    BY <1>7, <2>2 DEF CountsUp, L, LastSerial
  <2>. QED
    BY <1>7, <2>2, <2>3 DEF CountsUp
<1>. QED
  BY <1>11, <1>14, <1>15, <1>16 DEF FeedInv

(* Every step preserves the invariant.                                     *)
LEMMA NextFeedInv == FeedInv /\ [FeedNext]_feedVars => FeedInv'
<1>. SUFFICES ASSUME FeedInv, [FeedNext]_feedVars PROVE FeedInv'
  OBVIOUS
<1>1. CASE FeedNext
  BY <1>1, PublishInv, LoseInv, DuplicateInv, ReceiveInv, Zenon DEF FeedNext
<1>2. CASE UNCHANGED feedVars
  BY <1>2, Zenon DEF feedVars, FeedInv, Numbers, OneTurn, OnlyLosses
<1>. QED
  BY <1>1, <1>2

(* The invariant holds of every state of the feed.                         *)
THEOREM FeedInductive == FeedSpec => []FeedInv
BY InitFeedInv, NextFeedInv, PTL DEF FeedSpec

(* seq_num and expected_seq stay u32 values.                               *)
THEOREM FeedTypeCorrect == FeedSpec => []FeedTypeOK
<1>1. FeedInv => FeedTypeOK
  BY LastSerialRange, FeedAssumption DEF FeedInv, Numbers, FeedTypeOK
<1>. QED
  BY <1>1, FeedInductive, PTL

(* Over a network that only loses, the gaps the subscriber announces with  *)
(* wrapping_sub add up to what was lost.                                   *)
THEOREM AnnouncedGapsAreLosses == FeedSpec => []GapsAreLosses
<1>1. FeedInv => GapsAreLosses
  <2>. SUFFICES ASSUME FeedInv, inOrder, received # <<>>
                PROVE  missing = Last(received).serial - Len(received)
    BY DEF GapsAreLosses
  <2>1. Len(received) # 0
    BY DEF FeedInv, Numbers
  <2>. QED
    BY <2>1 DEF FeedInv, OnlyLosses, LastSerial, Last
<1>. QED
  BY <1>1, FeedInductive, PTL

(* A subscriber whose check of expected_seq never failed has every report  *)
(* up to its last, once and in order, whatever the network did within one  *)
(* turn of the counter.                                                    *)
THEOREM NoLossIsSilent == FeedSpec => []NoSilentLoss
<1>1. FeedInv => NoSilentLoss
  BY DEF FeedInv, CountsUp, NoSilentLoss
<1>. QED
  BY <1>1, FeedInductive, PTL
=============================================================================
