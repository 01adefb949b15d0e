--------------------------- MODULE EventLoopProofs --------------------------
(***************************************************************************)
(* Theorems about EventLoop for every list of topics, length of            *)
(* event_queue and number of readings and happenings: the types, and that  *)
(* a settled device is subscribed and that no reading arrives twice.       *)
(***************************************************************************)
EXTENDS EventLoop, SequenceTheorems,
        WellFoundedInduction, TLAPS

(* What is in a list, and how often.                                       *)
Has(s, x) == \E i \in DOMAIN s : s[i] = x
Once(s, x) == \A i, j \in DOMAIN s : s[i] = x /\ s[j] = x => i = j

Event == (EventTypes \X {0}) \cup ({"motion"} \X (1..Readings))
Call == [op : {"publish"}, arg : Publications]
            \cup [op : {"subscribe", "unsubscribe"}, arg : Topic]
            \cup [op : {"heartbeat", "connect", "disconnect", "count"},
                  arg : {None}]

(* TypeOK in parts, with the arguments each call takes. The list that is   *)
(* walked holds publications while they are flushed.                       *)
QueueType == events \in Seq(Event) /\ Len(events) <= QueueLen
TaskType ==
    /\ todo \in Seq(Call)
    /\ at \in {"start", "send", "queue", "link", "free", "destroy"}
    /\ drops \in 0..255
ListsType == /\ is_connected \in BOOLEAN
             /\ subs \in Seq(Topic)
             /\ pubs \in Seq(Publications)
ClientType ==
    /\ client \in {"none", "offline", "online"}
    /\ broker \subseteq Topic
    /\ got \in Seq(1..Readings)
    /\ cb \in {"idle", "set", "flush", "free", "up", "clear", "forget", "down",
               "data"}
    /\ cb = "flush" => walk \in Seq(Publications)
SourceType ==
    /\ net \in Network \cup {"none"}
    /\ motion \in 0..Readings
    /\ sensing \in BOOLEAN /\ beating \in BOOLEAN /\ dropping \in BOOLEAN
    /\ left \in 0..Happenings
SensingType == sensing => motion \in 1..Readings
TypeInv == /\ QueueType /\ TaskType /\ ListsType /\ ClientType
           /\ SourceType /\ SensingType

-----------------------------------------------------------------------------
(* Where a reading can be. What is in publications_list counts until it is *)
(* walked: from then on the list is only freed.                            *)
Sensed(n) == sensing /\ motion = n
Posted(n) == Has(events, <<"motion", n>>)
Publishing(n) == Op("publish", Reading(n))
Called(n) == Has(todo, Publishing(n))
Queued(n) == cb \notin {"flush", "free"} /\ Has(pubs, Reading(n))
Walked(n) == cb = "flush" /\ Has(walk, Reading(n))
Received(n) == Has(got, n)

OnePlace(n) ==
    /\ Sensed(n) => ~Posted(n) /\ ~Called(n) /\ ~Queued(n) /\ ~Walked(n)
                        /\ ~Received(n)
    /\ Posted(n) => ~Called(n) /\ ~Queued(n) /\ ~Walked(n) /\ ~Received(n)
    /\ Called(n) => ~Queued(n) /\ ~Walked(n) /\ ~Received(n)
    /\ Queued(n) => ~Received(n)
    /\ Walked(n) => ~Received(n)
OneCopy(n) ==
    /\ Once(events, <<"motion", n>>)
    /\ Once(todo, Publishing(n))
    /\ cb \notin {"flush", "free"} => Once(pubs, Reading(n))
    /\ cb = "flush" => Once(walk, Reading(n))
    /\ Once(got, n)
NotYet(n) ==
    n > motion => /\ ~Posted(n) /\ ~Called(n) /\ ~Queued(n)
                  /\ ~Walked(n) /\ ~Received(n)
Tracked(n) == OnePlace(n) /\ OneCopy(n) /\ NotYet(n)
ReadingInv == \A n \in 1..Readings : Tracked(n)

-----------------------------------------------------------------------------
NextOp(o) == todo # <<>> /\ Head(todo).op = o

(* The flag follows the connection but for mqtt_disconnect, which clears   *)
(* it first, and mqtt_event_cb, which is told first.                       *)
FlagInv == /\ client = "online" /\ cb # "set" =>
                  is_connected \/ NextOp("disconnect")
           /\ cb \in {"clear", "forget", "down"} => client # "online"

(* ipcam_task is about to give the connection up; or it has yet to hear of *)
(* it, with nothing to undo that after; or it knows, nothing will undo it, *)
(* and each topic is subscribed or will be.                                *)
GivingUp == NextOp("connect") \/ NextOp("disconnect")
UpComing == \E i \in DOMAIN events :
                /\ events[i][1] = "mqttUp"
                /\ \A j \in DOMAIN events : j > i => events[j][1] # "mqttDown"
Subscribed(t) == t \in broker /\ InList(t)
Linking(t) == /\ todo # <<>> /\ at = "link" /\ t \in broker
              /\ Head(todo) = Op("subscribe", t)
ToSubscribe(t) == \E i \in DOMAIN todo : /\ todo[i] = Op("subscribe", t)
                                         /\ i > 1 \/ at # "link"
Settling ==
    /\ \A i \in DOMAIN events : events[i][1] # "mqttDown"
    /\ \A i \in DOMAIN todo : todo[i].op # "unsubscribe"
    /\ \A t \in Topic : Subscribed(t) \/ Linking(t) \/ ToSubscribe(t)
SubscribeInv ==
    client = "online" /\ cb \in {"idle", "data"} =>
        GivingUp \/ UpComing \/ Settling

IInv == TypeInv /\ ReadingInv /\ FlagInv /\ SubscribeInv

-----------------------------------------------------------------------------
(* Lists                                                                   *)
LEMMA Shifted ==
    ASSUME NEW S, NEW s \in Seq(S), s # <<>>
    PROVE  /\ Tail(s) \in Seq(S) /\ Head(s) \in S /\ s[1] = Head(s)
           /\ Len(s) \in Nat \ {0} /\ Len(Tail(s)) = Len(s) - 1
           /\ DOMAIN s = 1..Len(s) /\ DOMAIN Tail(s) = 1..Len(s) - 1
           /\ \A i \in 1..Len(s) - 1 : Tail(s)[i] = s[i + 1]
BY HeadTailProperties, LenProperties

LEMMA Appended ==
    ASSUME NEW S, NEW s \in Seq(S), NEW x \in S
    PROVE  /\ Append(s, x) \in Seq(S)
           /\ Len(s) \in Nat /\ Len(Append(s, x)) = Len(s) + 1
           /\ DOMAIN s = 1..Len(s) /\ DOMAIN Append(s, x) = 1..Len(s) + 1
           /\ Append(s, x)[Len(s) + 1] = x
           /\ \A i \in 1..Len(s) : Append(s, x)[i] = s[i]
BY AppendProperties, LenProperties

LEMMA Joined ==
    ASSUME NEW S, NEW s \in Seq(S), NEW t \in Seq(S)
    PROVE  /\ s \o t \in Seq(S)
           /\ Len(s) \in Nat /\ Len(t) \in Nat
           /\ DOMAIN s = 1..Len(s) /\ DOMAIN t = 1..Len(t)
           /\ DOMAIN (s \o t) = 1..Len(s) + Len(t)
           /\ \A i \in 1..Len(s) : (s \o t)[i] = s[i]
           /\ \A i \in 1..Len(t) : (s \o t)[Len(s) + i] = t[i]
<1>1. /\ s \o t \in Seq(S) /\ Len(s \o t) = Len(s) + Len(t)
      /\ \A i \in 1..Len(s) + Len(t) :
            (s \o t)[i] = IF i <= Len(s) THEN s[i] ELSE t[i - Len(s)]
    BY ConcatProperties
<1>2. Len(s) \in Nat /\ Len(t) \in Nat /\ DOMAIN s = 1..Len(s) /\ DOMAIN t = 1..Len(t)
    BY LenProperties
<1>3. DOMAIN (s \o t) = 1..Len(s) + Len(t)
    BY <1>1, LenProperties
<1>4. \A i \in 1..Len(s) : (s \o t)[i] = s[i]
    BY <1>1, <1>2
<1>5. \A i \in 1..Len(t) : (s \o t)[Len(s) + i] = t[i]
    BY <1>1, <1>2
<1> QED
    BY <1>1, <1>2, <1>3, <1>4, <1>5

LEMMA Single ==
    ASSUME NEW S, NEW x \in S
    PROVE  <<x>> \in Seq(S) /\ Len(<<x>>) = 1 /\ <<x>>[1] = x
OBVIOUS

LEMMA Put ==
    ASSUME NEW S, NEW s \in Seq(S), NEW x \in S
    PROVE  /\ <<x>> \o s \in Seq(S)
           /\ Len(s) \in Nat
           /\ DOMAIN s = 1..Len(s) /\ DOMAIN (<<x>> \o s) = 1..Len(s) + 1
           /\ (<<x>> \o s)[1] = x
           /\ \A i \in 1..Len(s) : (<<x>> \o s)[i + 1] = s[i]
<1>1. <<x>> \in Seq(S) /\ Len(<<x>>) = 1 /\ <<x>>[1] = x
    BY Single
<1>2. /\ <<x>> \o s \in Seq(S)
      /\ Len(s) \in Nat
      /\ DOMAIN s = 1..Len(s) /\ DOMAIN (<<x>> \o s) = 1..1 + Len(s)
      /\ \A i \in 1..1 : (<<x>> \o s)[i] = <<x>>[i]
      /\ \A i \in 1..Len(s) : (<<x>> \o s)[1 + i] = s[i]
    BY <1>1, Joined
<1> QED
    BY <1>1, <1>2

LEMMA HasTail ==
    ASSUME NEW S, NEW s \in Seq(S), s # <<>>, NEW x
    PROVE  /\ Has(s, x) <=> Head(s) = x \/ Has(Tail(s), x)
           /\ Once(s, x) => Once(Tail(s), x)
           /\ Once(s, x) /\ Head(s) = x => ~Has(Tail(s), x)
<1>1. /\ s[1] = Head(s)
      /\ Len(s) \in Nat \ {0}
      /\ DOMAIN s = 1..Len(s) /\ DOMAIN Tail(s) = 1..Len(s) - 1
      /\ \A i \in 1..Len(s) - 1 : Tail(s)[i] = s[i + 1]
    BY Shifted
<1>2. \A i \in DOMAIN s : i = 1 \/ (i - 1 \in DOMAIN Tail(s) /\ Tail(s)[i - 1] = s[i])
    BY <1>1
<1>3. \A i \in DOMAIN Tail(s) : i + 1 \in DOMAIN s /\ s[i + 1] = Tail(s)[i] /\ i + 1 # 1
    BY <1>1
<1>4. Has(s, x) <=> Head(s) = x \/ Has(Tail(s), x)
    <2>1. Has(s, x) => Head(s) = x \/ Has(Tail(s), x)
        BY <1>1, <1>2 DEF Has
    <2>2. Has(Tail(s), x) => Has(s, x)
        BY <1>3 DEF Has
    <2>3. Head(s) = x => Has(s, x)
        BY <1>1 DEF Has
    <2> QED
        BY <2>1, <2>2, <2>3
<1>5. ASSUME Once(s, x) PROVE Once(Tail(s), x)
    <2> SUFFICES ASSUME NEW i \in DOMAIN Tail(s), NEW j \in DOMAIN Tail(s),
                        Tail(s)[i] = x, Tail(s)[j] = x
                 PROVE  i = j
        BY DEF Once
    <2>1. i + 1 = j + 1
        BY <1>3, <1>5 DEF Once
    <2> QED
        BY <1>1, <2>1
<1>6. Once(s, x) /\ Head(s) = x => ~Has(Tail(s), x)
    BY <1>1, <1>3 DEF Has, Once
<1> QED
    BY <1>4, <1>5, <1>6

LEMMA HasAppend ==
    ASSUME NEW S, NEW s \in Seq(S), NEW y \in S, NEW x
    PROVE  /\ Has(Append(s, y), x) <=> Has(s, x) \/ y = x
           /\ Once(s, x) /\ (y = x => ~Has(s, x)) => Once(Append(s, y), x)
<1>1. /\ Len(s) \in Nat
      /\ DOMAIN s = 1..Len(s) /\ DOMAIN Append(s, y) = 1..Len(s) + 1
      /\ Append(s, y)[Len(s) + 1] = y
      /\ \A i \in 1..Len(s) : Append(s, y)[i] = s[i]
    BY Appended
<1> QED
    BY <1>1 DEF Has, Once

LEMMA HasPut ==
    ASSUME NEW S, NEW s \in Seq(S), NEW y \in S, NEW x
    PROVE  /\ Has(<<y>> \o s, x) <=> Has(s, x) \/ y = x
           /\ Once(s, x) /\ (y = x => ~Has(s, x)) => Once(<<y>> \o s, x)
<1> DEFINE t == <<y>> \o s
<1>1. /\ Len(s) \in Nat
      /\ DOMAIN s = 1..Len(s) /\ DOMAIN t = 1..Len(s) + 1
      /\ t[1] = y
      /\ \A i \in 1..Len(s) : t[i + 1] = s[i]
    BY Put
<1> HIDE DEF t
<1>2. \A i \in DOMAIN t : i = 1 \/ (i - 1 \in DOMAIN s /\ s[i - 1] = t[i])
    BY <1>1
<1>3. \A i \in DOMAIN s : i + 1 \in DOMAIN t /\ t[i + 1] = s[i]
    BY <1>1
<1>4. Has(t, x) <=> Has(s, x) \/ y = x
    <2>1. Has(t, x) => Has(s, x) \/ y = x
        BY <1>1, <1>2 DEF Has
    <2>2. Has(s, x) => Has(t, x)
        BY <1>3 DEF Has
    <2>3. y = x => Has(t, x)
        <3>1. 1 \in DOMAIN t
            BY <1>1
        <3> QED
            BY <1>1, <3>1 DEF Has
    <2> QED
        BY <2>1, <2>2, <2>3
<1>5. ASSUME Once(s, x), y = x => ~Has(s, x) PROVE Once(t, x)
    <2> SUFFICES ASSUME NEW i \in DOMAIN t, NEW j \in DOMAIN t, t[i] = x, t[j] = x
                 PROVE  i = j
        BY DEF Once
    <2>1. i = 1 => j = 1
        BY <1>1, <1>2, <1>5 DEF Has
    <2>2. j = 1 => i = 1
        BY <1>1, <1>2, <1>5 DEF Has
    <2>3. i # 1 /\ j # 1 => i - 1 = j - 1
        BY <1>2, <1>5 DEF Once
    <2> QED
        BY <1>1, <2>1, <2>2, <2>3
<1> QED
    BY <1>4, <1>5 DEF t

LEMMA HasNothing == \A x : ~Has(<<>>, x) /\ Once(<<>>, x)
BY DEF Has, Once

-----------------------------------------------------------------------------
(* What the constants and the calls are.                                   *)
LEMMA ConstantTypes ==
    /\ Topics \in Seq(Topic) /\ QueueLen \in Nat \ {0}
    /\ Readings \in Nat /\ Happenings \in Nat
    /\ Online \in Publications /\ Uptime \in Publications
    /\ \A n \in 1..Readings : Reading(n) \in Publications
BY EventLoopAssumption DEF Publications

LEMMA Bounds == Readings \in Nat /\ Happenings \in Nat
BY EventLoopAssumption

LEMMA EventKinds ==
    /\ \A k \in EventTypes : <<k, 0>> \in Event
    /\ \A n \in 1..Readings : <<"motion", n>> \in Event
BY DEF Event

LEMMA CallKinds ==
    /\ \A p \in Publications : Op("publish", p) \in Call
    /\ \A t \in Topic : Op("subscribe", t) \in Call /\ Op("unsubscribe", t) \in Call
    /\ \A o \in {"heartbeat", "connect", "disconnect", "count"} : Op(o, None) \in Call
BY DEF Call, Op

LEMMA ForEachTopic ==
    ASSUME NEW o \in {"subscribe", "unsubscribe"}
    PROVE  /\ ForEach(o, Topics) \in Seq(Call)
           /\ DOMAIN ForEach(o, Topics) = DOMAIN Topics
           /\ \A i \in DOMAIN Topics : ForEach(o, Topics)[i] = Op(o, Topics[i])
<1>1. Len(Topics) \in Nat /\ DOMAIN Topics = 1..Len(Topics)
    BY ConstantTypes, LenProperties
<1>2. \A i \in DOMAIN Topics : Op(o, Topics[i]) \in Call
    BY CallKinds DEF Topic
<1>3. ForEach(o, Topics) \in [1..Len(Topics) -> Call]
    BY <1>1, <1>2 DEF ForEach
<1> QED
    BY <1>1, <1>3 DEF ForEach

LEMMA Pair ==
    ASSUME NEW S, NEW x \in S, NEW y \in S
    PROVE  /\ <<x, y>> \in Seq(S) /\ Len(<<x, y>>) = 2
           /\ <<x, y>>[1] = x /\ <<x, y>>[2] = y
OBVIOUS

LEMMA CallsType == ASSUME NEW e \in Event PROVE Calls(e) \in Seq(Call)
<1>1. Cleanup \in Seq(Call) /\ Subscribe \in Seq(Call)
    BY ForEachTopic DEF Cleanup, Subscribe
<1>2. \A o \in {"heartbeat", "connect", "disconnect", "count"} :
          Op(o, None) \in Call /\ <<Op(o, None)>> \in Seq(Call)
    BY CallKinds, Single
<1>3. SelfPublish \in Seq(Call)
    BY ConstantTypes, CallKinds, Pair DEF SelfPublish
<1>4. CASE e[1] = "motion"
    <2>1. e[2] \in 1..Readings
        BY <1>4 DEF Event, EventTypes, Network
    <2>2. Calls(e) = <<Op("publish", Reading(e[2]))>>
        BY <1>4 DEF Calls
    <2> QED
        BY <2>1, <2>2, ConstantTypes, CallKinds, Single
<1>5. CASE e[1] = "heartbeat"
    BY <1>2, <1>5 DEF Calls
<1>6. CASE e[1] = "netUp"
    BY <1>2, <1>6 DEF Calls
<1>7. CASE e[1] = "netDown"
    <2>1. Calls(e) = <<Op("disconnect", None)>> \o Cleanup
        BY <1>7 DEF Calls
    <2> QED
        BY <1>1, <1>2, <2>1, Joined
<1>8. CASE e[1] = "mqttUp"
    <2>1. Calls(e) = SelfPublish \o Subscribe
        BY <1>8 DEF Calls
    <2> QED
        BY <1>1, <1>3, <2>1, Joined
<1>9. CASE e[1] = "mqttDown"
    <2>1. Calls(e) = Append(Cleanup, Op("count", None))
        BY <1>9 DEF Calls
    <2> QED
        BY <1>1, <1>2, <2>1, Appended
<1>10. CASE e[1] = "message"
    BY <1>10, EmptySeq DEF Calls
<1> QED
    BY <1>4, <1>5, <1>6, <1>7, <1>8, <1>9, <1>10 DEF Event, EventTypes, Network

(* A set of natural numbers has a least one.                               *)
LEMMA Least ==
    ASSUME NEW T, T \subseteq Nat, T # {}
    PROVE  \E x \in T : \A y \in T : x <= y
<1>1. PICK R : /\ IsWellFoundedOn(R, Nat)
               /\ \A y, z \in Nat : y < z => <<y, z>> \in R
    <2>1. IsWellFoundedOn(OpToRel(<, Nat), Nat)
        BY NatLessThanWellFounded
    <2>2. \A y, z \in Nat : y < z => <<y, z>> \in OpToRel(<, Nat)
        BY DEF OpToRel
    <2> QED
        BY <2>1, <2>2, Zenon
<1>2. PICK x \in T : \A y \in T : ~(<<y, x>> \in R)
    <2>1. IsWellFoundedOn(R, Nat)
        BY <1>1
    <2>2. \E x \in T : \A y \in T : ~(<<y, x>> \in R)
        BY <2>1, WFMin, Zenon
    <2> QED
        BY <2>2
<1>3. \A y \in T : ~(y < x)
    BY <1>1, <1>2
<1> QED
    BY <1>3

LEMMA RemovedType ==
    ASSUME NEW t, NEW s \in Seq(Topic) PROVE Removed(t, s) \in Seq(Topic)
<1>0. Len(s) \in Nat /\ DOMAIN s = 1..Len(s) /\ \A i \in DOMAIN s : s[i] \in Topic
    BY LenProperties, ElementOfSeq
<1>1. CASE \E i \in DOMAIN s : s[i] = t
    <2> DEFINE k == CHOOSE i \in DOMAIN s : s[i] = t /\ \A j \in 1..i - 1 : s[j] # t
               T == {i \in DOMAIN s : s[i] = t}
    <2>1. PICK i \in T : \A j \in T : i <= j
        <3>1. T \subseteq Nat /\ T # {}
            BY <1>0, <1>1
        <3> HIDE DEF T
        <3> QED
            BY <3>1, Least
    <2>2. i \in DOMAIN s /\ s[i] = t /\ \A j \in 1..i - 1 : s[j] # t
        BY <1>0, <2>1
    <2>3. k \in 1..Len(s)
        BY <1>0, <2>2
    <2>4. Removed(t, s) = SubSeq(s, 1, k - 1) \o SubSeq(s, k + 1, Len(s))
        BY <1>1 DEF Removed
    <2> HIDE DEF k
    <2>5. SubSeq(s, 1, k - 1) \in Seq(Topic)
        BY <1>0, <2>3, SubSeqProperties
    <2>6. SubSeq(s, k + 1, Len(s)) \in Seq(Topic)
        BY <1>0, <2>3, SubSeqProperties
    <2> QED
        BY <2>4, <2>5, <2>6, Joined
<1>2. CASE ~\E i \in DOMAIN s : s[i] = t
    BY <1>2 DEF Removed
<1> QED
    BY <1>1, <1>2

-----------------------------------------------------------------------------
(* Types                                                                   *)
LEMMA InitType == ASSUME Init PROVE TypeInv
<1>1. /\ <<>> \in Seq(Event) /\ <<>> \in Seq(Call) /\ <<>> \in Seq(Topic)
      /\ <<>> \in Seq(Publications) /\ <<>> \in Seq(1..Readings)
      /\ Len(<<>>) = 0
    BY EmptySeq
<1>2. QueueType /\ TaskType
    BY <1>1, ConstantTypes DEF Init, QueueType, TaskType
<1>3. ListsType
    BY <1>1 DEF Init, ListsType
<1>4. ClientType
    BY <1>1 DEF Init, ClientType
<1>5. SourceType
    <2>1. motion \in 0..Readings /\ left \in 0..Happenings
        BY Bounds DEF Init
    <2> QED
        BY <2>1 DEF Init, SourceType
<1>6. SensingType
    BY DEF Init, SensingType
<1> QED
    BY <1>2, <1>3, <1>4, <1>5, <1>6 DEF TypeInv

LEMMA TypeInvTypeOK == ASSUME TypeInv PROVE TypeOK
<1>1. \A i \in DOMAIN events : events[i] \in Event
    BY LenProperties, ElementOfSeq DEF TypeInv, QueueType
<1>2. \A i \in DOMAIN todo : todo[i] \in Call
    BY LenProperties, ElementOfSeq DEF TypeInv, TaskType
<1>3. Call \subseteq Ops
    BY DEF Call, Ops, Calling
<1>4. \A i \in DOMAIN subs : subs[i] \in Topic
    BY LenProperties, ElementOfSeq DEF TypeInv, ListsType
<1>5. \A i \in DOMAIN pubs : pubs[i] \in Publications
    BY LenProperties, ElementOfSeq DEF TypeInv, ListsType
<1>6. \A i \in DOMAIN got : got[i] \in 1..Readings
    BY LenProperties, ElementOfSeq DEF TypeInv, ClientType
<1>7. \A i \in DOMAIN todo : todo[i] \in Ops
    BY <1>2, <1>3
<1> QED
    BY <1>1, <1>4, <1>5, <1>6, <1>7
    DEF TypeOK, TypeInv, QueueType, TaskType, ListsType, ClientType, SourceType, Event

(* What a step does to each list.                                          *)
Posting(e) == \/ PostNetwork /\ e = <<net, 0>>
              \/ PostHeartbeat /\ e = <<"heartbeat", 0>>
              \/ PostMotion /\ e = <<"motion", motion>>
              \/ PostUp /\ e = <<"mqttUp", 0>>
              \/ PostDown /\ e = <<"mqttDown", 0>>
              \/ PostMessage /\ walk # <<>> /\ e = <<"message", 0>>

LEMMA EventsStep ==
    ASSUME TypeInv, [Next]_vars
    PROVE  \/ events' = events
           \/ Receive
           \/ \E e \in Event : Posting(e) /\ Post(e)
<1>1. CASE PostNetwork
    BY <1>1, EventKinds DEF TypeInv, SourceType, PostNetwork, EventTypes, Posting
<1>2. CASE PostHeartbeat
    BY <1>2, EventKinds DEF PostHeartbeat, EventTypes, Posting
<1>3. CASE PostMotion
    BY <1>3, EventKinds DEF TypeInv, SensingType, PostMotion, Posting
<1>4. CASE ClientTask
    BY <1>4, EventKinds
    DEF ClientTask, SetConnected, Flush, FreePublications, PostUp, ClearConnected,
        FreeSubscriptions, PostDown, PostMessage, EventTypes, Posting
<1>5. CASE IpcamTask
    BY <1>5
    DEF IpcamTask, HeartbeatPublish, PublishStart, PublishSend, PublishQueue,
        SubscribeStart, SubscribeSend, SubscribeLink, UnsubscribeStart,
        UnsubscribeSend, MqttConnect, DisconnectClear, DisconnectFree,
        DisconnectDestroy, CountDisconnection
<1>6. CASE Happening \/ LinkDropped \/ UNCHANGED vars
    BY <1>6
    DEF Happening, NetworkChange, HeartbeatTimer, MotionTriggered, Connected,
        Disconnected, MessageArrives, LinkDropped, vars
<1> QED
    BY <1>1, <1>2, <1>3, <1>4, <1>5, <1>6 DEF Next

LEMMA QueueStep == ASSUME TypeInv, [Next]_vars PROVE QueueType'
<1>1. CASE events' = events
    BY <1>1 DEF TypeInv, QueueType
<1>2. CASE Receive
    BY <1>2, Shifted, ConstantTypes DEF TypeInv, QueueType, Receive
<1>3. ASSUME NEW e \in Event, Post(e) PROVE QueueType'
    BY <1>3, Appended, ConstantTypes DEF TypeInv, QueueType, Post
<1> QED
    BY <1>1, <1>2, <1>3, EventsStep

(* ipcam_task alone changes what it has left to do.                        *)
LEMMA OthersTodo ==
    ASSUME [Next]_vars, ~IpcamTask PROVE UNCHANGED <<todo, at, drops>>
BY DEF Next, Happening, NetworkChange, HeartbeatTimer, MotionTriggered, Connected,
       Disconnected, MessageArrives, LinkDropped, PostNetwork, PostHeartbeat,
       PostMotion, ClientTask, SetConnected, Flush, FreePublications, PostUp,
       ClearConnected, FreeSubscriptions, PostDown, PostMessage, ClientOnly,
       vars, ipcamVars, reconnectVars

LEMMA IpcamTodo ==
    ASSUME IpcamTask
    PROVE  \/ Receive
           \/ HeartbeatPublish /\ is_connected
           \/ todo # <<>> /\ Return
           \/ todo # <<>> /\ todo' = todo
BY DEF IpcamTask, HeartbeatPublish, PublishStart, PublishSend, PublishQueue,
       SubscribeStart, SubscribeSend, SubscribeLink, UnsubscribeStart,
       UnsubscribeSend, MqttConnect, DisconnectClear, DisconnectFree,
       DisconnectDestroy, CountDisconnection, Doing, Return, Continue

LEMMA TaskStep == ASSUME TypeInv, [Next]_vars PROVE TaskType'
<1>1. CASE ~IpcamTask
    BY <1>1, OthersTodo DEF TypeInv, TaskType
<1>2. CASE IpcamTask
    <2>1. todo' \in Seq(Call)
        <3>1. CASE Receive
            <4>1. Head(events) \in Event
                BY <3>1, Shifted DEF Receive, TypeInv, QueueType
            <4> QED
                BY <3>1, <4>1, CallsType DEF Receive
        <3>2. CASE HeartbeatPublish /\ is_connected
            <4>1. Tail(todo) \in Seq(Call)
                BY <3>2, Shifted DEF HeartbeatPublish, Doing, TypeInv, TaskType
            <4> QED
                BY <3>2, <4>1, Put, ConstantTypes, CallKinds DEF HeartbeatPublish
        <3>3. CASE todo # <<>> /\ Return
            BY <3>3, Shifted DEF Return, TypeInv, TaskType
        <3>4. CASE todo' = todo
            BY <3>4 DEF TypeInv, TaskType
        <3> QED
            BY <1>2, <3>1, <3>2, <3>3, <3>4, IpcamTodo
    <2>2. at' \in {"start", "send", "queue", "link", "free", "destroy"}
        BY <1>2
        DEF IpcamTask, Receive, HeartbeatPublish, PublishStart, PublishSend,
            PublishQueue, SubscribeStart, SubscribeSend, SubscribeLink,
            UnsubscribeStart, UnsubscribeSend, MqttConnect, DisconnectClear,
            DisconnectFree, DisconnectDestroy, CountDisconnection, Doing, Return,
            Continue, TypeInv, TaskType
    <2>3. drops' \in 0..255
        <3>1. CASE CountDisconnection
            BY <3>1 DEF CountDisconnection, TypeInv, TaskType
        <3>2. CASE ~CountDisconnection
            BY <1>2, <3>2
            DEF IpcamTask, Receive, HeartbeatPublish, PublishStart, PublishSend,
                PublishQueue, SubscribeStart, SubscribeSend, SubscribeLink,
                UnsubscribeStart, UnsubscribeSend, MqttConnect, DisconnectClear,
                DisconnectFree, DisconnectDestroy, reconnectVars, TypeInv, TaskType
        <3> QED
            BY <3>1, <3>2
    <2> QED
        BY <2>1, <2>2, <2>3 DEF TaskType
<1> QED
    BY <1>1, <1>2

LEMMA ListsStep == ASSUME TypeInv, [Next]_vars PROVE ListsType'
<1>1. CASE IpcamTask
    <2>1. CASE PublishQueue
        <3>1. Arg \in Publications
            BY <2>1, Shifted DEF PublishQueue, Doing, Arg, TypeInv, TaskType, Call
        <3> QED
            BY <2>1, <3>1, Put DEF PublishQueue, TypeInv, ListsType
    <2>2. CASE SubscribeLink
        <3>1. Arg \in Topic
            BY <2>2, Shifted DEF SubscribeLink, Doing, Arg, TypeInv, TaskType, Call
        <3> QED
            BY <2>2, <3>1, Appended DEF SubscribeLink, TypeInv, ListsType
    <2>3. CASE UnsubscribeStart
        BY <2>3, RemovedType DEF UnsubscribeStart, TypeInv, ListsType
    <2>4. CASE DisconnectFree
        BY <2>4, EmptySeq DEF DisconnectFree, TypeInv, ListsType
    <2>5. CASE DisconnectClear
        BY <2>5 DEF DisconnectClear, TypeInv, ListsType
    <2>6. CASE UNCHANGED mqttVars
        BY <2>6 DEF mqttVars, TypeInv, ListsType
    <2> QED
        BY <1>1, <2>1, <2>2, <2>3, <2>4, <2>5, <2>6
        DEF IpcamTask, Receive, HeartbeatPublish, PublishStart, PublishSend,
            SubscribeStart, SubscribeSend, UnsubscribeSend, MqttConnect,
            DisconnectDestroy, CountDisconnection
<1>2. CASE ClientTask
    <2>1. CASE Flush
        <3>1. walk # <<>> => Head(walk) \in Publications
            BY <2>1, Shifted DEF Flush, TypeInv, ClientType
        <3>2. pubs' = pubs \/ (walk # <<>> /\ pubs' = <<Head(walk)>> \o pubs)
            BY <2>1 DEF Flush
        <3>3. pubs' \in Seq(Publications)
            <4>1. pubs \in Seq(Publications)
                BY DEF TypeInv, ListsType
            <4>2. walk # <<>> => <<Head(walk)>> \o pubs \in Seq(Publications)
                BY <3>1, <4>1, Put
            <4> QED
                BY <3>2, <4>1, <4>2
        <3> QED
            BY <2>1, <3>3 DEF Flush, TypeInv, ListsType
    <2>2. CASE FreePublications \/ FreeSubscriptions
        BY <2>2, EmptySeq DEF FreePublications, FreeSubscriptions, TypeInv, ListsType
    <2>3. CASE SetConnected \/ ClearConnected
        BY <2>3 DEF SetConnected, ClearConnected, TypeInv, ListsType
    <2>4. CASE UNCHANGED mqttVars
        BY <2>4 DEF mqttVars, TypeInv, ListsType
    <2> QED
        BY <1>2, <2>1, <2>2, <2>3, <2>4 DEF ClientTask, PostUp, PostDown, PostMessage
<1>3. CASE UNCHANGED mqttVars
    BY <1>3 DEF mqttVars, TypeInv, ListsType
<1> QED
    BY <1>1, <1>2, <1>3
    DEF Next, Happening, NetworkChange, HeartbeatTimer, MotionTriggered, Connected,
        Disconnected, MessageArrives, LinkDropped, PostNetwork, PostHeartbeat,
        PostMotion, vars

(* What is delivered is a reading.                                         *)
LEMMA DeliverType ==
    ASSUME TypeInv, NEW p \in Publications, Deliver(p)
    PROVE  got' \in Seq(1..Readings)
<1>1. CASE client = "online" /\ p \notin {Online, Uptime}
    <2>1. PICK n \in 1..Readings : p = Reading(n)
        BY <1>1 DEF Publications
    <2>2. p[2] = n
        BY <2>1 DEF Reading
    <2> QED
        BY <1>1, <2>2, Appended DEF Deliver, TypeInv, ClientType
<1>2. CASE ~(client = "online" /\ p \notin {Online, Uptime})
    BY <1>2 DEF Deliver, TypeInv, ClientType
<1> QED
    BY <1>1, <1>2

LEMMA ClientStep == ASSUME TypeInv, [Next]_vars PROVE ClientType'
<1>1. CASE IpcamTask
    <2>1. CASE PublishSend
        <3>1. Arg \in Publications
            BY <2>1, Shifted DEF PublishSend, Doing, Arg, TypeInv, TaskType, Call
        <3>2. got' \in Seq(1..Readings)
            BY <2>1, <3>1, DeliverType DEF PublishSend
        <3> QED
            BY <2>1, <3>2 DEF PublishSend, TypeInv, ClientType
    <2>2. CASE SubscribeSend
        <3>1. Arg \in Topic
            BY <2>2, Shifted DEF SubscribeSend, Doing, Arg, TypeInv, TaskType, Call
        <3> QED
            BY <2>2, <3>1 DEF SubscribeSend, TypeInv, ClientType
    <2>3. CASE UnsubscribeSend \/ MqttConnect \/ DisconnectDestroy
        BY <2>3
        DEF UnsubscribeSend, MqttConnect, DisconnectDestroy, TypeInv, ClientType
    <2>4. CASE UNCHANGED clientVars
        BY <2>4 DEF clientVars, TypeInv, ClientType
    <2> QED
        BY <1>1, <2>1, <2>2, <2>3, <2>4
        DEF IpcamTask, Receive, HeartbeatPublish, PublishStart, PublishQueue,
            SubscribeStart, SubscribeLink, UnsubscribeStart, DisconnectClear,
            DisconnectFree, CountDisconnection
<1>2. CASE ClientTask
    <2>1. CASE Flush
        <3>1. walk \in Seq(Publications) /\ cb = "flush"
            BY <2>1 DEF Flush, TypeInv, ClientType
        <3>2. CASE walk = <<>>
            BY <2>1, <3>2 DEF Flush, Goto, TypeInv, ClientType
        <3>3. CASE walk # <<>>
            <4>1. Head(walk) \in Publications /\ Tail(walk) \in Seq(Publications)
                BY <3>1, <3>3, Shifted
            <4>2. got' \in Seq(1..Readings)
                BY <2>1, <3>3, <4>1, DeliverType DEF Flush, TypeInv, ClientType
            <4> QED
                BY <2>1, <3>3, <4>1, <4>2 DEF Flush, TypeInv, ClientType
        <3> QED
            BY <3>2, <3>3
    <2>2. CASE SetConnected
        BY <2>2 DEF SetConnected, Goto, TypeInv, ClientType, ListsType
    <2>3. CASE PostMessage
        BY <2>3 DEF PostMessage, Goto, TypeInv, ClientType
    <2>4. CASE FreePublications \/ PostUp \/ ClearConnected \/ FreeSubscriptions
                  \/ PostDown
        BY <2>4
        DEF FreePublications, PostUp, ClearConnected, FreeSubscriptions, PostDown,
            Goto, TypeInv, ClientType
    <2> QED
        BY <1>2, <2>1, <2>2, <2>3, <2>4 DEF ClientTask
<1>3. CASE Connected \/ Disconnected \/ \E i \in DOMAIN Topics : MessageArrives(Topics[i])
    BY <1>3 DEF Connected, Disconnected, MessageArrives, Goto, TypeInv, ClientType
<1>4. CASE UNCHANGED clientVars
    BY <1>4 DEF clientVars, TypeInv, ClientType
<1> QED
    BY <1>1, <1>2, <1>3, <1>4
    DEF Next, Happening, NetworkChange, HeartbeatTimer, MotionTriggered, LinkDropped,
        PostNetwork, PostHeartbeat, PostMotion, vars

LEMMA SourceStep == ASSUME TypeInv, [Next]_vars PROVE SourceType'
<1>0. SourceType /\ motion \in 0..Readings /\ left \in 0..Happenings
    BY DEF TypeInv, SourceType
<1>1. CASE NetworkChange \/ HeartbeatTimer \/ MotionTriggered
    <2>1. motion' \in 0..Readings /\ left' \in 0..Happenings
        BY <1>0, <1>1, Bounds
        DEF NetworkChange, HeartbeatTimer, MotionTriggered, Happens
    <2>2. /\ net' \in Network \cup {"none"}
          /\ sensing' \in BOOLEAN /\ beating' \in BOOLEAN /\ dropping' \in BOOLEAN
        BY <1>0, <1>1
        DEF NetworkChange, HeartbeatTimer, MotionTriggered, reconnectVars, SourceType
    <2> QED
        BY <2>1, <2>2 DEF SourceType
<1>2. CASE Connected \/ Disconnected \/ \E i \in DOMAIN Topics : MessageArrives(Topics[i])
    <2>1. left' \in 0..Happenings
        <3>1. left > 0 /\ left' = left - 1
            BY <1>2, Zenon DEF Connected, Disconnected, MessageArrives
        <3> QED
            BY <1>0, <3>1, Bounds
    <2>2. UNCHANGED <<net, motion, sensing, beating, dropping>>
        BY <1>2 DEF Connected, Disconnected, MessageArrives, reconnectVars
    <2> QED
        BY <1>0, <2>1, <2>2 DEF SourceType
<1>3. CASE LinkDropped \/ PostNetwork \/ PostHeartbeat \/ PostMotion
    BY <1>3
    DEF LinkDropped, PostNetwork, PostHeartbeat, PostMotion, reconnectVars, Network,
        TypeInv, SourceType
<1>4. CASE CountDisconnection
    <2>1. dropping' \in BOOLEAN /\ UNCHANGED sourceVars
        BY <1>4 DEF CountDisconnection, TypeInv, SourceType
    <2> QED
        BY <2>1 DEF sourceVars, TypeInv, SourceType
<1>5. CASE UNCHANGED <<sourceVars, reconnectVars>>
    BY <1>5 DEF sourceVars, reconnectVars, TypeInv, SourceType
<1>6. ClientTask => UNCHANGED <<sourceVars, reconnectVars>>
    BY DEF ClientTask, SetConnected, Flush, FreePublications, PostUp, ClearConnected,
           FreeSubscriptions, PostDown, PostMessage, ClientOnly
<1>7. IpcamTask => CountDisconnection \/ UNCHANGED <<sourceVars, reconnectVars>>
    BY DEF IpcamTask, Receive, HeartbeatPublish, PublishStart, PublishSend,
           PublishQueue, SubscribeStart, SubscribeSend, SubscribeLink,
           UnsubscribeStart, UnsubscribeSend, MqttConnect, DisconnectClear,
           DisconnectFree, DisconnectDestroy
<1> QED
    BY <1>1, <1>2, <1>3, <1>4, <1>5, <1>6, <1>7 DEF Next, Happening, vars

LEMMA SensingStep == ASSUME TypeInv, [Next]_vars PROVE SensingType'
<1>1. CASE MotionTriggered
    BY <1>1, ConstantTypes DEF MotionTriggered, SensingType, TypeInv, SourceType
<1>2. CASE PostMotion
    BY <1>2 DEF PostMotion, SensingType
<1>3. CASE UNCHANGED <<motion, sensing>>
    BY <1>3 DEF SensingType, TypeInv
<1>4. ClientTask \/ IpcamTask => UNCHANGED <<motion, sensing>>
    BY DEF ClientTask, SetConnected, Flush, FreePublications, PostUp, ClearConnected,
           FreeSubscriptions, PostDown, PostMessage, ClientOnly, sourceVars,
           IpcamTask, Receive, HeartbeatPublish, PublishStart, PublishSend,
           PublishQueue, SubscribeStart, SubscribeSend, SubscribeLink,
           UnsubscribeStart, UnsubscribeSend, MqttConnect, DisconnectClear,
           DisconnectFree, DisconnectDestroy, CountDisconnection
<1> QED
    BY <1>1, <1>2, <1>3, <1>4
    DEF Next, Happening, NetworkChange, HeartbeatTimer, Connected, Disconnected,
        MessageArrives, LinkDropped, PostNetwork, PostHeartbeat, sourceVars, vars

LEMMA NextType == ASSUME TypeInv, [Next]_vars PROVE TypeInv'
BY QueueStep, TaskStep, ListsStep, ClientStep, SourceStep, SensingStep DEF TypeInv

(* The variables keep their types, for any list of topics, length of       *)
(* event_queue and number of readings and happenings: event_queue holds at *)
(* most its length, and no call gets another's argument.                   *)
THEOREM TypeCorrect == Spec => []TypeOK
<1>1. TypeInv => TypeOK
    BY TypeInvTypeOK
<1> QED
    BY <1>1, InitType, NextType, PTL DEF Spec

-----------------------------------------------------------------------------
(* A reading on its way                                                    *)
LEMMA ReadingsDiffer ==
    ASSUME NEW n \in 1..Readings
    PROVE  /\ Reading(n) # Online /\ Reading(n) # Uptime
           /\ \A m \in 1..Readings : Reading(m) = Reading(n) => m = n
           /\ Reading(n)[2] = n
BY DEF Reading, Online, Uptime

(* Only the handler of a motion event publishes a reading, and only its.   *)
LEMMA CallsPublish ==
    ASSUME NEW e \in Event, NEW n \in 1..Readings
    PROVE  /\ Has(Calls(e), Publishing(n)) <=> e = <<"motion", n>>
           /\ Once(Calls(e), Publishing(n))
<1> DEFINE p == Publishing(n)
<1>1. \A o, a : Op(o, a) = p => o = "publish" /\ a = Reading(n)
    BY DEF Op, Publishing
<1>2. \A o, a : <<Op(o, a)>>[1] = Op(o, a) /\ DOMAIN <<Op(o, a)>> = {1}
    OBVIOUS
<1>3. \A o \in {"subscribe", "unsubscribe"} : ~Has(ForEach(o, Topics), p)
    BY <1>1, ForEachTopic DEF Has
<1>4. CASE e[1] = "motion"
    <2>1. PICK m \in 1..Readings : e = <<"motion", m>>
        BY <1>4 DEF Event, EventTypes, Network
    <2>2. Calls(e) = <<Publishing(m)>>
        BY <2>1 DEF Calls, Publishing
    <2>3. Publishing(m) = p <=> m = n
        BY <1>1, ReadingsDiffer DEF Publishing
    <2> QED
        BY <2>1, <2>2, <2>3 DEF Has, Once
<1>5. ASSUME e[1] # "motion" PROVE ~Has(Calls(e), p)
    <2>1. ~Has(<<>>, p)
        BY HasNothing
    <2>2. \A o \in {"heartbeat", "connect", "disconnect", "count"} : ~Has(<<Op(o, None)>>, p)
        BY <1>1, <1>2 DEF Has
    <2>3. CASE e[1] = "netDown"
        <3>1. Calls(e) = <<Op("disconnect", None)>> \o Cleanup
            BY <2>3 DEF Calls
        <3>2. Cleanup \in Seq(Call) /\ ~Has(Cleanup, p)
            BY <1>3, ForEachTopic DEF Cleanup
        <3> QED
            BY <1>1, <3>1, <3>2, HasPut, CallKinds
    <2>4. CASE e[1] = "mqttDown"
        <3>1. Calls(e) = Append(Cleanup, Op("count", None))
            BY <2>4 DEF Calls
        <3>2. Cleanup \in Seq(Call) /\ ~Has(Cleanup, p)
            BY <1>3, ForEachTopic DEF Cleanup
        <3> QED
            BY <1>1, <3>1, <3>2, HasAppend, CallKinds
    <2>5. CASE e[1] = "mqttUp"
        <3>1. Calls(e) = SelfPublish \o Subscribe
            BY <2>5 DEF Calls
        <3>2. Subscribe \in Seq(Call) /\ ~Has(Subscribe, p)
            BY <1>3, ForEachTopic DEF Subscribe
        <3>3. /\ SelfPublish \in Seq(Call) /\ Len(SelfPublish) = 2
              /\ SelfPublish[1] = Op("publish", Online)
              /\ SelfPublish[2] = Op("heartbeat", None)
            BY ConstantTypes, CallKinds, Pair DEF SelfPublish
        <3>4. SelfPublish[1] # p /\ SelfPublish[2] # p
            BY <1>1, <3>3, ReadingsDiffer
        <3> QED
            BY <3>1, <3>2, <3>3, <3>4, Joined DEF Has
    <2>6. CASE e[1] \in {"heartbeat", "netUp", "message"}
        BY <2>1, <2>2, <2>6 DEF Calls
    <2> QED
        BY <1>5, <2>3, <2>4, <2>5, <2>6 DEF Event, EventTypes, Network
<1>6. e[1] # "motion" => e # <<"motion", n>> /\ Once(Calls(e), p)
    BY <1>5 DEF Has, Once
<1> QED
    BY <1>4, <1>5, <1>6

LEMMA PostedPost ==
    ASSUME TypeInv, NEW e \in Event, Post(e), NEW n \in 1..Readings
    PROVE  /\ Posted(n)' <=> Posted(n) \/ e = <<"motion", n>>
           /\ Once(events, <<"motion", n>>) /\ (e = <<"motion", n>> => ~Posted(n))
                 => Once(events, <<"motion", n>>)'
BY HasAppend DEF TypeInv, QueueType, Post, Posted

LEMMA PostedReceive ==
    ASSUME TypeInv, Receive, NEW n \in 1..Readings
    PROVE  /\ Head(events) \in Event
           /\ Posted(n) <=> Head(events) = <<"motion", n>> \/ Posted(n)'
           /\ Once(events, <<"motion", n>>) =>
                 /\ Once(events, <<"motion", n>>)'
                 /\ Head(events) = <<"motion", n>> => ~Posted(n)'
BY HasTail, Shifted DEF TypeInv, QueueType, Receive, Posted

LEMMA CalledReturn ==
    ASSUME TypeInv, todo # <<>>, todo' = Tail(todo), NEW n \in 1..Readings
    PROVE  /\ Called(n) <=> Head(todo) = Publishing(n) \/ Called(n)'
           /\ Once(todo, Publishing(n)) =>
                 /\ Once(todo, Publishing(n))'
                 /\ Head(todo) = Publishing(n) => ~Called(n)'
BY HasTail DEF TypeInv, TaskType, Called

LEMMA Delivery ==
    ASSUME TypeInv, NEW p \in Publications, Deliver(p), NEW n \in 1..Readings
    PROVE  /\ Received(n)' => Received(n) \/ p = Reading(n)
           /\ Once(got, n) /\ (p = Reading(n) => ~Received(n)) => Once(got, n)'
<1>1. CASE client = "online" /\ p \notin {Online, Uptime}
    <2>1. PICK m \in 1..Readings : p = Reading(m)
        BY <1>1 DEF Publications
    <2>2. got \in Seq(1..Readings) /\ got' = Append(got, m)
        BY <1>1, <2>1, ReadingsDiffer DEF Deliver, TypeInv, ClientType
    <2>3. /\ Has(Append(got, m), n) <=> Has(got, n) \/ m = n
          /\ Once(got, n) /\ (m = n => ~Has(got, n)) => Once(Append(got, m), n)
        BY <2>2, HasAppend, Zenon
    <2> QED
        BY <2>1, <2>2, <2>3 DEF Received
<1>2. CASE got' = got
    BY <1>2 DEF Received
<1> QED
    BY <1>1, <1>2 DEF Deliver

(* A step that takes no reading anywhere.                                  *)
LEMMA NowhereNew ==
    ASSUME NEW n \in 1..Readings, Tracked(n), motion' = motion,
           Sensed(n)' => Sensed(n), Posted(n)' => Posted(n), Called(n)' => Called(n),
           Queued(n)' => Queued(n), Walked(n)' => Walked(n),
           Received(n)' => Received(n), OneCopy(n)'
    PROVE  Tracked(n)'
BY DEF Tracked, OnePlace, NotYet

(* Two places of a reading that a step leaves alone.                       *)
LEMMA ListsKept ==
    ASSUME NEW n \in 1..Readings, OneCopy(n), UNCHANGED <<pubs, got, cb, walk>>
    PROVE  /\ Queued(n)' <=> Queued(n)
           /\ Walked(n)' <=> Walked(n)
           /\ Received(n)' <=> Received(n)
           /\ cb' \notin {"flush", "free"} => Once(pubs, Reading(n))'
           /\ cb' = "flush" => Once(walk, Reading(n))'
           /\ Once(got, n)'
BY DEF Queued, Walked, Received, OneCopy, Once, Has

LEMMA SourcesKept ==
    ASSUME NEW n \in 1..Readings, OneCopy(n), UNCHANGED <<events, motion, sensing>>
    PROVE  /\ Sensed(n)' <=> Sensed(n)
           /\ Posted(n)' <=> Posted(n)
           /\ Once(events, <<"motion", n>>)'
BY DEF Sensed, Posted, OneCopy, Once, Has

LEMMA TaskKept ==
    ASSUME NEW n \in 1..Readings, OneCopy(n), UNCHANGED todo
    PROVE  /\ Called(n)' <=> Called(n)
           /\ Once(todo, Publishing(n))'
BY DEF Called, OneCopy, Once, Has

(* A happening: a new reading is nowhere else yet.                         *)
LEMMA TriggeredReading ==
    ASSUME TypeInv, MotionTriggered, NEW n \in 1..Readings, Tracked(n)
    PROVE  Tracked(n)'
<1>1. UNCHANGED <<events, todo, pubs, got, cb, walk>>
    BY DEF MotionTriggered, ipcamVars, mqttVars, clientVars
<1>2. /\ Posted(n)' <=> Posted(n)
      /\ Once(events, <<"motion", n>>)'
    BY <1>1 DEF Posted, Tracked, OneCopy, Once, Has
<1>3. motion \in Nat /\ motion' = motion + 1 /\ sensing' /\ ~sensing
    BY DEF MotionTriggered, TypeInv, SourceType
<1>4. Sensed(n)' => n > motion
    BY <1>3 DEF Sensed
<1>5. n > motion' => n > motion /\ ~Sensed(n)'
    BY <1>3 DEF Sensed
<1> QED
    BY <1>1, <1>2, <1>4, <1>5, ListsKept, TaskKept
    DEF Tracked, OnePlace, OneCopy, NotYet

(* An event is posted.                                                     *)
LEMMA PostedReading ==
    ASSUME TypeInv, NEW e \in Event, Posting(e), Post(e), NEW n \in 1..Readings,
           Tracked(n)
    PROVE  Tracked(n)'
<1>1. UNCHANGED <<todo, pubs, got, motion>>
    BY DEF Posting, PostNetwork, PostHeartbeat, PostMotion, PostUp, PostDown,
           PostMessage, ClientOnly, ipcamVars, mqttVars, clientVars, sourceVars
<1>2. \/ UNCHANGED <<cb, walk>>
      \/ cb \notin {"flush", "free"} /\ cb' \notin {"flush", "free"}
    BY DEF Posting, PostNetwork, PostHeartbeat, PostMotion, PostUp, PostDown,
           PostMessage, Goto, clientVars
<1>3. /\ Queued(n)' <=> Queued(n)
      /\ Walked(n)' <=> Walked(n)
      /\ Received(n)' <=> Received(n)
      /\ cb' \notin {"flush", "free"} => Once(pubs, Reading(n))'
      /\ cb' = "flush" => Once(walk, Reading(n))'
      /\ Once(got, n)'
    BY <1>1, <1>2 DEF Queued, Walked, Received, Tracked, OneCopy, Once, Has
<1>4. CASE e = <<"motion", n>>
    <2>1. PostMotion /\ motion = n
        BY <1>4 DEF Posting, TypeInv, SourceType, Network
    <2>2. Sensed(n) /\ ~Sensed(n)'
        BY <2>1 DEF PostMotion, Sensed
    <2>3. ~(n > motion) /\ ~(n > motion')
        BY <1>1, <2>1
    <2> QED
        BY <1>1, <1>3, <2>2, <2>3, PostedPost, TaskKept
        DEF Tracked, OnePlace, OneCopy, NotYet
<1>5. CASE e # <<"motion", n>>
    <2>1. Sensed(n)' => Sensed(n)
        BY <1>1
        DEF Sensed, Posting, PostNetwork, PostHeartbeat, PostMotion, PostUp, PostDown,
            PostMessage, ClientOnly, sourceVars
    <2> QED
        BY <1>1, <1>3, <1>5, <2>1, PostedPost, TaskKept, NowhereNew
        DEF Tracked, OneCopy
<1> QED
    BY <1>4, <1>5

(* ipcam_task takes an event.                                              *)
LEMMA ReceivedReading ==
    ASSUME TypeInv, Receive, NEW n \in 1..Readings, Tracked(n)
    PROVE  Tracked(n)'
<1>1. UNCHANGED <<pubs, got, cb, walk, motion, sensing>>
    BY DEF Receive, mqttVars, clientVars, sourceVars
<1>2. Sensed(n)' <=> Sensed(n)
    BY <1>1 DEF Sensed
<1>3. /\ Called(n)' <=> Head(events) = <<"motion", n>>
      /\ Once(todo, Publishing(n))'
    BY CallsPublish, PostedReceive DEF Receive, Called
<1>4. ~Called(n)
    BY HasNothing DEF Receive, Called
<1> QED
    BY <1>1, <1>2, <1>3, <1>4, PostedReceive, ListsKept
    DEF Tracked, OnePlace, OneCopy, NotYet

(* Every other step of ipcam_task.                                         *)
LEMMA IpcamReading ==
    ASSUME TypeInv, IpcamTask, ~Receive, NEW n \in 1..Readings, Tracked(n)
    PROVE  Tracked(n)'
<1>1. UNCHANGED <<events, motion, sensing, cb, walk>>
    BY DEF IpcamTask, HeartbeatPublish, PublishStart, PublishSend, PublishQueue,
           SubscribeStart, SubscribeSend, SubscribeLink, UnsubscribeStart,
           UnsubscribeSend, MqttConnect, DisconnectClear, DisconnectFree,
           DisconnectDestroy, CountDisconnection, clientVars, sourceVars
<1>2. /\ Called(n)' => Called(n)
      /\ Once(todo, Publishing(n))'
    <2>1. CASE HeartbeatPublish /\ is_connected
        <3>1. todo # <<>> /\ todo' = <<Op("publish", Uptime)>> \o Tail(todo)
            BY <2>1 DEF HeartbeatPublish, Doing
        <3>2. Tail(todo) \in Seq(Call) /\ Op("publish", Uptime) \in Call
            BY <3>1, Shifted, CallKinds, ConstantTypes DEF TypeInv, TaskType
        <3>3. Op("publish", Uptime) # Publishing(n)
            BY ReadingsDiffer DEF Publishing, Op
        <3>4. /\ Has(todo, Publishing(n))
                    <=> Head(todo) = Publishing(n) \/ Has(Tail(todo), Publishing(n))
              /\ Once(todo, Publishing(n)) => Once(Tail(todo), Publishing(n))
            BY <3>1, HasTail DEF TypeInv, TaskType
        <3>5. ASSUME NEW s \in Seq(Call), NEW y \in Call, y # Publishing(n)
              PROVE  /\ Has(<<y>> \o s, Publishing(n)) <=> Has(s, Publishing(n))
                     /\ Once(s, Publishing(n)) => Once(<<y>> \o s, Publishing(n))
            BY <3>5, HasPut
        <3>6. /\ Has(todo', Publishing(n)) <=> Has(Tail(todo), Publishing(n))
              /\ Once(Tail(todo), Publishing(n)) => Once(todo', Publishing(n))
            BY <3>1, <3>2, <3>3, <3>5
        <3> QED
            BY <3>4, <3>6 DEF Called, Tracked, OneCopy
    <2>2. CASE todo # <<>> /\ Return
        BY <2>2, CalledReturn DEF Return, Tracked, OneCopy
    <2>3. CASE todo' = todo
        BY <2>3, TaskKept DEF Tracked
    <2> QED
        BY <2>1, <2>2, <2>3, IpcamTodo
<1>3. ASSUME PublishSend \/ PublishQueue
      PROVE  /\ Arg \in Publications
             /\ Arg = Reading(n) => Called(n) /\ ~Called(n)'
    <2>1. todo # <<>> /\ Head(todo) \in Call /\ Head(todo).op = "publish" /\ Return
        BY <1>3, Shifted DEF PublishSend, PublishQueue, Doing, TypeInv, TaskType
    <2>2. Arg \in Publications /\ Head(todo) = Op("publish", Arg)
        BY <2>1 DEF Call, Op, Arg
    <2>3. Arg = Reading(n) => Head(todo) = Publishing(n)
        BY <2>2 DEF Publishing
    <2> QED
        BY <2>1, <2>2, <2>3, CalledReturn DEF Return, Tracked, OneCopy
<1>4. CASE PublishSend
    <2>1. Deliver(Arg) /\ UNCHANGED pubs
        BY <1>4 DEF PublishSend, mqttVars
    <2>2. /\ Queued(n)' <=> Queued(n)
          /\ Walked(n)' <=> Walked(n)
          /\ cb' \notin {"flush", "free"} => Once(pubs, Reading(n))'
          /\ cb' = "flush" => Once(walk, Reading(n))'
        BY <1>1, <2>1 DEF Queued, Walked, Tracked, OneCopy, Once, Has
    <2>3. /\ Received(n)' => Received(n) \/ Arg = Reading(n)
          /\ Once(got, n) /\ (Arg = Reading(n) => ~Received(n)) => Once(got, n)'
        BY <1>3, <1>4, <2>1, Delivery
    <2> QED
        BY <1>1, <1>2, <1>3, <1>4, <2>2, <2>3, SourcesKept
        DEF Tracked, OnePlace, OneCopy, NotYet
<1>5. CASE PublishQueue
    <2>1. pubs' = <<Arg>> \o pubs /\ UNCHANGED got
        BY <1>5 DEF PublishQueue, clientVars
    <2>2. /\ Has(pubs, Reading(n))' <=> Has(pubs, Reading(n)) \/ Arg = Reading(n)
          /\ Once(pubs, Reading(n)) /\ (Arg = Reading(n) => ~Has(pubs, Reading(n)))
                => Once(pubs, Reading(n))'
        BY <1>3, <1>5, <2>1, HasPut DEF TypeInv, ListsType
    <2>3. /\ Walked(n)' <=> Walked(n)
          /\ Received(n)' <=> Received(n)
          /\ cb' = "flush" => Once(walk, Reading(n))'
          /\ Once(got, n)'
        BY <1>1, <2>1 DEF Walked, Received, Tracked, OneCopy, Once, Has
    <2>4. Queued(n)' => Queued(n) \/ Arg = Reading(n)
        BY <1>1, <2>2 DEF Queued
    <2>5. Arg = Reading(n) /\ cb \notin {"flush", "free"} => ~Has(pubs, Reading(n))
        BY <1>3, <1>5 DEF Tracked, OnePlace, Queued
    <2>6. cb' \notin {"flush", "free"} => Once(pubs, Reading(n))'
        BY <1>1, <2>2, <2>5 DEF Tracked, OneCopy
    <2> QED
        BY <1>1, <1>2, <1>3, <1>5, <2>3, <2>4, <2>6, SourcesKept
        DEF Tracked, OnePlace, OneCopy, NotYet
<1>6. CASE ~PublishSend /\ ~PublishQueue
    <2>1. UNCHANGED <<pubs, got>>
        BY <1>6
        DEF IpcamTask, HeartbeatPublish, PublishStart, SubscribeStart, SubscribeSend,
            SubscribeLink, UnsubscribeStart, UnsubscribeSend, MqttConnect,
            DisconnectClear, DisconnectFree, DisconnectDestroy, CountDisconnection,
            mqttVars, clientVars
    <2> QED
        BY <1>1, <1>2, <2>1, ListsKept, SourcesKept, NowhereNew DEF Tracked, OneCopy
<1> QED
    BY <1>4, <1>5, <1>6

(* mqtt_event_cb walks publications_list.                                  *)
LEMMA WalkReading ==
    ASSUME TypeInv, SetConnected \/ Flush \/ FreePublications, NEW n \in 1..Readings,
           Tracked(n)
    PROVE  Tracked(n)'
<1>1. UNCHANGED <<events, todo, motion, sensing>>
    BY DEF SetConnected, Flush, FreePublications, ClientOnly, ipcamVars, sourceVars
<1>2. CASE SetConnected
    <2>1. cb = "set" /\ cb' = "flush" /\ walk' = pubs /\ UNCHANGED got
        BY <1>2 DEF SetConnected, Goto
    <2>2. /\ Walked(n)' <=> Queued(n)
          /\ ~Walked(n) /\ ~Queued(n)'
          /\ Received(n)' <=> Received(n)
          /\ cb' = "flush" => Once(walk, Reading(n))'
          /\ Once(got, n)'
        BY <2>1 DEF Walked, Queued, Received, Tracked, OneCopy, Once, Has
    <2> QED
        BY <1>1, <2>1, <2>2, SourcesKept, TaskKept DEF Tracked, OnePlace, OneCopy, NotYet
<1>3. CASE FreePublications
    <2>1. /\ cb = "free" /\ cb' = "up" /\ pubs' = <<>> /\ UNCHANGED got
        BY <1>3 DEF FreePublications, Goto
    <2>2. /\ ~Walked(n)' /\ ~Queued(n)'
          /\ Received(n)' <=> Received(n)
          /\ Once(pubs, Reading(n))'
          /\ Once(got, n)'
        BY <2>1, HasNothing DEF Walked, Queued, Received, Tracked, OneCopy, Once, Has
    <2> QED
        BY <1>1, <2>1, <2>2, SourcesKept, TaskKept, NowhereNew DEF Tracked, OneCopy
<1>4. CASE Flush /\ walk = <<>>
    <2>1. cb = "flush" /\ cb' = "free" /\ UNCHANGED got
        BY <1>4 DEF Flush, Goto
    <2>2. /\ ~Walked(n)' /\ ~Queued(n)'
          /\ Received(n)' <=> Received(n)
          /\ Once(got, n)'
        BY <2>1 DEF Walked, Queued, Received, Tracked, OneCopy, Once, Has
    <2> QED
        BY <1>1, <2>1, <2>2, SourcesKept, TaskKept, NowhereNew DEF Tracked, OneCopy
<1>5. CASE Flush /\ walk # <<>>
    <2>1. /\ cb = "flush" /\ cb' = "flush" /\ walk' = Tail(walk)
          /\ UNCHANGED got \/ Deliver(Head(walk))
        BY <1>5 DEF Flush
    <2>2. walk \in Seq(Publications) /\ Head(walk) \in Publications
        BY <1>5, <2>1, Shifted DEF TypeInv, ClientType
    <2>3. /\ Has(walk, Reading(n))
                <=> Head(walk) = Reading(n) \/ Has(Tail(walk), Reading(n))
          /\ Once(walk, Reading(n)) => Once(Tail(walk), Reading(n))
          /\ Once(walk, Reading(n)) /\ Head(walk) = Reading(n)
                => ~Has(Tail(walk), Reading(n))
        BY <1>5, <2>2, HasTail
    <2>4. /\ ~Queued(n) /\ ~Queued(n)'
          /\ Walked(n) <=> Head(walk) = Reading(n) \/ Walked(n)'
          /\ Once(walk, Reading(n))'
          /\ Head(walk) = Reading(n) => ~Walked(n)'
        BY <2>1, <2>3 DEF Queued, Walked, Tracked, OneCopy
    <2>5. /\ Received(n)' => Received(n) \/ Head(walk) = Reading(n)
          /\ Once(got, n)'
        <3>1. Head(walk) = Reading(n) => ~Received(n)
            BY <2>4 DEF Tracked, OnePlace
        <3>2. CASE UNCHANGED got
            BY <3>2 DEF Received, Tracked, OneCopy, Once, Has
        <3>3. CASE Deliver(Head(walk))
            BY <2>2, <3>1, <3>3, Delivery DEF Tracked, OneCopy
        <3> QED
            BY <2>1, <3>2, <3>3
    <2> QED
        BY <1>1, <2>1, <2>4, <2>5, SourcesKept, TaskKept
        DEF Tracked, OnePlace, OneCopy, NotYet
<1> QED
    BY <1>2, <1>3, <1>4, <1>5

(* The steps that move mqtt_event_cb elsewhere, or nothing of this.        *)
LEMMA OtherReading ==
    ASSUME TypeInv, NEW n \in 1..Readings, Tracked(n),
           UNCHANGED <<events, todo, pubs, got, motion, sensing>>,
           \/ UNCHANGED <<cb, walk>>
           \/ cb \notin {"flush", "free"} /\ cb' \notin {"flush", "free"}
    PROVE  Tracked(n)'
<1>1. /\ Queued(n)' <=> Queued(n)
      /\ Walked(n)' <=> Walked(n)
      /\ Received(n)' <=> Received(n)
      /\ cb' \notin {"flush", "free"} => Once(pubs, Reading(n))'
      /\ cb' = "flush" => Once(walk, Reading(n))'
      /\ Once(got, n)'
    BY DEF Queued, Walked, Received, Tracked, OneCopy, Once, Has
<1> QED
    BY <1>1, SourcesKept, TaskKept, NowhereNew DEF Tracked, OneCopy

LEMMA ReadingStep == ASSUME TypeInv, ReadingInv, [Next]_vars PROVE ReadingInv'
<1> SUFFICES ASSUME NEW n \in 1..Readings PROVE Tracked(n)'
    BY DEF ReadingInv
<1>0. Tracked(n)
    BY DEF ReadingInv
<1>1. CASE MotionTriggered
    BY <1>0, <1>1, TriggeredReading
<1>2. CASE \E e \in Event : Posting(e) /\ Post(e)
    BY <1>0, <1>2, PostedReading
<1>3. CASE IpcamTask
    BY <1>0, <1>3, ReceivedReading, IpcamReading
<1>4. CASE SetConnected \/ Flush \/ FreePublications
    BY <1>0, <1>4, WalkReading
<1>5. CASE /\ ~MotionTriggered /\ ~IpcamTask
           /\ ~(SetConnected \/ Flush \/ FreePublications)
           /\ ~(\E e \in Event : Posting(e) /\ Post(e))
    <2>1. events' = events
        BY <1>5, EventsStep DEF IpcamTask
    <2>2. UNCHANGED <<todo, pubs, got, motion, sensing>>
        <3>1. CASE PostMotion
            BY <3>1, <2>1, Appended DEF PostMotion, Post, TypeInv, QueueType
        <3> QED
            BY <1>5, <3>1
            DEF Next, Happening, NetworkChange, HeartbeatTimer, Connected, Disconnected,
                MessageArrives, LinkDropped, PostNetwork, PostHeartbeat, ClientTask,
                PostUp, ClearConnected, FreeSubscriptions, PostDown, PostMessage,
                ClientOnly, vars, ipcamVars, mqttVars, clientVars, sourceVars
    <2>3. \/ UNCHANGED <<cb, walk>>
          \/ cb \notin {"flush", "free"} /\ cb' \notin {"flush", "free"}
        BY <1>5
        DEF Next, Happening, NetworkChange, HeartbeatTimer, Connected, Disconnected,
            MessageArrives, LinkDropped, PostNetwork, PostHeartbeat, PostMotion,
            ClientTask, PostUp, ClearConnected, FreeSubscriptions, PostDown,
            PostMessage, Goto, vars, clientVars
    <2> QED
        BY <1>0, <2>1, <2>2, <2>3, OtherReading
<1> QED
    BY <1>1, <1>2, <1>3, <1>4, <1>5

-----------------------------------------------------------------------------
(* Subscriptions                                                           *)

(* What is left to do when an event has been taken.                        *)
LEMMA UpCalls ==
    ASSUME NEW e \in Event, e[1] = "mqttUp"
    PROVE  /\ \A i \in DOMAIN Calls(e) : Calls(e)[i].op # "unsubscribe"
           /\ \A t \in Topic : \E i \in DOMAIN Calls(e) :
                  i > 1 /\ Calls(e)[i] = Op("subscribe", t)
<1>1. Calls(e) = SelfPublish \o Subscribe
    BY DEF Calls
<1>2. /\ SelfPublish \in Seq(Call) /\ Len(SelfPublish) = 2
      /\ SelfPublish[1].op = "publish" /\ SelfPublish[2].op = "heartbeat"
    BY ConstantTypes, CallKinds, Pair DEF SelfPublish, Op
<1>3. /\ Subscribe \in Seq(Call) /\ DOMAIN Subscribe = DOMAIN Topics
      /\ \A i \in DOMAIN Topics : Subscribe[i] = Op("subscribe", Topics[i])
    BY ForEachTopic DEF Subscribe
<1> DEFINE c == SelfPublish \o Subscribe
<1>4. /\ Len(Subscribe) \in Nat /\ DOMAIN Subscribe = 1..Len(Subscribe)
      /\ DOMAIN c = 1..2 + Len(Subscribe)
      /\ c[1] = SelfPublish[1] /\ c[2] = SelfPublish[2]
      /\ \A i \in 1..Len(Subscribe) : c[2 + i] = Subscribe[i]
    <2>1. SelfPublish \in Seq(Call) /\ Subscribe \in Seq(Call)
        BY <1>2, <1>3
    <2>2. /\ Len(Subscribe) \in Nat /\ DOMAIN Subscribe = 1..Len(Subscribe)
          /\ DOMAIN c = 1..Len(SelfPublish) + Len(Subscribe)
          /\ \A i \in 1..Len(SelfPublish) : c[i] = SelfPublish[i]
          /\ \A i \in 1..Len(Subscribe) : c[Len(SelfPublish) + i] = Subscribe[i]
        BY <2>1, Joined
    <2> HIDE DEF c
    <2> QED
        BY <1>2, <2>2
<1> HIDE DEF c
<1>5. \A i \in DOMAIN c : i > 2 => i - 2 \in DOMAIN Subscribe /\ c[i] = Subscribe[i - 2]
    BY <1>4
<1>6. \A i \in DOMAIN c : c[i].op # "unsubscribe"
    BY <1>2, <1>3, <1>4, <1>5 DEF Op
<1>7. ASSUME NEW t \in Topic
      PROVE  \E i \in DOMAIN c : i > 1 /\ c[i] = Op("subscribe", t)
    <2>1. PICK j \in DOMAIN Topics : Topics[j] = t
        BY DEF Topic
    <2>2. 2 + j \in DOMAIN c /\ 2 + j > 1 /\ c[2 + j] = Op("subscribe", t)
        BY <1>3, <1>4, <2>1
    <2> QED
        BY <2>2
<1> QED
    BY <1>1, <1>6, <1>7 DEF c

LEMMA OtherCalls ==
    ASSUME NEW e \in Event
    PROVE  /\ e[1] \in {"heartbeat", "motion", "message"} =>
                  \A i \in DOMAIN Calls(e) : Calls(e)[i].op # "unsubscribe"
           /\ e[1] \in Network =>
                  Calls(e) # <<>> /\ Head(Calls(e)).op \in {"connect", "disconnect"}
<1>1. ASSUME e[1] \in {"heartbeat", "motion", "message"}
      PROVE  \A i \in DOMAIN Calls(e) : Calls(e)[i].op # "unsubscribe"
    BY <1>1 DEF Calls, Op
<1>2. CASE e[1] = "netUp"
    BY <1>2 DEF Calls, Op
<1>3. CASE e[1] = "netDown"
    <2>1. Calls(e) = <<Op("disconnect", None)>> \o Cleanup
        BY <1>3 DEF Calls
    <2>2. Op("disconnect", None) \in Call /\ Cleanup \in Seq(Call)
        BY CallKinds, ForEachTopic DEF Cleanup
    <2>3. /\ Calls(e) \in Seq(Call) /\ Len(Cleanup) \in Nat
          /\ DOMAIN Calls(e) = 1..Len(Cleanup) + 1
          /\ Calls(e)[1] = Op("disconnect", None)
        BY <2>1, <2>2, Put
    <2>4. Calls(e) # <<>> /\ Head(Calls(e)) = Op("disconnect", None)
        BY <2>3
    <2> QED
        BY <1>3, <2>4 DEF Op
<1> QED
    BY <1>1, <1>2, <1>3 DEF Network

(* When a call returns, or goes on, what was subscribed or to be           *)
(* subscribed still is.                                                    *)
LEMMA ReturnSettles ==
    ASSUME TypeInv, Settling, todo # <<>>, Return, UNCHANGED events,
           broker \subseteq broker', \A t \in Topic : InList(t) => InList(t)',
           \A t \in Topic : Head(todo) = Op("subscribe", t) => at = "link" /\ InList(t)'
    PROVE  Settling'
<1>1. /\ todo' = Tail(todo) /\ at' = "start" /\ todo[1] = Head(todo)
      /\ Len(todo) \in Nat \ {0} /\ DOMAIN todo = 1..Len(todo)
      /\ DOMAIN Tail(todo) = 1..Len(todo) - 1
      /\ \A i \in 1..Len(todo) - 1 : Tail(todo)[i] = todo[i + 1]
    BY Shifted DEF Return, TypeInv, TaskType
<1>2. \A i \in DOMAIN todo' : todo'[i].op # "unsubscribe"
    BY <1>1 DEF Settling
<1>3. ASSUME NEW t \in Topic PROVE Subscribed(t)' \/ ToSubscribe(t)'
    <2>1. CASE Subscribed(t)
        BY <2>1 DEF Subscribed
    <2>2. CASE Linking(t)
        BY <2>2 DEF Linking, Subscribed
    <2>3. CASE ToSubscribe(t)
        <3>1. PICK i \in DOMAIN todo : todo[i] = Op("subscribe", t) /\ (i > 1 \/ at # "link")
            BY <2>3 DEF ToSubscribe
        <3>2. i > 1
            BY <1>1, <3>1
        <3>3. i - 1 \in DOMAIN todo' /\ todo'[i - 1] = Op("subscribe", t)
            BY <1>1, <3>1, <3>2
        <3> QED
            BY <1>1, <3>3 DEF ToSubscribe
    <2> QED
        BY <2>1, <2>2, <2>3 DEF Settling
<1> QED
    BY <1>2, <1>3 DEF Settling

LEMMA ContinueSettles ==
    ASSUME TypeInv, Settling, todo # <<>>, UNCHANGED <<events, todo, subs>>, at # "link",
           broker \subseteq broker',
           at' = "link" => \A t \in Topic : Head(todo) = Op("subscribe", t) => t \in broker'
    PROVE  Settling'
<1>1. todo[1] = Head(todo) /\ DOMAIN todo = 1..Len(todo) /\ Len(todo) \in Nat
    BY Shifted DEF TypeInv, TaskType
<1>2. ASSUME NEW t \in Topic PROVE Subscribed(t)' \/ Linking(t)' \/ ToSubscribe(t)'
    <2>1. CASE Subscribed(t)
        BY <2>1 DEF Subscribed, InList
    <2>2. CASE ToSubscribe(t)
        <3>1. PICK i \in DOMAIN todo : todo[i] = Op("subscribe", t)
            BY <2>2 DEF ToSubscribe
        <3>2. CASE i > 1 \/ at' # "link"
            BY <3>1, <3>2 DEF ToSubscribe
        <3>3. CASE ~(i > 1) /\ at' = "link"
            <4>1. i = 1
                BY <1>1, <3>3
            <4> QED
                BY <1>1, <3>1, <3>3, <4>1 DEF Linking
        <3> QED
            BY <3>2, <3>3
    <2> QED
        BY <2>1, <2>2 DEF Settling, Linking
<1> QED
    BY <1>2 DEF Settling

(* The heartbeat's call becomes a publication.                             *)
LEMMA HeartbeatSettles ==
    ASSUME TypeInv, Settling, HeartbeatPublish PROVE Settling'
<1>1. /\ todo # <<>> /\ Head(todo).op = "heartbeat" /\ at = "start" /\ at' = "start"
      /\ UNCHANGED <<events, subs, broker>>
    BY DEF HeartbeatPublish, Doing, mqttVars, clientVars
<1>2. \A t \in Topic : Head(todo) # Op("subscribe", t)
    BY <1>1 DEF Op
<1>3. CASE is_connected
    <2>1. todo' = <<Op("publish", Uptime)>> \o Tail(todo)
        BY <1>3 DEF HeartbeatPublish
    <2>2. /\ Tail(todo) \in Seq(Call) /\ Len(todo) \in Nat \ {0} /\ todo[1] = Head(todo)
          /\ Len(Tail(todo)) = Len(todo) - 1 /\ DOMAIN todo = 1..Len(todo)
          /\ \A i \in 1..Len(todo) - 1 : Tail(todo)[i] = todo[i + 1]
        BY <1>1, Shifted DEF TypeInv, TaskType
    <2>3. Op("publish", Uptime) \in Call /\ Tail(todo) \in Seq(Call)
        BY <2>2, CallKinds, ConstantTypes
    <2>4. /\ DOMAIN todo' = 1..Len(Tail(todo)) + 1
          /\ todo'[1] = Op("publish", Uptime)
          /\ \A i \in 1..Len(Tail(todo)) : todo'[i + 1] = Tail(todo)[i]
        BY <2>1, <2>3, Put
    <2>5. DOMAIN todo' = DOMAIN todo
        BY <2>2, <2>4
    <2>6. ASSUME NEW i \in DOMAIN todo, i > 1 PROVE todo'[i] = todo[i]
        <3>1. i - 1 \in 1..Len(Tail(todo)) /\ i - 1 \in 1..Len(todo) - 1 /\ (i - 1) + 1 = i
            BY <2>2, <2>6
        <3> QED
            BY <2>2, <2>4, <3>1
    <2>7. \A i \in DOMAIN todo' : todo'[i].op # "unsubscribe"
        <3>1. \A i \in DOMAIN todo : i = 1 \/ i > 1
            BY <2>2
        <3> QED
            BY <2>4, <2>5, <2>6, <3>1 DEF Settling, Op
    <2>8. ASSUME NEW t \in Topic PROVE Subscribed(t)' \/ ToSubscribe(t)'
        <3>1. CASE Subscribed(t)
            BY <1>1, <3>1 DEF Subscribed, InList
        <3>2. CASE ToSubscribe(t)
            <4>1. PICK i \in DOMAIN todo : todo[i] = Op("subscribe", t)
                BY <3>2 DEF ToSubscribe
            <4>2. i > 1
                BY <1>2, <2>2, <4>1
            <4> QED
                BY <2>5, <2>6, <4>1, <4>2 DEF ToSubscribe
        <3> QED
            BY <1>1, <3>1, <3>2 DEF Settling, Linking
    <2> QED
        BY <1>1, <2>7, <2>8 DEF Settling
<1>4. CASE ~is_connected
    <2>1. Return
        BY <1>1, <1>4 DEF HeartbeatPublish, Return
    <2>2. \A t \in Topic : InList(t) => InList(t)'
        BY <1>1 DEF InList
    <2> QED
        BY <1>1, <1>2, <2>1, <2>2, ReturnSettles
<1> QED
    BY <1>3, <1>4

LEMMA IpcamSettles ==
    ASSUME TypeInv, FlagInv, Settling, IpcamTask, ~Receive, client = "online",
           cb \in {"idle", "data"}, ~GivingUp
    PROVE  Settling'
<1>1. todo # <<>> /\ UNCHANGED events /\ todo[1] = Head(todo) /\ 1 \in DOMAIN todo
    <2>1. todo # <<>> /\ UNCHANGED events
        BY DEF IpcamTask, HeartbeatPublish, PublishStart, PublishSend, PublishQueue,
               SubscribeStart, SubscribeSend, SubscribeLink, UnsubscribeStart,
               UnsubscribeSend, MqttConnect, DisconnectClear, DisconnectFree,
               DisconnectDestroy, CountDisconnection, Doing
    <2> QED
        BY <2>1, Shifted DEF TypeInv, TaskType
<1>2. is_connected /\ Head(todo).op \notin {"unsubscribe", "connect", "disconnect"}
    BY <1>1 DEF FlagInv, GivingUp, NextOp, Settling
<1>3. CASE HeartbeatPublish
    BY <1>3, HeartbeatSettles
<1>4. CASE PublishSend \/ PublishQueue \/ CountDisconnection
    <2>1. Return /\ UNCHANGED <<subs, broker>> /\ Head(todo).op # "subscribe"
        BY <1>4
        DEF PublishSend, PublishQueue, CountDisconnection, Doing, mqttVars, clientVars
    <2>2. \A t \in Topic : Head(todo) # Op("subscribe", t) /\ (InList(t) => InList(t)')
        BY <2>1 DEF Op, InList
    <2> QED
        BY <1>1, <2>1, <2>2, ReturnSettles
<1>5. CASE PublishStart \/ SubscribeStart
    <2>1. /\ UNCHANGED <<todo, subs, broker>> /\ at # "link" /\ at' # "link"
        BY <1>2, <1>5
        DEF PublishStart, SubscribeStart, Doing, Continue, mqttVars, clientVars
    <2> QED
        BY <1>1, <2>1, ContinueSettles
<1>6. CASE SubscribeSend
    <2>1. /\ UNCHANGED <<todo, subs>> /\ at # "link" /\ at' = "link"
          /\ broker' = broker \cup {Arg}
        BY <1>6 DEF SubscribeSend, Doing, Continue, mqttVars
    <2>2. \A t \in Topic : Head(todo) = Op("subscribe", t) => t \in broker'
        BY <2>1 DEF Arg, Op
    <2> QED
        BY <1>1, <2>1, <2>2, ContinueSettles
<1>7. CASE SubscribeLink
    <2>1. /\ Return /\ UNCHANGED broker /\ at = "link"
          /\ Head(todo).op = "subscribe" /\ subs' = Append(subs, Arg)
        BY <1>7 DEF SubscribeLink, Doing, clientVars
    <2>2. Head(todo) \in Call
        BY <1>1, Shifted DEF TypeInv, TaskType
    <2>3. Arg \in Topic
        BY <2>1, <2>2 DEF Call, Arg
    <2>4. \A t : InList(t)' <=> InList(t) \/ Arg = t
        <3>1. subs \in Seq(Topic)
            BY DEF TypeInv, ListsType
        <3>2. ASSUME NEW t PROVE Has(Append(subs, Arg), t) <=> Has(subs, t) \/ Arg = t
            BY <2>3, <3>1, HasAppend
        <3> QED
            BY <2>1, <3>2 DEF InList, Has
    <2>5. \A t \in Topic : Head(todo) = Op("subscribe", t) => InList(t)'
        BY <2>4 DEF Arg, Op
    <2> QED
        BY <1>1, <2>1, <2>4, <2>5, ReturnSettles
<1> QED
    BY <1>2, <1>3, <1>4, <1>5, <1>6, <1>7
    DEF IpcamTask, UnsubscribeStart, UnsubscribeSend, MqttConnect, DisconnectClear,
        DisconnectFree, DisconnectDestroy, Doing

LEMMA ReceiveSettles ==
    ASSUME TypeInv, Receive, UpComing \/ Settling
    PROVE  GivingUp' \/ UpComing' \/ Settling'
<1> DEFINE e == Head(events)
<1>1. /\ todo = <<>> /\ todo' = Calls(e) /\ events' = Tail(events)
      /\ UNCHANGED <<at, subs, broker>>
    BY DEF Receive, mqttVars, clientVars
<1>2. /\ e \in Event /\ events[1] = e
      /\ Len(events) \in Nat \ {0} /\ DOMAIN events = 1..Len(events)
      /\ DOMAIN Tail(events) = 1..Len(events) - 1
      /\ \A i \in 1..Len(events) - 1 : Tail(events)[i] = events[i + 1]
    BY Shifted DEF Receive, TypeInv, QueueType
<1> HIDE DEF e
<1>3. ASSUME NEW i \in DOMAIN events, i > 1
      PROVE  i - 1 \in DOMAIN events' /\ events'[i - 1] = events[i]
    BY <1>1, <1>2, <1>3
<1>4. \A i \in DOMAIN events' : i + 1 \in DOMAIN events /\ events'[i] = events[i + 1]
    BY <1>1, <1>2
<1>5. ASSUME NEW k \in DOMAIN events, k > 1, events[k][1] = "mqttUp",
             \A j \in DOMAIN events : j > k => events[j][1] # "mqttDown"
      PROVE  UpComing'
    <2>1. k - 1 \in DOMAIN events' /\ events'[k - 1][1] = "mqttUp"
        BY <1>3, <1>5
    <2>2. \A j \in DOMAIN events' : j > k - 1 => events'[j][1] # "mqttDown"
        BY <1>1, <1>2, <1>4, <1>5
    <2> QED
        BY <2>1, <2>2 DEF UpComing
<1>6. ASSUME e[1] = "mqttUp", \A j \in DOMAIN events : j > 1 => events[j][1] # "mqttDown"
      PROVE  Settling'
    <2>1. \A i \in DOMAIN events' : events'[i][1] # "mqttDown"
        BY <1>1, <1>2, <1>4, <1>6
    <2>2. \A t \in Topic : ToSubscribe(t)'
        BY <1>1, <1>2, <1>6, UpCalls DEF ToSubscribe
    <2> QED
        BY <1>1, <1>2, <1>6, <2>1, <2>2, UpCalls DEF Settling
<1>7. CASE UpComing
    <2>1. PICK k \in DOMAIN events :
              /\ events[k][1] = "mqttUp"
              /\ \A j \in DOMAIN events : j > k => events[j][1] # "mqttDown"
        BY <1>7 DEF UpComing
    <2>2. k = 1 \/ k > 1
        BY <1>2
    <2> QED
        BY <1>2, <1>5, <1>6, <2>1, <2>2
<1>8. CASE Settling
    <2>1. \A i \in DOMAIN events : events[i][1] # "mqttDown"
        BY <1>8 DEF Settling
    <2>2. CASE e[1] = "mqttUp"
        BY <1>6, <2>1, <2>2
    <2>3. CASE e[1] \in Network
        <3>1. NextOp("connect")' \/ NextOp("disconnect")'
            BY <1>1, <1>2, <2>3, OtherCalls DEF NextOp
        <3> QED
            BY <3>1 DEF GivingUp
    <2>4. CASE e[1] \in {"heartbeat", "motion", "message"}
        <3>1. \A t \in Topic : Subscribed(t)
            BY <1>1, <1>8 DEF Settling, Linking, ToSubscribe
        <3>2. \A t \in Topic : Subscribed(t)'
            BY <1>1, <3>1 DEF Subscribed, InList
        <3>3. \A i \in DOMAIN todo' : todo'[i].op # "unsubscribe"
            BY <1>1, <1>2, <2>4, OtherCalls
        <3>4. \A i \in DOMAIN events' : events'[i][1] # "mqttDown"
            BY <1>4, <2>1
        <3> QED
            BY <3>2, <3>3, <3>4 DEF Settling
    <2>5. e[1] # "mqttDown" /\ 1 \in DOMAIN events
        BY <1>2, <2>1
    <2> QED
        BY <1>2, <2>2, <2>3, <2>4, <2>5 DEF Event, EventTypes
<1> QED
    BY <1>7, <1>8

LEMMA PostSettles ==
    ASSUME TypeInv, NEW e \in Event, Posting(e), Post(e), e[1] # "mqttDown",
           GivingUp \/ UpComing \/ Settling
    PROVE  GivingUp' \/ UpComing' \/ Settling'
<1>1. UNCHANGED <<todo, at, subs, broker>>
    BY DEF Posting, PostNetwork, PostHeartbeat, PostMotion, PostUp, PostDown,
           PostMessage, ClientOnly, ipcamVars, mqttVars, clientVars
<1>2. /\ Len(events) \in Nat
      /\ DOMAIN events = 1..Len(events) /\ DOMAIN events' = 1..Len(events) + 1
      /\ events'[Len(events) + 1] = e
      /\ \A i \in 1..Len(events) : events'[i] = events[i]
    BY Appended DEF Post, TypeInv, QueueType
<1>3. CASE GivingUp
    BY <1>1, <1>3 DEF GivingUp, NextOp
<1>4. CASE UpComing
    BY <1>2, <1>4 DEF UpComing
<1>5. CASE Settling
    <2>1. \A t \in Topic : Subscribed(t)' \/ Linking(t)' \/ ToSubscribe(t)'
        BY <1>1, <1>5 DEF Settling, Subscribed, InList, Linking, ToSubscribe
    <2>2. \A i \in DOMAIN events' : events'[i][1] # "mqttDown"
        BY <1>2, <1>5 DEF Settling
    <2> QED
        BY <1>1, <1>5, <2>1, <2>2 DEF Settling
<1> QED
    BY <1>3, <1>4, <1>5

(* PostUp ends with an mqttUp as the last event.                           *)
LEMMA UpIsComing == ASSUME TypeInv, PostUp PROVE UpComing'
<1>1. /\ Len(events) \in Nat
      /\ DOMAIN events = 1..Len(events) /\ DOMAIN events' = 1..Len(events) + 1
      /\ events'[Len(events) + 1] = <<"mqttUp", 0>>
    BY Appended, EventKinds DEF PostUp, Post, TypeInv, QueueType, EventTypes
<1> QED
    BY <1>1 DEF UpComing

LEMMA SubscribeStep ==
    ASSUME TypeInv, FlagInv, SubscribeInv, [Next]_vars PROVE SubscribeInv'
<1> SUFFICES ASSUME client' = "online", cb' \in {"idle", "data"}
             PROVE  GivingUp' \/ UpComing' \/ Settling'
    BY DEF SubscribeInv
<1>1. PostUp \/ (client = "online" /\ cb \in {"idle", "data"})
    <2>1. CASE IpcamTask
        BY <2>1
        DEF IpcamTask, Receive, HeartbeatPublish, PublishStart, PublishSend,
            PublishQueue, SubscribeStart, SubscribeSend, SubscribeLink,
            UnsubscribeStart, UnsubscribeSend, MqttConnect, DisconnectClear,
            DisconnectFree, DisconnectDestroy, CountDisconnection, clientVars
    <2>2. CASE ClientTask
        BY <2>2
        DEF FlagInv, ClientTask, SetConnected, Flush, FreePublications, ClearConnected,
            FreeSubscriptions, PostDown, PostMessage, Goto
    <2> QED
        BY <2>1, <2>2
        DEF Next, Happening, NetworkChange, HeartbeatTimer, MotionTriggered, Connected,
            Disconnected, MessageArrives, LinkDropped, PostNetwork, PostHeartbeat,
            PostMotion, Goto, vars, clientVars
<1>2. CASE PostUp
    BY <1>2, UpIsComing
<1>3. CASE ~PostUp
    <2>0. client = "online" /\ cb \in {"idle", "data"}
        BY <1>1, <1>3
    <2>1. GivingUp \/ UpComing \/ Settling
        BY <2>0 DEF SubscribeInv
    <2>2. CASE Receive
        <3>1. ~GivingUp
            BY <2>2 DEF Receive, GivingUp, NextOp
        <3> QED
            BY <2>1, <2>2, <3>1, ReceiveSettles
    <2>3. CASE IpcamTask /\ ~Receive
        <3>1. UNCHANGED events
            BY <2>3
            DEF IpcamTask, HeartbeatPublish, PublishStart, PublishSend, PublishQueue,
                SubscribeStart, SubscribeSend, SubscribeLink, UnsubscribeStart,
                UnsubscribeSend, MqttConnect, DisconnectClear, DisconnectFree,
                DisconnectDestroy, CountDisconnection
        <3>2. UpComing => UpComing'
            BY <3>1 DEF UpComing
        <3>3. GivingUp => GivingUp'
            BY <2>3
            DEF IpcamTask, HeartbeatPublish, PublishStart, PublishSend, PublishQueue,
                SubscribeStart, SubscribeSend, SubscribeLink, UnsubscribeStart,
                UnsubscribeSend, MqttConnect, DisconnectClear, DisconnectFree,
                DisconnectDestroy, CountDisconnection, GivingUp, NextOp, Doing, Continue
        <3>4. Settling /\ ~GivingUp => Settling'
            BY <2>0, <2>3, IpcamSettles
        <3> QED
            BY <2>1, <3>2, <3>3, <3>4
    <2>4. CASE \E e \in Event : Posting(e) /\ Post(e)
        <3>1. PICK e \in Event : Posting(e) /\ Post(e)
            BY <2>4
        <3>2. ~PostDown
            BY <2>0 DEF PostDown
        <3>3. e[1] # "mqttDown"
            BY <3>1, <3>2 DEF Posting, TypeInv, SourceType, Network
        <3> QED
            BY <2>1, <3>1, <3>3, PostSettles
    <2>5. CASE ~IpcamTask /\ events' = events
        <3>1. UNCHANGED <<todo, at>>
            BY <2>5, OthersTodo
        <3>2. UNCHANGED <<subs, broker>>
            BY <2>0, <2>5
            DEF Next, Happening, NetworkChange, HeartbeatTimer, MotionTriggered, Connected,
                Disconnected, MessageArrives, LinkDropped, PostNetwork, PostHeartbeat,
                PostMotion, ClientTask, SetConnected, Flush, FreePublications, PostUp,
                ClearConnected, FreeSubscriptions, PostDown, PostMessage, Goto, vars,
                mqttVars, clientVars
        <3>3. (GivingUp => GivingUp') /\ (UpComing => UpComing')
            BY <2>5, <3>1 DEF GivingUp, NextOp, UpComing
        <3>4. Settling => Settling'
            BY <2>5, <3>1, <3>2 DEF Settling, Subscribed, InList, Linking, ToSubscribe
        <3> QED
            BY <2>1, <3>3, <3>4
    <2> QED
        BY <2>2, <2>3, <2>4, <2>5, EventsStep DEF IpcamTask
<1> QED
    BY <1>2, <1>3

(* The flag and the connection.                                            *)
LEMMA FlagStep == ASSUME TypeInv, FlagInv, [Next]_vars PROVE FlagInv'
<1>1. CASE Receive
    <2>1. todo = <<>> /\ UNCHANGED <<is_connected, client, cb>>
        BY <1>1 DEF Receive, mqttVars, clientVars
    <2> QED
        BY <2>1 DEF FlagInv, NextOp
<1>2. CASE IpcamTask /\ ~Receive
    <2>1. CASE MqttConnect \/ DisconnectDestroy
        BY <2>1 DEF MqttConnect, DisconnectDestroy, FlagInv
    <2>2. CASE DisconnectClear \/ DisconnectFree
        BY <2>2 DEF DisconnectClear, DisconnectFree, Doing, Continue, clientVars, FlagInv,
                    NextOp
    <2>3. CASE ~(MqttConnect \/ DisconnectDestroy \/ DisconnectClear \/ DisconnectFree)
        <3>1. ~NextOp("disconnect") /\ UNCHANGED <<is_connected, client, cb>>
            BY <1>2, <2>3
            DEF IpcamTask, HeartbeatPublish, PublishStart, PublishSend, PublishQueue,
                SubscribeStart, SubscribeSend, SubscribeLink, UnsubscribeStart,
                UnsubscribeSend, CountDisconnection, Doing, NextOp, mqttVars, clientVars
        <3> QED
            BY <3>1 DEF FlagInv
    <2> QED
        BY <2>1, <2>2, <2>3
<1>3. CASE ~IpcamTask
    <2>1. NextOp("disconnect")' <=> NextOp("disconnect")
        BY <1>3, OthersTodo DEF NextOp
    <2>2. CASE Connected \/ Disconnected
        BY <2>2 DEF Connected, Disconnected, Goto, FlagInv
    <2>3. CASE SetConnected
        BY <2>3 DEF SetConnected, Goto, FlagInv
    <2>4. CASE ClearConnected \/ FreeSubscriptions
        BY <2>4 DEF ClearConnected, FreeSubscriptions, Goto, FlagInv
    <2>5. CASE ~(Connected \/ Disconnected \/ SetConnected \/ ClearConnected
                     \/ FreeSubscriptions)
        <3>1. /\ UNCHANGED <<is_connected, client>>
              /\ UNCHANGED cb
                 \/ (cb # "set" /\ cb' \notin {"set", "clear", "forget", "down"})
            BY <1>3, <2>5
            DEF Next, Happening, NetworkChange, HeartbeatTimer, MotionTriggered,
                MessageArrives, LinkDropped, PostNetwork, PostHeartbeat, PostMotion,
                ClientTask, Flush, FreePublications, PostUp, PostDown, PostMessage, Goto,
                vars, mqttVars, clientVars
        <3> QED
            BY <2>1, <3>1 DEF FlagInv
    <2> QED
        BY <2>2, <2>3, <2>4, <2>5
<1> QED
    BY <1>1, <1>2, <1>3

-----------------------------------------------------------------------------
(* Together                                                                *)
LEMMA InitIInv == ASSUME Init PROVE IInv
<1>1. TypeInv
    BY InitType
<1>2. ReadingInv
    <2> SUFFICES ASSUME NEW n \in 1..Readings PROVE Tracked(n)
        BY DEF ReadingInv
    <2>1. /\ ~Posted(n) /\ ~Called(n) /\ ~Queued(n) /\ ~Received(n)
          /\ Once(events, <<"motion", n>>) /\ Once(todo, Publishing(n))
          /\ Once(pubs, Reading(n)) /\ Once(got, n)
        BY HasNothing DEF Init, Posted, Called, Queued, Received
    <2>2. ~Sensed(n) /\ ~Walked(n) /\ cb = "idle"
        BY DEF Init, Sensed, Walked
    <2> QED
        BY <2>1, <2>2 DEF Tracked, OnePlace, OneCopy, NotYet
<1>3. FlagInv /\ SubscribeInv
    BY DEF Init, FlagInv, SubscribeInv
<1> QED
    BY <1>1, <1>2, <1>3 DEF IInv

LEMMA NextIInv == ASSUME IInv, [Next]_vars PROVE IInv'
BY NextType, ReadingStep, FlagStep, SubscribeStep DEF IInv

(* The inductive invariant behind the theorems below.                      *)
THEOREM Invariance == Spec => []IInv
BY InitIInv, NextIInv, PTL DEF Spec

(* However the network and the broker come and go, for any list of topics  *)
(* and any queue: a device that has settled with a connection is           *)
(* subscribed to every topic (mqtt_on_connected, cleanup, mqtt_event_cb).  *)
THEOREM SettledIsSubscribed == Spec => []SubscribedWhenSettled
<1>1. ASSUME IInv, Settled, client = "online", NEW t \in Topic
      PROVE  t \in broker /\ InList(t)
    <2>1. todo = <<>> /\ events = <<>> /\ cb = "idle"
        BY <1>1 DEF Settled
    <2>2. ~GivingUp /\ ~UpComing /\ ~Linking(t) /\ ~ToSubscribe(t)
        BY <2>1 DEF GivingUp, NextOp, UpComing, Linking, ToSubscribe
    <2> QED
        BY <1>1, <2>1, <2>2 DEF IInv, SubscribeInv, Settling, Subscribed
<1>2. IInv => SubscribedWhenSettled
    BY <1>1 DEF SubscribedWhenSettled
<1> QED
    BY <1>2, Invariance, PTL

(* Any number of readings, connected or not: none reaches the broker twice *)
(* (mqtt_publish, mqtt_publications_publish, mqtt_publications_free).      *)
THEOREM NoReadingTwice == Spec => []AtMostOnce
<1>1. ASSUME IInv, NEW i \in DOMAIN got, NEW j \in DOMAIN got, got[i] = got[j]
      PROVE  i = j
    <2>1. got[i] \in 1..Readings
        BY <1>1, LenProperties, ElementOfSeq DEF IInv, TypeInv, ClientType
    <2> QED
        BY <1>1, <2>1 DEF IInv, ReadingInv, Tracked, OneCopy, Once
<1>2. IInv => AtMostOnce
    BY <1>1 DEF AtMostOnce
<1> QED
    BY <1>2, Invariance, PTL
=============================================================================
