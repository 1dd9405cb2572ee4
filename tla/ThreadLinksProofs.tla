--------------------------- MODULE ThreadLinksProofs ---------------------------
(***************************************************************************)
(* CallersServed for every number of workers, calls, tries and deaths.     *)
(*                                                                         *)
(* Whoever a call has written to and waits for no more has answered or is  *)
(* late at any time (Heard).  That no notice ends a call earlier is        *)
(* followed from the exit of the worker to the client (NoticesSayNothing). *)
(* A worker has one port because its link is asked for once                *)
(* (NotLinkedTwice) and its id is never given again (IdsGiven).            *)
(***************************************************************************)
EXTENDS ThreadLinks, FiniteSetTheorems, WellFoundedInduction, TLAPS

Message == [kind : {"link", "unlink"}, id : Ids \cup {DisposedId}]

Distinct(s) == \A i, j \in DOMAIN s : s[i] = s[j] => i = j

\* Workers that are to be started and exits that are to be handled are within
\* the bound; whatever names a worker names one that was started.
IdsGiven ==
    /\ lastId + starts + Cardinality(exits) <= Slots + MaxDeaths
    /\ alive \cup exits \subseteq 1 .. lastId
    /\ Elems(threads) \cup Elems(linkBox) \cup Elems(relation) \subseteq 1 .. lastId
    /\ \A i \in DOMAIN managerBox :
           managerBox[i].kind = "link" => managerBox[i].id \in 1 .. lastId
    /\ \A r \in Calls : calls[r].sentTo \subseteq 1 .. lastId

\* A worker is dead when its exit event comes, and the notice names no worker.
NoticesSayNothing ==
    /\ exits \cap alive = {}
    /\ \A i \in DOMAIN managerBox :
           managerBox[i].kind = "unlink" => managerBox[i].id = DisposedId

\* A worker has one port at the client: its link is asked for once.
NotLinkedTwice ==
    /\ Distinct(threads) /\ Distinct(linkBox) /\ Distinct(relation)
    /\ Elems(relation) \cap Elems(linkBox) = {}
    /\ ~linking => relation = << >> /\ linkBox = << >>
    /\ \A i \in DOMAIN managerBox : managerBox[i].kind = "link" =>
           /\ linking
           /\ managerBox[i].id \notin Elems(relation) \cup Elems(linkBox)
           /\ \A j \in DOMAIN managerBox : managerBox[j] = managerBox[i] => j = i

\* Whom a call has written to and waits for no more is explained, at any time.
Heard ==
    /\ answers \subseteq answered
    /\ \A r \in Calls :
           /\ calls[r].waits \subseteq calls[r].sentTo
           /\ calls[r].pc # "waiting" => calls[r].waits = {}
           /\ \A w \in calls[r].sentTo \ calls[r].waits :
                  <<r, w>> \in answered \cup late

\* The inductive invariant.
Inv ==
    /\ TypeOK /\ TasksExplained
    /\ IdsGiven /\ NoticesSayNothing /\ NotLinkedTwice /\ Heard
-----------------------------------------------------------------------------
(* Sequences *)

\* What Elems says of the sequences that the actions build.
LEMMA RangeOfAppend ==
  ASSUME NEW S, NEW s \in Seq(S), NEW x \in S
  PROVE  Append(s, x) \in Seq(S) /\ Elems(Append(s, x)) = Elems(s) \cup {x}
<1>1. Append(s, x) \in Seq(S) /\ Len(Append(s, x)) = Len(s) + 1
  OBVIOUS
<1>2. Elems(Append(s, x)) \subseteq Elems(s) \cup {x}
  BY <1>1 DEF Elems
<1>3. x \in Elems(Append(s, x))
  <2>1. Append(s, x)[Len(s) + 1] = x /\ Len(s) + 1 \in DOMAIN Append(s, x)
    BY <1>1
  <2> QED BY <2>1 DEF Elems
<1>4. ASSUME NEW y \in Elems(s) PROVE y \in Elems(Append(s, x))
  <2>1. PICK i \in DOMAIN s : y = s[i]
    BY DEF Elems
  <2>2. Append(s, x)[i] = y /\ i \in DOMAIN Append(s, x)
    BY <1>1, <2>1
  <2> QED BY <2>2 DEF Elems
<1> QED BY <1>1, <1>2, <1>3, <1>4

LEMMA RangeOfTail ==
  ASSUME NEW S, NEW s \in Seq(S), s # << >>
  PROVE  /\ Tail(s) \in Seq(S) /\ Head(s) \in S /\ Head(s) \in Elems(s)
         /\ Elems(Tail(s)) \subseteq Elems(s)
         /\ Distinct(s) => Distinct(Tail(s)) /\ Head(s) \notin Elems(Tail(s))
<1>1. /\ Tail(s) \in Seq(S) /\ Len(s) > 0 /\ Len(Tail(s)) = Len(s) - 1
      /\ \A i \in DOMAIN Tail(s) : i + 1 \in DOMAIN s /\ Tail(s)[i] = s[i + 1]
  OBVIOUS
<1>2. 1 \in DOMAIN s /\ Head(s) = s[1]
  BY <1>1
<1>3. Distinct(s) => Distinct(Tail(s)) /\ Head(s) \notin Elems(Tail(s))
  BY <1>1, <1>2 DEF Distinct, Elems
<1> QED BY <1>1, <1>2, <1>3 DEF Elems

LEMMA DistinctAppend ==
  ASSUME NEW S, NEW s \in Seq(S), NEW x \in S, Distinct(s), x \notin Elems(s)
  PROVE  Distinct(Append(s, x))
  BY DEF Distinct, Elems

LEMMA ConcatenationIn ==
  ASSUME NEW S, NEW s \in Seq(S), NEW t \in Seq(S)
  PROVE  /\ s \o t \in Seq(S) /\ Len(s \o t) = Len(s) + Len(t)
         /\ \A i \in DOMAIN (s \o t) :
                \/ i \in DOMAIN s /\ (s \o t)[i] = s[i]
                \/ i - Len(s) \in DOMAIN t /\ (s \o t)[i] = t[i - Len(s)]
  OBVIOUS

\* indexOf finds what is there.
LEMMA IndexOfFirst ==
  ASSUME NEW S, NEW s \in Seq(S), NEW w \in Elems(s)
  PROVE  IndexOf(s, w) \in DOMAIN s /\ s[IndexOf(s, w)] = w
<1> DEFINE T == {i \in DOMAIN s : s[i] = w}
<1>1. T \subseteq Nat /\ T # {}
  BY DEF Elems
<1>2. \E x \in T : \A y \in T : ~(<<y, x>> \in OpToRel(<, Nat))
  <2> HIDE DEF T
  <2> QED BY <1>1, NatLessThanWellFounded, WFMin
<1>3. PICK x \in T : \A y \in T : ~(<<y, x>> \in OpToRel(<, Nat))
  BY <1>2
<1>4. \A y \in T : ~(y < x)
  BY <1>1, <1>3 DEF OpToRel
<1>5. ASSUME NEW j \in 1 .. x - 1 PROVE s[j] # w
  <2>1. j \in DOMAIN s /\ j < x
    BY <1>1
  <2> QED BY <1>4, <2>1
<1>6. \E i \in DOMAIN s : s[i] = w /\ \A j \in 1 .. i - 1 : s[j] # w
  BY <1>5
<1> QED BY <1>6 DEF IndexOf

\* splice takes one entry out and keeps the others.
LEMMA WithoutRemoves ==
  ASSUME NEW S, NEW s \in Seq(S), NEW w
  PROVE  /\ Without(s, w) \in Seq(S)
         /\ Elems(Without(s, w)) \subseteq Elems(s)
         /\ Elems(s) \ {w} \subseteq Elems(Without(s, w))
         /\ Distinct(s) => Distinct(Without(s, w))
<1>1. CASE w \notin Elems(s)
  BY <1>1 DEF Without
<1>2. CASE w \in Elems(s)
  <2> DEFINE i == IndexOf(s, w)
             t == [j \in 1 .. Len(s) - 1 |-> IF j < i THEN s[j] ELSE s[j + 1]]
  <2>1. i \in 1 .. Len(s) /\ s[i] = w
    BY <1>2, IndexOfFirst
  <2>2. Without(s, w) = t
    BY <1>2 DEF Without
  <2> HIDE DEF i
  <2>3. t \in Seq(S) /\ DOMAIN t = 1 .. Len(s) - 1
    BY <2>1
  <2>4. Elems(t) \subseteq Elems(s)
    BY <2>1 DEF Elems
  <2>5. ASSUME NEW x \in Elems(s), x # w PROVE x \in Elems(t)
    <3>1. PICK k \in 1 .. Len(s) : s[k] = x
      BY DEF Elems
    <3>2. CASE k < i
      <4>1. k \in 1 .. Len(s) - 1 /\ t[k] = x
        BY <2>1, <3>1, <3>2
      <4> QED BY <2>3, <4>1 DEF Elems
    <3>3. CASE k > i
      <4>1. k - 1 \in 1 .. Len(s) - 1 /\ ~(k - 1 < i) /\ (k - 1) + 1 = k
        BY <2>1, <3>1, <3>3
      <4>2. t[k - 1] = x
        BY <3>1, <4>1
      <4> QED BY <2>3, <4>1, <4>2 DEF Elems
    <3> QED BY <2>1, <2>5, <3>1, <3>2, <3>3
  <2>6. Distinct(s) => Distinct(t)
    BY <2>1, <2>3 DEF Distinct
  <2> QED BY <2>2, <2>3, <2>4, <2>5, <2>6
<1> QED BY <1>1, <1>2

-----------------------------------------------------------------------------
(* The pool of the workers *)

LEMMA InitInv == Init => Inv
<1> SUFFICES ASSUME Init PROVE Inv
  OBVIOUS
<1> USE DEF Init
<1>1. Slots \in Nat /\ MaxDeaths \in Nat /\ MaxTries \in Nat /\ Cardinality({}) = 0
  BY ThreadLinksAssumption, FS_EmptySet
<1>2. TypeOK
  <2>1. calls \in [Calls -> [pc : CallPC, tries : 0 .. MaxTries,
                             waits : SUBSET Ids, sentTo : SUBSET Ids]]
    BY <1>1 DEF CallPC
  <2>2. \A S : << >> \in Seq(S)
    OBVIOUS
  <2>3. /\ threads \in Seq(Ids) /\ linkBox \in Seq(Ids) /\ unlinkBox \in Seq({DisposedId})
        /\ relation \in Seq(Ids)
        /\ managerBox \in Seq([kind : {"link", "unlink"}, id : Ids \cup {DisposedId}])
    BY <2>2
  <2>4. /\ starts \in 0 .. Slots + MaxDeaths /\ lastId \in 0 .. Slots + MaxDeaths
        /\ cursor \in Nat /\ cursor = 0
    BY <1>1
  <2>5. /\ alive \subseteq Ids /\ exits \subseteq Ids /\ held \subseteq Ids
        /\ linking \in BOOLEAN /\ known \in BOOLEAN
        /\ tasks \subseteq Tasks /\ inbox \subseteq Tasks /\ answers \subseteq Tasks
        /\ answered \subseteq Tasks /\ late \subseteq Tasks
    BY Zenon
  <2> HIDE DEF Init
  <2> QED BY <2>1, <2>3, <2>4, <2>5 DEF TypeOK
<1>3. TasksExplained /\ Heard
  BY DEF TasksExplained, Heard
<1>4. IdsGiven
  BY <1>1 DEF IdsGiven, Elems
<1>5. NoticesSayNothing /\ NotLinkedTwice
  BY DEF NoticesSayNothing, NotLinkedTwice, Distinct, Elems
<1> QED BY <1>2, <1>3, <1>4, <1>5 DEF Inv

\* The parts of Inv that speak of calls and tasks depend on nothing else.
LEMMA FrameTasks ==
  ASSUME Inv, UNCHANGED <<taskVars, relation>>, alive' \subseteq alive \cup {lastId + 1}
  PROVE  TasksExplained' /\ Heard'
<1>1. TasksExplained'
  BY DEF Inv, TasksExplained, taskVars
<1>2. \A r \in Calls : lastId + 1 \notin calls[r].sentTo
  BY DEF Inv, IdsGiven, TypeOK
<1>3. Heard'
  BY <1>2 DEF Inv, Heard, taskVars
<1> QED BY <1>1, <1>3

LEMMA ExitsFinite ==
  ASSUME Inv
  PROVE  IsFiniteSet(exits)
<1>1. 1 \in Int /\ Slots + MaxDeaths \in Int
  BY ThreadLinksAssumption
<1>2. IsFiniteSet(Ids)
  BY <1>1, FS_Interval DEF Ids
<1> QED BY <1>2, FS_Subset DEF Inv, TypeOK

\* A new worker has an id that nothing names yet.
LEMMA CreateThreadInv ==
  ASSUME Inv, CreateThread
  PROVE  Inv'
<1> DEFINE new == lastId + 1
           m == LinkRequest(new)
<1> USE DEF relationVars
<1>1. /\ lastId \in Nat /\ starts \in Nat /\ starts > 0
      /\ Slots + MaxDeaths \in Nat /\ Cardinality(exits) \in Nat
      /\ lastId + starts + Cardinality(exits) <= Slots + MaxDeaths
  <2>1. Cardinality(exits) \in Nat
    BY ExitsFinite, FS_CardinalityType
  <2>2. Slots + MaxDeaths \in Nat /\ lastId \in Nat /\ starts \in Nat
    BY ThreadLinksAssumption DEF Inv, TypeOK
  <2> QED BY <2>1, <2>2 DEF CreateThread, Inv, IdsGiven
<1>2. /\ lastId' = new /\ starts' = starts - 1 /\ alive' = alive \cup {new}
      /\ threads' = Append(threads, new)
      /\ managerBox' = IF linking THEN Append(managerBox, m) ELSE managerBox
      /\ UNCHANGED <<exits, linking, linkBox, unlinkBox, held, relationVars, taskVars>>
  BY DEF CreateThread
<1>3. new \in Ids /\ m \in Message
  BY <1>1 DEF Ids, Message, LinkRequest
<1>4. managerBox \in Seq(Message) /\ managerBox' \in Seq(Message)
  <2>1. managerBox \in Seq(Message)
    BY DEF Inv, TypeOK, Message
  <2> HIDE DEF m
  <2> QED BY <1>2, <1>3, <2>1
<1>5. threads' \in Seq(Ids) /\ Elems(threads') = Elems(threads) \cup {new}
  BY <1>2, <1>3, RangeOfAppend DEF Inv, TypeOK
<1>6. TypeOK'
  BY <1>1, <1>2, <1>3, <1>4, <1>5, SMTT(20) DEF Inv, TypeOK, taskVars, Message
<1>7. TasksExplained' /\ Heard'
  BY <1>2, FrameTasks
<1>8. \A i \in DOMAIN managerBox' :
          \/ i \in DOMAIN managerBox /\ managerBox'[i] = managerBox[i]
          \/ linking /\ i = Len(managerBox) + 1 /\ managerBox'[i] = m
  BY <1>2, <1>4
<1>9. m.kind = "link" /\ m.id = new
  BY DEF LinkRequest
<1> HIDE DEF m
<1>10. IdsGiven'
  <2>1. 1 .. lastId \subseteq 1 .. lastId' /\ new \in 1 .. lastId'
    BY <1>1, <1>2
  <2>2. \A i \in DOMAIN managerBox' :
            managerBox'[i].kind = "link" => managerBox'[i].id \in 1 .. lastId'
    BY <1>8, <1>9, <2>1 DEF Inv, IdsGiven
  <2>3. alive' \cup exits' \subseteq 1 .. lastId'
    BY <1>2, <2>1 DEF Inv, IdsGiven
  <2>4. Elems(threads') \cup Elems(linkBox') \cup Elems(relation') \subseteq 1 .. lastId'
    BY <1>2, <1>5, <2>1 DEF Inv, IdsGiven
  <2>5. \A r \in Calls : calls'[r].sentTo \subseteq 1 .. lastId'
    BY <1>2, <2>1 DEF Inv, IdsGiven, taskVars
  <2>6. lastId' + starts' + Cardinality(exits') <= Slots + MaxDeaths
    BY <1>1, <1>2
  <2> QED BY <2>2, <2>3, <2>4, <2>5, <2>6 DEF IdsGiven
<1>11. new \notin 1 .. lastId
  BY <1>1
<1>12. NoticesSayNothing'
  BY <1>2, <1>8, <1>9, <1>11 DEF Inv, NoticesSayNothing, IdsGiven
<1>13. NotLinkedTwice'
  <2>1. new \notin Elems(threads) \cup Elems(linkBox) \cup Elems(relation)
        /\ \A i \in DOMAIN managerBox : managerBox[i].kind = "link" => managerBox[i].id # new
    BY <1>11 DEF Inv, IdsGiven
  <2>2. Distinct(threads')
    BY <1>2, <1>3, <2>1, DistinctAppend DEF Inv, NotLinkedTwice, TypeOK
  <2>3. ASSUME NEW i \in DOMAIN managerBox', managerBox'[i].kind = "link"
        PROVE  /\ linking /\ managerBox'[i].id \notin Elems(relation) \cup Elems(linkBox)
               /\ \A j \in DOMAIN managerBox' : managerBox'[j] = managerBox'[i] => j = i
    BY <1>8, <1>9, <2>1, <2>3 DEF Inv, NotLinkedTwice
  <2> QED BY <1>2, <2>2, <2>3 DEF Inv, NotLinkedTwice
<1> QED BY <1>6, <1>7, <1>10, <1>12, <1>13 DEF Inv

\* The links of the workers that run are asked for together, and for the first time.
LEMMA CreateLinkBetweenThreadsInv ==
  ASSUME Inv, CreateLinkBetweenThreads
  PROVE  Inv'
<1> DEFINE ms == [i \in DOMAIN threads |-> LinkRequest(threads[i])]
<1> USE DEF relationVars
<1>1. /\ ~linking /\ linking' = TRUE /\ managerBox' = managerBox \o ms
      /\ UNCHANGED <<alive, threads, starts, lastId, exits, linkBox, unlinkBox, held,
                     relationVars, taskVars>>
  BY DEF CreateLinkBetweenThreads
<1>2. threads \in Seq(Ids) /\ managerBox \in Seq(Message)
  BY DEF Inv, TypeOK, Message
<1>3. ms \in Seq(Message) /\ Len(ms) = Len(threads)
  <2>1. \A w \in Ids : LinkRequest(w) \in Message
    BY DEF LinkRequest, Message
  <2>2. ms \in [1 .. Len(threads) -> Message]
    BY <1>2, <2>1
  <2> HIDE DEF ms
  <2> QED BY <1>2, <2>2
<1>4. managerBox' \in Seq(Message) /\ Len(managerBox') = Len(managerBox) + Len(threads)
  <2> HIDE DEF ms
  <2>1. managerBox \o ms \in Seq(Message)
        /\ Len(managerBox \o ms) = Len(managerBox) + Len(ms)
    BY <1>2, <1>3, ConcatenationIn
  <2> QED BY <1>1, <1>3, <2>1
<1>5. \A i \in DOMAIN managerBox' :
          \/ i \in DOMAIN managerBox /\ managerBox'[i] = managerBox[i]
          \/ /\ i - Len(managerBox) \in DOMAIN threads
             /\ managerBox'[i] = LinkRequest(threads[i - Len(managerBox)])
  <2>1. \A i \in DOMAIN managerBox' :
            \/ i \in DOMAIN managerBox /\ managerBox'[i] = managerBox[i]
            \/ i - Len(managerBox) \in DOMAIN ms /\ managerBox'[i] = ms[i - Len(managerBox)]
    <3> HIDE DEF ms
    <3> QED BY <1>1, <1>2, <1>3, ConcatenationIn
  <2> QED BY <2>1
<1>6. \A w \in Ids : LinkRequest(w).kind = "link" /\ LinkRequest(w).id = w
  BY DEF LinkRequest
<1>7. TypeOK'
  BY <1>1, <1>4 DEF Inv, TypeOK, taskVars, Message
<1>8. TasksExplained' /\ Heard'
  BY <1>1, FrameTasks
<1>9. IdsGiven'
  <2>1. \A i \in DOMAIN threads : threads[i] \in Ids /\ threads[i] \in 1 .. lastId
    BY <1>2 DEF Inv, IdsGiven, Elems
  <2>2. \A i \in DOMAIN managerBox' :
            managerBox'[i].kind = "link" => managerBox'[i].id \in 1 .. lastId
    BY <1>5, <1>6, <2>1 DEF Inv, IdsGiven
  <2> QED BY <1>1, <2>2 DEF Inv, IdsGiven, taskVars
<1>10. NoticesSayNothing'
  BY <1>1, <1>2, <1>5, <1>6 DEF Inv, NoticesSayNothing
<1>11. NotLinkedTwice'
  <2>1. \A i \in DOMAIN managerBox : managerBox[i].kind # "link"
    BY <1>1 DEF Inv, NotLinkedTwice
  <2>2. relation = << >> /\ linkBox = << >> /\ Elems(relation) \cup Elems(linkBox) = {}
    BY <1>1 DEF Inv, NotLinkedTwice, Elems
  <2>3. ASSUME NEW i \in DOMAIN managerBox', managerBox'[i].kind = "link",
               NEW j \in DOMAIN managerBox', managerBox'[j] = managerBox'[i]
        PROVE  j = i
    <3>1. /\ i - Len(managerBox) \in DOMAIN threads
          /\ j - Len(managerBox) \in DOMAIN threads
          /\ managerBox'[i] = LinkRequest(threads[i - Len(managerBox)])
          /\ managerBox'[j] = LinkRequest(threads[j - Len(managerBox)])
      BY <1>5, <2>1, <2>3
    <3>2. threads[i - Len(managerBox)] = threads[j - Len(managerBox)]
      BY <1>2, <1>6, <2>3, <3>1
    <3>3. i - Len(managerBox) = j - Len(managerBox)
      BY <3>1, <3>2 DEF Inv, NotLinkedTwice, Distinct
    <3> QED BY <1>2, <1>4, <3>3
  <2> QED BY <1>1, <2>2, <2>3 DEF Inv, NotLinkedTwice
<1> QED BY <1>7, <1>8, <1>9, <1>10, <1>11 DEF Inv

\* A worker that dies has not exited before.
LEMMA WorkerDiesInv ==
  ASSUME Inv, NEW w \in Ids, WorkerDies(w)
  PROVE  Inv'
<1> USE DEF boxVars, relationVars
<1>1. /\ w \in alive /\ alive' = alive \ {w} /\ exits' = exits \cup {w}
      /\ lastId + starts + Cardinality(exits) < Slots + MaxDeaths
      /\ inbox' \subseteq inbox
      /\ UNCHANGED <<threads, starts, lastId, linking, boxVars, relationVars, tasks,
                     answers, calls, answered, late>>
  BY DEF WorkerDies
<1>2. TypeOK'
  BY <1>1 DEF Inv, TypeOK
<1>3. TasksExplained' /\ Heard'
  BY <1>1 DEF Inv, TasksExplained, Heard
<1>4. lastId' + starts' + Cardinality(exits') <= Slots + MaxDeaths
  <2>1. w \notin exits
    BY <1>1 DEF Inv, NoticesSayNothing
  <2>2. Cardinality(exits \cup {w}) = Cardinality(exits) + 1 /\ Cardinality(exits) \in Nat
    BY <2>1, ExitsFinite, FS_AddElement, FS_CardinalityType
  <2> QED BY <1>1, <2>2, ThreadLinksAssumption DEF Inv, TypeOK
<1>5. IdsGiven'
  BY <1>1, <1>4 DEF Inv, IdsGiven
<1>6. NoticesSayNothing' /\ NotLinkedTwice'
  BY <1>1 DEF Inv, NoticesSayNothing, NotLinkedTwice
<1> QED BY <1>2, <1>3, <1>5, <1>6 DEF Inv

\* The notice has the id of a handle that is gone.
LEMMA OnExitInv ==
  ASSUME Inv, NEW w \in Ids, OnExit(w)
  PROVE  Inv'
<1> DEFINE m == UnlinkThread(DisposedId)
<1> USE DEF relationVars
<1>1. /\ w \in exits /\ exits' = exits \ {w} /\ threads' = Without(threads, w)
      /\ managerBox' = Append(managerBox, m) /\ starts' = starts + 1
      /\ UNCHANGED <<alive, lastId, linking, linkBox, unlinkBox, held, relationVars,
                     taskVars>>
  BY DEF OnExit
<1>2. m \in Message /\ m.kind = "unlink" /\ m.id = DisposedId
  BY DEF Message, UnlinkThread
<1> HIDE DEF m
<1>3. managerBox \in Seq(Message)
  BY DEF Inv, TypeOK, Message
<1>4. managerBox' \in Seq(Message)
  BY <1>1, <1>2, <1>3
<1>5. \A i \in DOMAIN managerBox' :
          \/ i \in DOMAIN managerBox /\ managerBox'[i] = managerBox[i]
          \/ managerBox'[i] = m
  BY <1>1, <1>2, <1>3
<1>6. /\ threads' \in Seq(Ids) /\ Elems(threads') \subseteq Elems(threads)
      /\ Distinct(threads')
  BY <1>1, WithoutRemoves DEF Inv, TypeOK, NotLinkedTwice
<1>7. lastId' + starts' + Cardinality(exits') <= Slots + MaxDeaths /\ Cardinality(exits') \in Nat
  <2>1. Cardinality(exits') = Cardinality(exits) - 1 /\ Cardinality(exits') \in Nat
        /\ Cardinality(exits) \in Nat
    BY <1>1, ExitsFinite, FS_RemoveElement, FS_CardinalityType
  <2> QED BY <1>1, <2>1 DEF Inv, TypeOK, IdsGiven
<1>8. TypeOK'
  BY <1>1, <1>4, <1>6, <1>7, ThreadLinksAssumption DEF Inv, TypeOK, taskVars, Message
<1>9. TasksExplained' /\ Heard'
  BY <1>1, FrameTasks
<1>10. IdsGiven'
  BY <1>1, <1>2, <1>5, <1>6, <1>7 DEF Inv, IdsGiven, taskVars
<1>11. NoticesSayNothing'
  BY <1>1, <1>2, <1>5 DEF Inv, NoticesSayNothing
<1>12. NotLinkedTwice'
  BY <1>1, <1>2, <1>5, <1>6 DEF Inv, NotLinkedTwice
<1> QED BY <1>8, <1>9, <1>10, <1>11, <1>12 DEF Inv

-----------------------------------------------------------------------------
(* The client *)

\* A request or a notice goes from one box to the next.
LEMMA OnParentMessageInv ==
  ASSUME Inv, OnParentMessage
  PROVE  Inv'
<1> DEFINE m == Head(managerBox)
<1> USE DEF poolVars, relationVars
<1>1. managerBox \in Seq(Message) /\ managerBox # << >> /\ managerBox' = Tail(managerBox)
  BY DEF OnParentMessage, Inv, TypeOK, Message
<1>2. /\ managerBox' \in Seq(Message) /\ m \in Message
      /\ 1 \in DOMAIN managerBox /\ m = managerBox[1]
      /\ \A i \in DOMAIN managerBox' :
             i + 1 \in DOMAIN managerBox /\ managerBox'[i] = managerBox[i + 1]
  BY <1>1
<1>3. /\ UNCHANGED <<poolVars, relationVars, taskVars>>
      /\ m.kind = "link" => m.id \in Ids
      /\ m.kind = "unlink" => m.id = DisposedId
  <2>1. m.kind = "link" => m.id \in 1 .. lastId
    BY <1>2 DEF Inv, IdsGiven
  <2>2. 1 .. lastId \subseteq Ids
    BY ThreadLinksAssumption DEF Inv, TypeOK, Ids
  <2> QED BY <1>2, <2>1, <2>2 DEF OnParentMessage, Inv, NoticesSayNothing
<1>4. TasksExplained' /\ Heard'
  BY <1>3, FrameTasks
<1>5. CASE m.kind = "link" /\ linkBox' = Append(linkBox, m.id)
           /\ OnThreadSetLinkPort(m.id) /\ unlinkBox' = unlinkBox
  <2>1. /\ linkBox' \in Seq(Ids) /\ Elems(linkBox') = Elems(linkBox) \cup {m.id}
    BY <1>3, <1>5, RangeOfAppend DEF Inv, TypeOK
  <2>2. m.id \notin Elems(relation) \cup Elems(linkBox) /\ linking
    BY <1>2, <1>5 DEF Inv, NotLinkedTwice
  <2>3. Distinct(linkBox')
    BY <1>3, <1>5, <2>2, DistinctAppend DEF Inv, NotLinkedTwice, TypeOK
  <2>4. held' \subseteq Ids
    BY <1>3, <1>5 DEF Inv, TypeOK, OnThreadSetLinkPort
  <2>5. TypeOK'
    BY <1>2, <1>3, <1>5, <2>1, <2>4 DEF Inv, TypeOK, Message, taskVars
  <2>6. IdsGiven' /\ NoticesSayNothing'
    BY <1>2, <1>3, <1>5, <2>1 DEF Inv, IdsGiven, NoticesSayNothing, taskVars
  <2>7. \A i \in DOMAIN managerBox' : managerBox'[i].kind = "link" => managerBox'[i].id # m.id
    <3> SUFFICES ASSUME NEW i \in DOMAIN managerBox', managerBox'[i].kind = "link",
                        managerBox'[i].id = m.id
                 PROVE  FALSE
      OBVIOUS
    <3>1. managerBox'[i] \in Message
      BY <1>2
    <3>2. managerBox[i + 1] = managerBox[1]
      BY <1>2, <1>5, <3>1 DEF Message
    <3>3. i + 1 = 1
      BY <1>2, <1>5, <3>2 DEF Inv, NotLinkedTwice
    <3> QED BY <1>2, <3>3
  <2>8. NotLinkedTwice'
    BY <1>2, <1>3, <2>1, <2>2, <2>3, <2>7 DEF Inv, NotLinkedTwice
  <2> QED BY <1>4, <2>5, <2>6, <2>8 DEF Inv
<1>6. CASE m.kind = "unlink" /\ unlinkBox' = Append(unlinkBox, m.id)
           /\ UNCHANGED <<linkBox, held>>
  <2>1. unlinkBox' \in Seq({DisposedId})
    <3>1. unlinkBox \in Seq({DisposedId}) /\ m.id \in {DisposedId}
      BY <1>3, <1>6 DEF Inv, TypeOK
    <3> HIDE DEF m
    <3> QED BY <1>6, <3>1
  <2>2. TypeOK'
    BY <1>2, <1>3, <1>6, <2>1 DEF Inv, TypeOK, Message, taskVars
  <2>3. IdsGiven' /\ NoticesSayNothing'
    BY <1>2, <1>3, <1>6, <2>1 DEF Inv, IdsGiven, NoticesSayNothing, taskVars
  <2>4. NotLinkedTwice'
    BY <1>2, <1>3, <1>6 DEF Inv, NotLinkedTwice
  <2> QED BY <1>4, <2>2, <2>3, <2>4 DEF Inv
<1> QED BY <1>5, <1>6 DEF OnParentMessage

\* A port moves from the box to the array.
LEMMA CreateInternalThreadLinkInv ==
  ASSUME Inv, CreateInternalThreadLink
  PROVE  Inv'
<1> DEFINE w == Head(linkBox)
<1> USE DEF poolVars
<1>1. /\ linkBox # << >> /\ linkBox' = Tail(linkBox) /\ relation' = Append(relation, w)
      /\ known' = TRUE
      /\ UNCHANGED <<poolVars, managerBox, unlinkBox, held, cursor, taskVars>>
  BY DEF CreateInternalThreadLink
<1>2. linkBox \in Seq(Ids) /\ relation \in Seq(Ids) /\ Distinct(linkBox) /\ Distinct(relation)
      /\ Elems(relation) \cap Elems(linkBox) = {}
  BY DEF Inv, TypeOK, NotLinkedTwice
<1>3. /\ linkBox' \in Seq(Ids) /\ w \in Ids /\ w \in Elems(linkBox)
      /\ Elems(linkBox') \subseteq Elems(linkBox)
      /\ Distinct(linkBox') /\ w \notin Elems(linkBox')
  BY <1>1, <1>2, RangeOfTail
<1> HIDE DEF w
<1>4. /\ relation' \in Seq(Ids) /\ Elems(relation') = Elems(relation) \cup {w}
      /\ Len(relation') = Len(relation) + 1 /\ Distinct(relation')
  BY <1>1, <1>2, <1>3, RangeOfAppend, DistinctAppend
<1>5. TypeOK'
  <2>1. cursor' \in Nat /\ (cursor' = 0 \/ cursor' < Len(relation'))
    BY <1>1, <1>2, <1>4 DEF Inv, TypeOK
  <2> QED BY <1>1, <1>3, <1>4, <2>1 DEF Inv, TypeOK, taskVars
<1>6. TasksExplained' /\ Heard'
  BY <1>1, <1>4 DEF Inv, TasksExplained, Heard, taskVars
<1>7. IdsGiven' /\ NoticesSayNothing'
  BY <1>1, <1>3, <1>4 DEF Inv, IdsGiven, NoticesSayNothing, taskVars
<1>8. NotLinkedTwice'
  <2>1. linking
    BY <1>1 DEF Inv, NotLinkedTwice
  <2> QED BY <1>1, <1>3, <1>4, <2>1 DEF Inv, NotLinkedTwice
<1> QED BY <1>5, <1>6, <1>7, <1>8 DEF Inv

Call == [pc : CallPC, tries : 0 .. MaxTries, waits : SUBSET Ids, sentTo : SUBSET Ids]

\* What settling the tasks ts does to a caller.
LEMMA SettleEffect ==
  ASSUME Inv, NEW ts \in SUBSET Tasks, calls' = Settle(calls, ts)
  PROVE  /\ calls' \in [Calls -> Call]
         /\ \A r \in Calls :
                /\ calls'[r].waits = {w \in calls[r].waits : <<r, w>> \notin ts}
                /\ calls'[r].sentTo = calls[r].sentTo
                /\ calls'[r].pc # "waiting" => calls'[r].waits = {}
<1>1. calls \in [Calls -> Call]
  BY DEF Inv, TypeOK, Call
<1>2. ASSUME NEW r \in Calls
      PROVE  /\ calls'[r] \in Call
             /\ calls'[r].waits = {w \in calls[r].waits : <<r, w>> \notin ts}
             /\ calls'[r].sentTo = calls[r].sentTo
             /\ calls'[r].pc # "waiting" => calls'[r].waits = {}
  <2> DEFINE gone == {w \in calls[r].waits : <<r, w>> \in ts}
             pc == IF gone # {} /\ gone = calls[r].waits THEN "resolved" ELSE calls[r].pc
  <2>1. calls'[r] = [calls[r] EXCEPT !.waits = @ \ gone, !.pc = pc]
    BY DEF Settle
  <2>2. calls[r] \in Call
    BY <1>1
  <2>3. pc \in CallPC
    BY <2>2 DEF Call, CallPC
  <2>4. calls[r].pc # "waiting" => calls[r].waits = {}
    BY DEF Inv, Heard
  <2>5. calls[r].waits \ gone = {w \in calls[r].waits : <<r, w>> \notin ts}
    OBVIOUS
  <2>6. pc # "waiting" => calls[r].waits \ gone = {}
    BY <2>4
  <2> HIDE DEF gone, pc
  <2>7. /\ calls'[r] \in Call /\ calls'[r].pc = pc
        /\ calls'[r].waits = calls[r].waits \ gone /\ calls'[r].sentTo = calls[r].sentTo
    BY <2>1, <2>2, <2>3 DEF Call
  <2> QED BY <2>5, <2>6, <2>7
<1>3. calls' = [r \in Calls |-> calls'[r]]
  BY DEF Settle
<1> QED BY <1>2, <1>3

\* What names workers depends on calls only through sentTo.
LEMMA FrameLinks ==
  ASSUME Inv, UNCHANGED <<poolVars, boxVars, relation, known>>,
         \A r \in Calls : calls'[r].sentTo \subseteq 1 .. lastId
  PROVE  IdsGiven' /\ NoticesSayNothing' /\ NotLinkedTwice'
  BY DEF Inv, IdsGiven, NoticesSayNothing, NotLinkedTwice, poolVars, boxVars

\* No port has the id of the notice: nothing changes.
LEMMA OnUnlinkThreadInv ==
  ASSUME Inv, OnUnlinkThread
  PROVE  Inv'
<1> DEFINE w == Head(unlinkBox)
           ts == {t \in tasks : t[2] = w}
<1> USE DEF poolVars
<1>1. /\ unlinkBox # << >> /\ unlinkBox' = Tail(unlinkBox)
      /\ relation' = Without(relation, w)
      /\ cursor' = IF w \in Elems(relation) THEN 0 ELSE cursor
      /\ tasks' = {t \in tasks : t[2] # w} /\ calls' = Settle(calls, ts)
      /\ UNCHANGED <<poolVars, managerBox, linkBox, held, known, inbox, answers, answered, late>>
  BY DEF OnUnlinkThread
<1>2. unlinkBox' \in Seq({DisposedId}) /\ w = DisposedId
  <2>1. unlinkBox' \in Seq({DisposedId}) /\ w \in {DisposedId}
    BY <1>1, RangeOfTail DEF Inv, TypeOK
  <2> QED BY <2>1
<1>3. w \notin Ids
  BY <1>2 DEF Ids, DisposedId
<1> HIDE DEF w
<1>4. w \notin Elems(relation) /\ ts = {}
  BY <1>3 DEF Inv, TypeOK, Elems, Tasks
<1>5. relation' = relation /\ cursor' = cursor /\ tasks' = tasks
  <2>1. tasks' = tasks
    BY <1>1, <1>4
  <2> QED BY <1>1, <1>4, <2>1 DEF Without
<1>6. /\ calls' \in [Calls -> Call]
      /\ \A r \in Calls :
             /\ calls'[r].waits = {v \in calls[r].waits : <<r, v>> \notin {}}
             /\ calls'[r].sentTo = calls[r].sentTo
             /\ calls'[r].pc # "waiting" => calls'[r].waits = {}
  <2>1. calls' = Settle(calls, {})
    BY <1>1, <1>4
  <2>2. {} \in SUBSET Tasks
    OBVIOUS
  <2> HIDE DEF ts
  <2> QED BY <2>1, <2>2, SettleEffect
<1>7. \A r \in Calls : calls'[r].waits = calls[r].waits
  BY <1>6
<1>8. TypeOK'
  BY <1>1, <1>2, <1>5, <1>6 DEF Inv, TypeOK, Call
<1>9. TasksExplained'
  <2>1. \A t \in tasks : t[1] \in Calls
    BY DEF Inv, TypeOK, Tasks
  <2> QED BY <1>1, <1>5, <1>7, <2>1 DEF Inv, TasksExplained
<1>10. Heard'
  BY <1>1, <1>6, <1>7 DEF Inv, Heard
<1>11. IdsGiven' /\ NoticesSayNothing' /\ NotLinkedTwice'
  BY <1>1, <1>5, <1>6 DEF Inv, IdsGiven, NoticesSayNothing, NotLinkedTwice
<1> QED BY <1>8, <1>9, <1>10, <1>11 DEF Inv

\* Messages are sent to linked workers only.
LEMMA SendMessageInv ==
  ASSUME Inv, NEW r \in Calls, NEW ws \in SUBSET Elems(relation), SendMessage(r, ws), calls[r].pc # "waiting",
         cursor' \in Nat, cursor' = 0 \/ cursor' < Len(relation),
         UNCHANGED <<poolVars, boxVars, relation, known, answers, answered, late>>
  PROVE  Inv'
<1> USE DEF poolVars, boxVars
<1>1. ws \subseteq Ids /\ ws \subseteq 1 .. lastId
  BY DEF Inv, TypeOK, IdsGiven, Elems
<1>2. {r} \X ws \subseteq Tasks
  BY <1>1 DEF Tasks
<1>3. /\ calls' \in [Calls -> Call]
      /\ \A c \in Calls \ {r} : calls'[c] = calls[c]
      /\ calls'[r].waits = ws /\ calls'[r].sentTo = ws
      /\ calls'[r].pc # "waiting" => ws = {}
  BY <1>1 DEF SendMessage, Inv, TypeOK, Call, CallPC
<1>4. tasks' = tasks \cup {r} \X ws /\ inbox' = inbox \cup {r} \X ws
  BY DEF SendMessage
<1>5. TypeOK'
  BY <1>2, <1>3, <1>4 DEF Inv, TypeOK, Call
<1>6. TasksExplained' /\ Heard'
  <2>1. \A t \in tasks : t[1] \in Calls /\ t = <<t[1], t[2]>>
    BY DEF Inv, TypeOK, Tasks
  <2>2. calls[r].waits = {}
    BY DEF Inv, Heard
  <2>3. \A t \in tasks' : t[2] \in calls'[t[1]].waits \/ t \in late'
    BY <1>3, <1>4, <2>1, <2>2 DEF Inv, TasksExplained
  <2>4. \A c \in Calls : \A w \in calls'[c].waits : <<c, w>> \in tasks'
    BY <1>3, <1>4 DEF Inv, TasksExplained
  <2> QED BY <1>3, <2>3, <2>4 DEF Inv, TasksExplained, Heard
<1>7. \A c \in Calls : calls'[c].sentTo \subseteq 1 .. lastId
  BY <1>1, <1>3 DEF Inv, IdsGiven
<1> QED BY <1>5, <1>6, <1>7, FrameLinks DEF Inv

\* A call that finds no port has written to nobody.
LEMMA TryAgainInv ==
  ASSUME Inv, NEW r \in Calls, NEW ending \in {"rejected", "lost"}, TryAgain(r, ending), calls[r].pc # "waiting",
         UNCHANGED <<poolVars, boxVars, relation, known, answers, answered, late>>
  PROVE  Inv'
<1> USE DEF poolVars, boxVars, TryAgain
<1>1. /\ calls' \in [Calls -> Call]
      /\ \A c \in Calls : /\ calls'[c].waits = calls[c].waits
                          /\ calls'[c].sentTo = calls[c].sentTo
                          /\ calls'[c].pc # "waiting" => calls[c].pc # "waiting"
  <2>1. calls[r] \in Call /\ calls \in [Calls -> Call]
    BY DEF Inv, TypeOK, Call
  <2> DEFINE new == IF calls[r].tries < MaxTries
                    THEN [calls[r] EXCEPT !.pc = "retry", !.tries = @ + 1]
                    ELSE [calls[r] EXCEPT !.pc = ending]
  <2>2. calls' = [calls EXCEPT ![r] = new]
    OBVIOUS
  <2>3. /\ new \in Call /\ new.waits = calls[r].waits /\ new.sentTo = calls[r].sentTo
    <3>1. CASE calls[r].tries < MaxTries
      <4>1. new = [calls[r] EXCEPT !.pc = "retry", !.tries = calls[r].tries + 1]
        BY <3>1
      <4>2. calls[r].tries + 1 \in 0 .. MaxTries
        BY <2>1, <3>1, ThreadLinksAssumption DEF Call
      <4> HIDE DEF new
      <4> QED BY <2>1, <4>1, <4>2 DEF Call, CallPC
    <3>2. CASE ~(calls[r].tries < MaxTries)
      <4>1. new = [calls[r] EXCEPT !.pc = ending]
        BY <3>2
      <4> HIDE DEF new
      <4> QED BY <2>1, <4>1 DEF Call, CallPC
    <3> QED BY <3>1, <3>2
  <2> HIDE DEF new
  <2> QED BY <2>1, <2>2, <2>3
<1>2. TypeOK'
  BY <1>1 DEF Inv, TypeOK, Call
<1>3. TasksExplained' /\ Heard'
  <2>1. \A t \in tasks : t[1] \in Calls
    BY DEF Inv, TypeOK, Tasks
  <2> QED BY <1>1, <2>1 DEF Inv, TasksExplained, Heard
<1>4. \A c \in Calls : calls'[c].sentTo \subseteq 1 .. lastId
  BY <1>1 DEF Inv, IdsGiven
<1> QED BY <1>2, <1>3, <1>4, FrameLinks DEF Inv

\* The cursor is reduced to the length of the array before and after its use.
LEMMA SendMessageToThreadInv ==
  ASSUME Inv, NEW r \in Calls, SendMessageToThread(r)
  PROVE  Inv'
<1>1. CASE relation # << >>
  <2> DEFINE i == cursor % Len(relation)
  <2>1. relation \in Seq(Ids) /\ Len(relation) \in Nat \ {0} /\ cursor \in Nat
    BY <1>1 DEF Inv, TypeOK
  <2>2. i \in 0 .. Len(relation) - 1
    BY <2>1
  <2>3. (i + 1) % Len(relation) \in 0 .. Len(relation) - 1
    <3> HIDE DEF i
    <3> QED BY <2>1, <2>2
  <2>4. cursor' = (i + 1) % Len(relation) /\ SendMessage(r, {relation[i + 1]})
        /\ UNCHANGED <<poolVars, boxVars, relation, known, answers, answered, late>>
    BY <1>1 DEF SendMessageToThread
  <2>6. calls[r].pc # "waiting"
    BY DEF SendMessageToThread
  <2> HIDE DEF i
  <2>5. {relation[i + 1]} \in SUBSET Elems(relation)
    BY <2>1, <2>2 DEF Elems
  <2> QED BY <2>1, <2>3, <2>4, <2>5, <2>6, SendMessageInv
<1>2. CASE relation = << >>
  BY <1>2, TryAgainInv DEF SendMessageToThread
<1> QED BY <1>1, <1>2

LEMMA SendMessageToAllThreadsInv ==
  ASSUME Inv, NEW r \in Calls, SendMessageToAllThreads(r)
  PROVE  Inv'
<1>1. CASE known
  <2>1. cursor' = cursor /\ SendMessage(r, Elems(relation))
        /\ UNCHANGED <<poolVars, boxVars, relation, known, answers, answered, late>>
    BY <1>1 DEF SendMessageToAllThreads
  <2>3. calls[r].pc # "waiting"
    BY DEF SendMessageToAllThreads
  <2>2. cursor' \in Nat /\ (cursor' = 0 \/ cursor' < Len(relation))
    BY <2>1 DEF Inv, TypeOK
  <2> QED BY <2>1, <2>2, <2>3, SendMessageInv
<1>2. CASE ~known
  BY <1>2, TryAgainInv DEF SendMessageToAllThreads
<1> QED BY <1>1, <1>2

-----------------------------------------------------------------------------
(* Answers *)

\* Whoever is not waited for any more has answered.
LEMMA OnThreadResponseInv ==
  ASSUME Inv, NEW t \in Tasks, OnThreadResponse(t)
  PROVE  Inv'
<1> USE DEF poolVars, boxVars, relationVars
<1>1. /\ t \in answers /\ answers' = answers \ {t} /\ tasks' = tasks \ {t}
      /\ calls' = Settle(calls, tasks \cap {t})
      /\ UNCHANGED <<poolVars, boxVars, relationVars, inbox, answered, late>>
  BY DEF OnThreadResponse
<1>2. /\ calls' \in [Calls -> Call]
      /\ \A r \in Calls :
             /\ calls'[r].waits = {w \in calls[r].waits : <<r, w>> \notin tasks \cap {t}}
             /\ calls'[r].sentTo = calls[r].sentTo
             /\ calls'[r].pc # "waiting" => calls'[r].waits = {}
  BY <1>1, SettleEffect
<1>3. t \in answered
  BY <1>1 DEF Inv, Heard
<1>4. TypeOK'
  BY <1>1, <1>2 DEF Inv, TypeOK, Call
<1>5. TasksExplained'
  <2>1. \A x \in tasks : x[1] \in Calls /\ x = <<x[1], x[2]>>
    BY DEF Inv, TypeOK, Tasks
  <2>2. \A x \in tasks' : x[2] \in calls'[x[1]].waits \/ x \in late
    <3> SUFFICES ASSUME NEW x \in tasks, x # t, x \notin late
                 PROVE  x[2] \in calls'[x[1]].waits
      BY <1>1
    <3>1. x[2] \in calls[x[1]].waits /\ <<x[1], x[2]>> # t
      BY <2>1 DEF Inv, TasksExplained
    <3> QED BY <1>2, <2>1, <3>1
  <2>3. \A r \in Calls : \A w \in calls'[r].waits : <<r, w>> \in tasks'
    BY <1>1, <1>2 DEF Inv, TasksExplained
  <2> QED BY <1>1, <2>2, <2>3 DEF TasksExplained
<1>6. Heard'
  BY <1>1, <1>2, <1>3 DEF Inv, Heard
<1>7. \A r \in Calls : calls'[r].sentTo \subseteq 1 .. lastId
  BY <1>2 DEF Inv, IdsGiven
<1> QED BY <1>1, <1>4, <1>5, <1>6, <1>7, FrameLinks DEF Inv

\* Or is late.
LEMMA TaskTimesOutInv ==
  ASSUME Inv, NEW t \in Tasks, TaskTimesOut(t)
  PROVE  Inv'
<1> USE DEF poolVars, boxVars, relationVars
<1>1. /\ t \in tasks /\ late' = late \cup {t} /\ calls' = Settle(calls, {t})
      /\ UNCHANGED <<poolVars, boxVars, relationVars, tasks, inbox, answers, answered>>
  BY DEF TaskTimesOut
<1>2. /\ calls' \in [Calls -> Call]
      /\ \A r \in Calls :
             /\ calls'[r].waits = {w \in calls[r].waits : <<r, w>> \notin {t}}
             /\ calls'[r].sentTo = calls[r].sentTo
             /\ calls'[r].pc # "waiting" => calls'[r].waits = {}
  BY <1>1, SettleEffect
<1>3. TypeOK'
  BY <1>1, <1>2 DEF Inv, TypeOK, Call
<1>4. TasksExplained' /\ Heard'
  <2>1. \A x \in tasks : x[1] \in Calls /\ x = <<x[1], x[2]>>
    BY DEF Inv, TypeOK, Tasks
  <2>2. TasksExplained'
    <3>1. \A x \in tasks : x[2] \in calls'[x[1]].waits \/ x \in late'
      <4> SUFFICES ASSUME NEW x \in tasks, x # t, x \notin late
                   PROVE  x[2] \in calls'[x[1]].waits
        BY <1>1
      <4>1. x[2] \in calls[x[1]].waits /\ <<x[1], x[2]>> # t
        BY <2>1 DEF Inv, TasksExplained
      <4> QED BY <1>2, <2>1, <4>1
    <3>2. \A r \in Calls : \A w \in calls'[r].waits : <<r, w>> \in tasks
      BY <1>2 DEF Inv, TasksExplained
    <3> QED BY <1>1, <3>1, <3>2 DEF TasksExplained
  <2> QED BY <1>1, <1>2, <2>2 DEF Inv, Heard
<1>5. \A r \in Calls : calls'[r].sentTo \subseteq 1 .. lastId
  BY <1>2 DEF Inv, IdsGiven
<1> QED BY <1>1, <1>3, <1>4, <1>5, FrameLinks DEF Inv

LEMMA OnEventMessageInv ==
  ASSUME Inv, NEW t \in Tasks, OnEventMessage(t)
  PROVE  Inv'
<1> USE DEF poolVars, boxVars, relationVars, OnEventMessage
<1>1. TypeOK'
  BY DEF Inv, TypeOK
<1>2. TasksExplained' /\ Heard'
  BY DEF Inv, TasksExplained, Heard
<1>3. \A r \in Calls : calls'[r].sentTo \subseteq 1 .. lastId
  BY DEF Inv, IdsGiven
<1> QED BY <1>1, <1>2, <1>3, FrameLinks DEF Inv

-----------------------------------------------------------------------------
LEMMA NextInv ==
  ASSUME Inv, [Next]_vars
  PROVE  Inv'
<1>1. CASE UNCHANGED vars
  <2>1. TypeOK'
    BY <1>1 DEF Inv, TypeOK, vars, poolVars, boxVars, relationVars, taskVars
  <2> QED BY <1>1, <2>1
      DEF Inv, TasksExplained, IdsGiven, NoticesSayNothing, NotLinkedTwice, Heard,
          vars, poolVars, boxVars, relationVars, taskVars
<1>2. CASE Next
  <2>1. CASE Pool
    BY <2>1, CreateThreadInv, CreateLinkBetweenThreadsInv, OnExitInv DEF Pool
  <2>2. CASE Client
    BY <2>2, CreateInternalThreadLinkInv, OnUnlinkThreadInv DEF Client
  <2>3. CASE Deliver
    BY <2>3, OnThreadResponseInv, TaskTimesOutInv, OnEventMessageInv DEF Deliver
  <2> QED BY <1>2, <2>1, <2>2, <2>3, OnParentMessageInv, WorkerDiesInv,
             SendMessageToThreadInv, SendMessageToAllThreadsInv DEF Next
<1> QED BY <1>1, <1>2

\* sendMessageToAllThreads resolves only when every worker it wrote to has
\* answered or has taken more than 240 seconds, each worker through the one port it
\* has; the table of tasks holds nothing but what is waited for or was given up, and
\* the round-robin cursor stays in its array.
THEOREM BroadcastsAreHeard == Spec => []CallersServed
<1>1. Inv => CallersServed
  BY DEF Inv, CallersServed, Heard, BroadcastHeard, NotLinkedTwice, Distinct, LinkedOnce
<1> QED BY <1>1, InitInv, NextInv, PTL DEF Spec
=============================================================================
