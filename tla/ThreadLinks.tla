----------------------------- MODULE ThreadLinks -----------------------------
(***************************************************************************)
(* Messages between worker threads (Thread, Threader, ThreadManager, Core):*)
(* a thread of one pool, the client, sends requests to the workers of      *)
(* another pool over ports of their own.  The pool of the workers asks for *)
(* the links; a worker that dies is replaced, and a notice that is to      *)
(* unlink it goes round.  A port is named after the worker at its other    *)
(* end.                                                                    *)
(*                                                                         *)
(* The client is up before the first link is asked for, which is what the  *)
(* six seconds ThreadManager waits are for, and does not die.              *)
(***************************************************************************)
EXTENDS Integers, Sequences, FiniteSets

CONSTANTS
    Slots,       \* maxInstance of the workers' pool
    Single,      \* the calls of sendMessageToThread
    Broadcasts,  \* the calls of sendMessageToAllThreads
    MaxTries,    \* 5: how often a call is tried again when there is no port
    MaxDeaths    \* bound: how many workers die

ASSUME ThreadLinksAssumption ==
    /\ Slots \in Nat \ {0} /\ MaxTries \in Nat /\ MaxDeaths \in Nat
    /\ Single \cap Broadcasts = {}

Ids == 1 .. Slots + MaxDeaths
Calls == Single \cup Broadcasts
Tasks == Calls \X Ids

VARIABLES
    alive,       \* the workers that run
    threads,     \* Threader.threads of their pool
    starts,      \* createThread calls whose timer runs
    lastId,      \* the last thread id given
    exits,       \* the workers whose exit event is still to come
    linking,     \* whether linkThreadTypes names the client's type
    managerBox,  \* from the workers' manager to the client's, through Core
    linkBox,     \* from the client's manager, over the worker's own port
    unlinkBox,   \* from the client's manager, over the subChannel
    held,        \* the workers that have their end of the port
    relation,    \* client: threadRelationsArray, portMeta has the same ports
    known,       \* client: whether threadRelationsArray has the type at all
    cursor,      \* client: availableThreads
    tasks,       \* client: the table of tasks
    inbox,       \* requests on their way to a worker
    answers,     \* responses on their way to the client
    calls,       \* the callers
    answered,    \* history: the tasks a worker has answered
    late         \* history: the tasks given up after 240 seconds

poolVars == <<alive, threads, starts, lastId, exits, linking>>
boxVars == <<managerBox, linkBox, unlinkBox, held>>
relationVars == <<relation, known, cursor>>
taskVars == <<tasks, inbox, answers, calls, answered, late>>
vars == <<poolVars, boxVars, relationVars, taskVars>>

Elems(s) == {s[i] : i \in DOMAIN s}

IndexOf(s, w) ==
    CHOOSE i \in DOMAIN s : s[i] = w /\ \A j \in 1 .. i - 1 : s[j] # w

\* splice(indexOf(w), 1): no thread is listed twice.
Without(s, w) ==
    LET i == IndexOf(s, w)
    IN  IF w \notin Elems(s) THEN s
        ELSE [j \in 1 .. Len(s) - 1 |-> IF j < i THEN s[j] ELSE s[j + 1]]

\* worker.threadId once the worker has exited: Node has disposed of its handle
\* before it emits the exit event.
DisposedId == -1

LinkRequest(w) == [kind |-> "link", id |-> w]
UnlinkThread(id) == [kind |-> "unlink", id |-> id]

-----------------------------------------------------------------------------
(* The workers' pool: Threader *)

\* Mutant: a new worker is not linked.
CreateThreadUnlinked ==
    /\ starts > 0
    /\ starts' = starts - 1
    /\ lastId' = lastId + 1
    /\ alive' = alive \cup {lastId'}
    /\ threads' = Append(threads, lastId')
    /\ UNCHANGED <<exits, linking, boxVars, relationVars, taskVars>>

\* createThread: the worker is online; linkAllThreads asks for its links.
CreateThread ==
    /\ starts > 0
    /\ starts' = starts - 1
    /\ lastId' = lastId + 1
    /\ alive' = alive \cup {lastId'}
    /\ threads' = Append(threads, lastId')
    /\ managerBox' = IF linking THEN Append(managerBox, LinkRequest(lastId'))
                     ELSE managerBox
    /\ UNCHANGED <<exits, linking, linkBox, unlinkBox, held, relationVars,
                   taskVars>>

\* createLinkBetweenThreads, six seconds after the manager started.
CreateLinkBetweenThreads ==
    /\ ~linking
    /\ linking' = TRUE
    /\ managerBox' = managerBox \o [i \in DOMAIN threads |-> LinkRequest(threads[i])]
    /\ UNCHANGED <<alive, threads, starts, lastId, exits, linkBox, unlinkBox, held, relationVars, taskVars>>

\* A worker dies with what it has not answered.
WorkerDies(w) ==
    /\ w \in alive
    /\ lastId + starts + Cardinality(exits) < Slots + MaxDeaths
    /\ alive' = alive \ {w}
    /\ exits' = exits \cup {w}
    /\ inbox' = {t \in inbox : t[2] # w}
    /\ UNCHANGED <<threads, starts, lastId, linking, boxVars, relationVars, tasks,
                   answers, calls, answered, late>>

\* The exit event: UNLINK_THREAD for everybody, and a new worker in a second.
\* findIndex compares the disposed id with that of every listed worker, and only
\* the one that exits has it; in the notice the id says nothing to anybody else.
OnExit(w) ==
    /\ w \in exits
    /\ exits' = exits \ {w}
    /\ threads' = Without(threads, w)
    /\ managerBox' = Append(managerBox, UnlinkThread(DisposedId))
    /\ starts' = starts + 1
    /\ UNCHANGED <<alive, lastId, linking, linkBox, unlinkBox, held,
                   relationVars, taskVars>>

-----------------------------------------------------------------------------
(* The client's manager *)

\* onThreadSetLinkPort at the workers' manager: a worker that is gone does not
\* get its end.  What is posted on a port waits for it, so its way to the worker
\* takes no step of its own.
OnThreadSetLinkPort(w) == held' = IF w \in Elems(threads) THEN held \cup {w} ELSE held

\* onLinkThreadRequest creates a channel and sends out its two ends;
\* broadcastUnlinkThread forwards the notice, but over the subChannel.
OnParentMessage ==
    /\ managerBox # << >>
    /\ managerBox' = Tail(managerBox)
    /\ LET m == Head(managerBox) IN
       \/ /\ m.kind = "link"
          /\ linkBox' = Append(linkBox, m.id)
          /\ OnThreadSetLinkPort(m.id)
          /\ UNCHANGED unlinkBox
       \/ /\ m.kind = "unlink"
          /\ unlinkBox' = Append(unlinkBox, m.id)
          /\ UNCHANGED <<linkBox, held>>
    /\ UNCHANGED <<poolVars, relationVars, taskVars>>

-----------------------------------------------------------------------------
(* The client: Thread *)

\* createInternalThreadLink.
CreateInternalThreadLink ==
    /\ linkBox # << >>
    /\ linkBox' = Tail(linkBox)
    /\ relation' = Append(relation, Head(linkBox))
    /\ known' = TRUE
    /\ UNCHANGED <<poolVars, managerBox, unlinkBox, held, cursor, taskVars>>

\* Mutant: a call ends with the first answer, Promise.race for Promise.safeAll.
SettleFirst(cs, ts) ==
    [r \in Calls |->
        LET gone == {w \in cs[r].waits : <<r, w>> \in ts} IN
        [cs[r] EXCEPT !.waits = IF gone # {} THEN {} ELSE @,
                      !.pc = IF gone # {} THEN "resolved" ELSE @]]

\* The promises of the tasks ts are resolved: a call ends with its last one.
Settle(cs, ts) ==
    [r \in Calls |->
        LET gone == {w \in cs[r].waits : <<r, w>> \in ts} IN
        [cs[r] EXCEPT !.waits = @ \ gone,
                      !.pc = IF gone # {} /\ gone = cs[r].waits THEN "resolved" ELSE @]]

\* onUnlinkThread: the port with the id of the notice goes, its tasks are resolved
\* with null and the cursor is reset.  No port has the id that notices carry.
OnUnlinkThread ==
    /\ unlinkBox # << >>
    /\ unlinkBox' = Tail(unlinkBox)
    /\ LET w == Head(unlinkBox) IN
       /\ relation' = Without(relation, w)
       /\ cursor' = IF w \in Elems(relation) THEN 0 ELSE cursor
       /\ tasks' = {t \in tasks : t[2] # w}
       /\ calls' = Settle(calls, {t \in tasks : t[2] = w})
    /\ UNCHANGED <<poolVars, managerBox, linkBox, held, known, inbox, answers,
                   answered, late>>

\* sendMessage to each of the workers ws.
SendMessage(r, ws) ==
    /\ tasks' = tasks \cup {r} \X ws
    /\ inbox' = inbox \cup {r} \X ws
    /\ calls' = [calls EXCEPT ![r] = [@ EXCEPT !.pc = IF ws = {} THEN "resolved" ELSE "waiting",
                                               !.waits = ws, !.sentTo = ws]]

\* No port: half a second later the call is tried again, the last time it ends.
TryAgain(r, ending) ==
    /\ LET call == calls[r]
       IN  calls' = [calls EXCEPT ![r] =
                        IF call.tries < MaxTries
                        THEN [call EXCEPT !.pc = "retry", !.tries = @ + 1]
                        ELSE [call EXCEPT !.pc = ending]]
    /\ UNCHANGED <<cursor, tasks, inbox>>

\* getNextAvailableThread and sendMessageToThread.
SendMessageToThread(r) ==
    /\ r \in Single
    /\ calls[r].pc \in {"new", "retry"}
    /\ \/ /\ relation # << >>
          /\ LET i == cursor % Len(relation) IN
             /\ cursor' = (i + 1) % Len(relation)
             /\ SendMessage(r, {relation[i + 1]})
       \/ /\ relation = << >>
          /\ TryAgain(r, "rejected")
    /\ UNCHANGED <<poolVars, boxVars, relation, known, answers, answered, late>>

\* sendMessageToAllThreads.  Nobody catches the rejection of the last attempt
\* for the caller, whose promise is never settled.
SendMessageToAllThreads(r) ==
    /\ r \in Broadcasts
    /\ calls[r].pc \in {"new", "retry"}
    /\ \/ /\ known
          /\ SendMessage(r, Elems(relation))
          /\ UNCHANGED cursor
       \/ /\ ~known
          /\ TryAgain(r, "lost")
    /\ UNCHANGED <<poolVars, boxVars, relation, known, answers, answered, late>>

\* onThreadResponse: a task that is not in the table any more is only logged.
OnThreadResponse(t) ==
    /\ t \in answers
    /\ answers' = answers \ {t}
    /\ tasks' = tasks \ {t}
    /\ calls' = Settle(calls, tasks \cap {t})
    /\ UNCHANGED <<poolVars, boxVars, relationVars, inbox, answered, late>>

\* The timeout of sendMessage: null for the caller; the task stays in the table.
TaskTimesOut(t) ==
    /\ t \in tasks
    /\ t[2] \in calls[t[1]].waits
    /\ calls' = Settle(calls, {t})
    /\ late' = late \cup {t}
    /\ UNCHANGED <<poolVars, boxVars, relationVars, tasks, inbox, answers, answered>>

\* onEventMessage of a worker: a handler that throws or returns nothing does
\* not answer.
OnEventMessage(t) ==
    /\ t \in inbox
    /\ t[2] \in alive \cap held
    /\ inbox' = inbox \ {t}
    /\ \/ /\ answers' = answers \cup {t}
          /\ answered' = answered \cup {t}
       \/ UNCHANGED <<answers, answered>>
    /\ UNCHANGED <<poolVars, boxVars, relationVars, tasks, calls, late>>

-----------------------------------------------------------------------------
Init ==
    /\ alive = {} /\ threads = << >> /\ starts = Slots /\ lastId = 0
    /\ exits = {} /\ linking = FALSE
    /\ managerBox = << >> /\ linkBox = << >> /\ unlinkBox = << >>
    /\ held = {}
    /\ relation = << >> /\ known = FALSE /\ cursor = 0
    /\ tasks = {} /\ inbox = {} /\ answers = {}
    /\ calls = [r \in Calls |-> [pc |-> "new", tries |-> 0, waits |-> {}, sentTo |-> {}]]
    /\ answered = {} /\ late = {}

Pool == CreateThread \/ CreateLinkBetweenThreads \/ \E w \in Ids : OnExit(w)

Client == CreateInternalThreadLink \/ OnUnlinkThread

SendAgain == \E r \in Calls :
    calls[r].pc = "retry" /\ (SendMessageToThread(r) \/ SendMessageToAllThreads(r))

Deliver == \E t \in Tasks : OnThreadResponse(t) \/ TaskTimesOut(t) \/ OnEventMessage(t)

Next ==
    \/ Pool \/ OnParentMessage \/ Client \/ Deliver
    \/ \E w \in Ids : WorkerDies(w)
    \/ \E r \in Calls : SendMessageToThread(r) \/ SendMessageToAllThreads(r)

Spec == Init /\ [][Next]_vars

\* Timers fire and messages arrive; a handler ends, one way or the other.
Fairness ==
    /\ WF_vars(Pool) /\ WF_vars(OnParentMessage) /\ WF_vars(Client)
    /\ WF_vars(SendAgain) /\ WF_vars(Deliver)

FairSpec == Spec /\ Fairness

-----------------------------------------------------------------------------
(* Properties *)

CallPC == {"new", "retry", "waiting", "resolved", "rejected", "lost"}

\* Every variable has its type; the round-robin cursor of getNextAvailableThread
\* stays inside the array of ports.
TypeOK ==
    /\ alive \subseteq Ids /\ exits \subseteq Ids /\ held \subseteq Ids
    /\ threads \in Seq(Ids) /\ linkBox \in Seq(Ids) /\ unlinkBox \in Seq({DisposedId})
    /\ relation \in Seq(Ids)
    /\ managerBox \in Seq([kind : {"link", "unlink"}, id : Ids \cup {DisposedId}])
    /\ starts \in 0 .. Slots + MaxDeaths /\ lastId \in 0 .. Slots + MaxDeaths
    /\ linking \in BOOLEAN /\ known \in BOOLEAN
    /\ cursor \in Nat /\ (cursor = 0 \/ cursor < Len(relation))
    /\ tasks \subseteq Tasks /\ inbox \subseteq Tasks /\ answers \subseteq Tasks
    /\ answered \subseteq Tasks /\ late \subseteq Tasks
    /\ calls \in [Calls -> [pc : CallPC, tries : 0 .. MaxTries,
                            waits : SUBSET Ids, sentTo : SUBSET Ids]]

\* No worker has two ports at the client, however the links of the first workers
\* and of the replacements are asked for: CHAIN_REORG reaches a worker once.
LinkedOnce == \A i, j \in DOMAIN relation : relation[i] = relation[j] => i = j

\* Whoever waits has a task in the table; a task nobody waits for was given up
\* after 240 seconds and not answered, which is all that stays in the table.
TasksExplained ==
    /\ \A r \in Calls : \A w \in calls[r].waits : <<r, w>> \in tasks
    /\ \A t \in tasks : t[2] \in calls[t[1]].waits \/ t \in late

\* When a call resolves, every worker it wrote to has answered or took more than
\* 240 seconds.  The death of a worker ends no call before that: its port stays,
\* and whatever is sent to it waits for the timer.
BroadcastHeard ==
    \A r \in Calls : calls[r].pc = "resolved" =>
        \A w \in calls[r].sentTo : <<r, w>> \in answered \cup late

(***************************************************************************)
(* A broadcast ends only when every port it was written to was heard or    *)
(* waited for, each worker through one port, and the table of tasks holds  *)
(* nothing else.  revertChain relies on it: the purge follows the          *)
(* CHAIN_REORG broadcast.  The cursor of TypeOK stays in its array.        *)
(***************************************************************************)
CallersServed == TypeOK /\ LinkedOnce /\ TasksExplained /\ BroadcastHeard

\* A call that has begun is settled, whatever handlers do and workers die; only
\* a broadcast that never found a port is not.
CallSettles ==
    \A r \in Calls :
        calls[r].pc \in {"retry", "waiting"}
            ~> calls[r].pc \in {"resolved", "rejected", "lost"}

\* Every worker that stays alive ends up linked, at both ends: the ones that
\* replace a dead worker too.
WorkersLinked == <>[](\A w \in alive : w \in held /\ w \in Elems(relation))

\* The death of a worker is overcome: its callers give up and its replacement is
\* linked.
LinksSettle == CallSettles /\ WorkersLinked
=============================================================================
