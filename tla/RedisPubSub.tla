---------------------------- MODULE RedisPubSub ----------------------------
(***************************************************************************)
(* CXXRedisPublisher and CXXRedisSubscriber with their main() programs.    *)
(* The main thread makes the context and then gives it commands; a         *)
(* detached event thread, held back by a semaphore until the callbacks are *)
(* set, does the rest.  From then on both threads work on the context, and *)
(* nothing keeps them apart.                                               *)
(***************************************************************************)
EXTENDS Hiredis

VARIABLES
  main,    \* main[p]: where the main thread is
  event,   \* event[p]: where event_proc() is
  sem,     \* sem[p]: the value of _event_sem
  given,   \* given[p]: how many commands redisAsyncCommand() has accepted
  seen,    \* seen[p]: obuf, as redisAsyncCommand() has read it
  written, \* written[p]: how much of obuf the event thread has written
  heard,   \* heard[s]: the calls of _notify_message_fn()
  raced    \* history: clients whose context both threads were in at a time

local == <<seen, written>>
vars == <<redisVars, main, event, sem, given, local, heard, raced>>

Init ==
  /\ RedisInit
  /\ main = [p \in Clients |-> "init"] /\ event = [p \in Clients |-> "none"]
  /\ sem = [p \in Clients |-> 0] /\ given = [p \in Clients |-> 0]
  /\ seen = [p \in Clients |-> << >>] /\ written = [p \in Clients |-> 0]
  /\ heard = [s \in Subscribers |-> << >>]
  /\ raced = {}

Goto(p, from, to) == main[p] = from /\ main' = [main EXCEPT ![p] = to]
-----------------------------------------------------------------------------
(* init() and connect() in the main thread *)

SemInitPosted(p) == sem' = [sem EXCEPT ![p] = 1]        \* mutant of SemInit
SemInit(p) == sem' = [sem EXCEPT ![p] = 0]

Inits(p) ==
  /\ \/ Goto(p, "init", "connect") /\ SemInit(p)
     \/ Goto(p, "init", "returned") /\ UNCHANGED sem
  /\ UNCHANGED <<redisVars, event, given, local, heard, raced>>

(* A context that could not be made, or that has an error at once, ends    *)
(* the program.                                                            *)
GoesOn(p) == Goto(p, "connect", "ready")                \* mutant of GivesUp
GivesUp(p) == Goto(p, "connect", "returned")

Connects(p) ==
  /\ \/ Goto(p, "connect", "attached") /\ AsyncConnect(p)
     \/ GivesUp(p) /\ UNCHANGED redisVars
  /\ UNCHANGED <<event, sem, given, local, heard, raced>>

StartsThread(p) ==
  /\ Goto(p, "attached", "started")
  /\ event' = [event EXCEPT ![p] = "wait"]
  /\ UNCHANGED <<redisVars, sem, given, local, heard, raced>>

SetsCallbacks(p) ==
  /\ \/ Goto(p, "started", "callback") /\ SetConnectCallback(p)
     \/ Goto(p, "callback", "post") /\ SetDisconnectCallback(p)
  /\ UNCHANGED <<event, sem, given, local, heard, raced>>

NotPosted(p) == UNCHANGED sem                           \* mutant of SemPost
SemPost(p) == sem' = [sem EXCEPT ![p] = @ + 1]

Posts(p) == /\ Goto(p, "post", "ready") /\ SemPost(p)
            /\ UNCHANGED <<redisVars, event, given, local, heard, raced>>
-----------------------------------------------------------------------------
(* publish() in the endless loop of publisher.cxx, and the one subscribe() *)
(* of subscriber.cxx.  The pointer to the context is never reset: using it *)
(* after the event thread has freed the context is undefined.              *)

InCommand(p) == main[p] \in {"append", "arm"}
InHandler(p) == event[p] \in {"written", "disarm", "rearm"}

Undefined(p) == /\ main' = [main EXCEPT ![p] = "undefined"]
                /\ UNCHANGED <<redisVars, given, local>>

Command(p) == <<p, IF p \in Publishers THEN given[p] + 1 ELSE 0>>

Enters(p) ==
  /\ main[p] = "ready"
  /\ p \in Publishers => given[p] < MaxMessages
  /\ IF ctx[p].memory # "open" THEN Undefined(p)
     ELSE /\ Goto(p, "ready", "append")
          /\ seen' = [seen EXCEPT ![p] = ctx[p].obuf]
          /\ UNCHANGED <<redisVars, given, written>>
  /\ raced' = IF InHandler(p) THEN raced \cup {p} ELSE raced
  /\ UNCHANGED <<event, sem, heard>>

(* An obuf that the event thread has replaced meanwhile is either brought  *)
(* back, or no longer there.                                               *)
Appends(p) ==
  /\ main[p] = "append"
  /\ \/ /\ ctx[p].memory = "open"
        /\ Goto(p, "append", "arm") /\ AppendTo(p, seen[p], Command(p))
        /\ UNCHANGED <<given, local>>
     \/ (ctx[p].memory = "freed" \/ ctx[p].obuf # seen[p]) /\ Undefined(p)
  /\ UNCHANGED <<event, sem, heard, raced>>

(* publisher.cxx publishes in its loop, subscriber.cxx subscribes before.  *)
CommandsAgain(p) == "ready"                             \* mutant of AfterCommand
AfterCommand(p) == IF p \in Publishers THEN "ready" ELSE "asleep"

Arms(p) ==
  /\ main[p] = "arm"
  /\ IF ctx[p].memory = "freed" THEN Undefined(p)
     ELSE /\ Goto(p, "arm", AfterCommand(p)) /\ AddWrite(p)
          /\ given' = [given EXCEPT ![p] = @ + 1]
          /\ UNCHANGED local
  /\ UNCHANGED <<event, sem, heard, raced>>

MainStep(p) == Inits(p) \/ Connects(p) \/ StartsThread(p) \/ SetsCallbacks(p)
                 \/ Posts(p) \/ Enters(p) \/ Appends(p) \/ Arms(p)
-----------------------------------------------------------------------------
(* event_proc() in the event thread *)

At(p, place) == main[p] # "undefined" /\ event[p] = place
EventGoto(p, to) == event' = [event EXCEPT ![p] = to]

(* Any step on the context while the main thread is in a command *)
Races(p) == raced' = IF InCommand(p) THEN raced \cup {p} ELSE raced

\* sem_wait()
Waits(p) == /\ At(p, "wait") /\ sem[p] > 0
            /\ sem' = [sem EXCEPT ![p] = @ - 1] /\ EventGoto(p, "dispatch")
            /\ UNCHANGED <<redisVars, main, given, local, heard, raced>>

(* event_base_dispatch() returns when no event is left. *)
Returns(p) == /\ At(p, "dispatch") /\ NoEvents(p)
              /\ EventGoto(p, "ended")
              /\ UNCHANGED <<redisVars, main, sem, given, local, heard, raced>>

(* connect_callback() and disconnect_callback() only print. *)
HandlesWrite(p) ==
  /\ At(p, "dispatch")
  /\ \/ /\ WritesOut(p) /\ EventGoto(p, "written")
        /\ written' = [written EXCEPT ![p] = Len(ctx[p].obuf)]
     \/ WriteFails(p) /\ UNCHANGED <<event, written>>
  /\ Races(p) /\ UNCHANGED <<main, sem, given, seen, heard>>

FinishesWrite(p) ==
  /\ \/ /\ At(p, "written") /\ DropsWritten(p, written[p])
        /\ EventGoto(p, IF ctx'[p].obuf = << >> THEN "disarm" ELSE "rearm")
     \/ At(p, "disarm") /\ Rearms(p, TRUE) /\ EventGoto(p, "dispatch")
     \/ At(p, "rearm") /\ Rearms(p, FALSE) /\ EventGoto(p, "dispatch")
  /\ Races(p) /\ UNCHANGED <<main, sem, given, local, heard>>

(* command_callback(): an array of three elements is passed on, and a      *)
(* confirmation is one, too.                                               *)
Notify(s, reply) == heard' = [heard EXCEPT ![s] = Append(@, reply)]

\* the publisher's command_callback() only prints
HandlesRead(p) ==
  /\ At(p, "dispatch")
  /\ \/ /\ ReadsReply(p)
        /\ IF p \in Subscribers THEN Notify(p, Head(link[p].from)) ELSE UNCHANGED heard
     \/ ReadsEnd(p) /\ UNCHANGED heard
  /\ Races(p) /\ UNCHANGED <<main, event, sem, given, local>>

EventStep(p) == Waits(p) \/ Returns(p) \/ HandlesWrite(p) \/ FinishesWrite(p) \/ HandlesRead(p)
-----------------------------------------------------------------------------
ServerStep(p) == /\ Answers(p) \/ Executes(p)
                 /\ UNCHANGED <<main, event, sem, given, local, heard, raced>>

Next == \E p \in Clients :
          \/ MainStep(p) \/ EventStep(p) \/ ServerStep(p)
          \/ HangsUp(p) /\ UNCHANGED <<main, event, sem, given, local, heard, raced>>

Spec == Init /\ [][Next]_vars

(* The machine does not stop while a thread or the server has something to *)
(* do.  That is less than fairness to each of them, and enough: none can   *)
(* go on for ever while the others wait.                                   *)
FairSpec ==
  Spec /\ WF_vars(\E p \in Clients : MainStep(p) \/ EventStep(p) \/ ServerStep(p))
-----------------------------------------------------------------------------
Places == {"init", "connect", "attached", "started", "callback", "post", "ready",
           "append", "arm", "asleep", "returned", "undefined"}
EventPlaces == {"none", "wait", "dispatch", "written", "disarm", "rearm", "ended"}

TypeOK ==
  /\ RedisTypeOK
  /\ main \in [Clients -> Places] /\ event \in [Clients -> EventPlaces]
  /\ sem \in [Clients -> 0..1] /\ given \in [Clients -> 0..MaxMessages + 1]
  /\ seen \in [Clients -> Seq(Item)] /\ written \in [Clients -> Nat]
  /\ heard \in [Subscribers -> Seq(Item)] /\ raced \subseteq Clients

(* The semaphore does its work: the event thread neither finds an empty    *)
(* event base, which would end it for good, nor reports a connection or    *)
(* its end before the callback for it is set.                              *)
SetUpFirst ==
  /\ TypeOK
  /\ \A p \in Clients :
       /\ event[p] = "ended" => ctx[p].memory = "freed"
       /\ ctx[p].connected => "connect" \in ctx[p].callbacks
       /\ ctx[p].memory = "freed" => ctx[p].callbacks = {"connect", "disconnect"}

(* The main thread never uses a context that is not there, unless the      *)
(* connection was lost, or both threads were in the context at a time.     *)
ContextLives ==
  \A p \in Clients :
    main[p] = "undefined" => p \in raced \/ link[p].state = "down"

(* The messages of p among items: their numbers rise, without a gap *)
Of(p, items) == {i \in 1..Len(items) : items[i][1] = p}

InOrder(p, items) ==
  \A i, j \in Of(p, items) :
    /\ i < j => items[i][2] < items[j][2]
    /\ \A n \in items[i][2]..items[j][2] : \E k \in Of(p, items) : items[k][2] = n

(* What a subscriber is told of a publisher's messages is a part of them   *)
(* without a gap, a repetition or a change of order, and the only call     *)
(* without a message is the first one, for the confirmation; unless the    *)
(* threads of either were in its context at a time.                        *)
ToldInOrder ==
  \A s \in Subscribers \ raced :
    /\ \A i \in 1..Len(heard[s]) : heard[s][i][2] = 0 <=> i = 1
    /\ \A p \in Publishers \ raced : InOrder(p, heard[s])

(* A command that was accepted is executed, unless the connection is lost  *)
(* or the threads were in the context at a time: then the event thread may *)
(* remove the write event that the main thread has just added.             *)
CommandsExecuted ==
  \A p \in Clients : \A n \in 1..(IF p \in Publishers THEN MaxMessages ELSE 1) :
    given[p] = n ~> (link[p].served >= n \/ link[p].state = "down" \/ p \in raced)
=============================================================================
