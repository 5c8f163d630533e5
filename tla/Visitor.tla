------------------------------ MODULE Visitor ------------------------------
(***************************************************************************)
(* The visitor of the photo service: visitor.cpp takes commands from       *)
(* msg_manager and has each sent over a connection of its own, made by     *)
(* tconnector.h, a copy of epoll_connector.h that gives up on a connect    *)
(* after a time and whose handlers (visitor_handler.cpp) own a command     *)
(* from handle_open to handle_close.                                       *)
(*                                                                         *)
(* A command is an object on the heap that somebody has to delete once.    *)
(* The peer is free to answer, refuse, stay silent and close; what it      *)
(* sends is not looked at by the code.                                     *)
(***************************************************************************)
EXTENDS Connector

CONSTANTS
  Commands,         \* msg_cmd_base objects
  NoCommand         \* the null pointer

ASSUME CommandAssumption == NoCommand \notin Commands

VARIABLES
  cmdq,             \* _queue of msg_manager, commands posted so far in any order
  userarg,          \* userarg[h]: _userarg
  pcmd,             \* pcmd[h]: _pcmd, the command h owns
  deletes,          \* how often a command was deleted
  dropped           \* commands that a failure left without an owner (auxiliary)

commands == <<userarg, pcmd, deletes, dropped>>
vars == <<connectorVars, cmdq, commands>>

Init ==
  /\ ConnectorInit
  /\ cmdq = {}
  /\ userarg = [h \in Handlers |-> NoCommand] /\ pcmd = [h \in Handlers |-> NoCommand]
  /\ deletes = [c \in Commands |-> 0]
  /\ dropped = {}

-----------------------------------------------------------------------------
(* The callbacks of visitor_handler *)

\* handle_close deletes the command, the destructor finds a null pointer.
HandleClose(H) ==
  deletes' = [c \in Commands |-> IF \E h \in H : pcmd[h] = c THEN deletes[c] + 1
                                 ELSE deletes[c]]

HandleOpen(h) == pcmd' = [pcmd EXCEPT ![h] = userarg[h]]

\* handle_open, handle_close and the destructor, one after the other.
OpenClose(H) ==
  /\ deletes' = [c \in Commands |-> IF \E h \in H : userarg[h] = c THEN deletes[c] + 1
                                    ELSE deletes[c]]
  /\ UNCHANGED <<userarg, pcmd, dropped>>

\* handle_close, if at all, and the destructor: a handler that was never opened has no
\* _pcmd, and its command is not deleted.
CloseOnly(H) ==
  /\ HandleClose(H)
  /\ pcmd' = [h \in Handlers |-> IF h \in H THEN NoCommand ELSE pcmd[h]]
  /\ UNCHANGED userarg

Drop(H) == dropped' = dropped \cup {userarg[h] : h \in H}

-----------------------------------------------------------------------------
(* msg_manager and visitor::connect_thread *)

Post(c) ==
  /\ c \notin cmdq /\ deletes[c] = 0 /\ c \notin dropped /\ \A h \in Handlers : userarg[h] # c
  /\ cmdq' = cmdq \cup {c}
  /\ UNCHANGED <<connectorVars, commands>>

\* peek, and connect with the command as its argument.
VisitorConnect(c, h) ==
  /\ c \in cmdq /\ cmdq' = cmdq \ {c}
  /\ Connect(h)
  /\ userarg' = [userarg EXCEPT ![h] = c]
  /\ UNCHANGED <<pcmd, deletes, dropped>>

\* connect returned -1, which is not looked at.
VisitorConnectFails(c) ==
  /\ c \in cmdq /\ cmdq' = cmdq \ {c}
  /\ ConnectFails \/ \E h \in Handlers : PushFails(h)
  /\ dropped' = dropped \cup {c}
  /\ UNCHANGED <<userarg, pcmd, deletes>>

VisitorPush == Push /\ UNCHANGED <<cmdq, commands>>

VisitorThread ==
  \/ \E c \in Commands : VisitorConnectFails(c) \/ \E h \in Handlers : VisitorConnect(c, h)
  \/ VisitorPush

-----------------------------------------------------------------------------
(* tconnector: the connect thread *)

Silent == (ThreadCheck \/ Wait \/ EventsDone) /\ UNCHANGED <<cmdq, commands>>
ConnectRefused(h) == EventError(h) /\ OpenClose({h}) /\ UNCHANGED cmdq
Connected(h) == EventConnected(h) /\ UNCHANGED <<cmdq, commands>>
HandOver == Dispatch /\ UNCHANGED <<cmdq, commands>>
HandOverFails == DispatchFails /\ OpenClose({current}) /\ UNCHANGED cmdq

\* Mutant: a handler that timed out is closed without having been opened.
TimeOutUnopened(h) ==
  /\ tPc = "check" /\ h \in pending /\ OffList(h)
  /\ Delete({h}) /\ HandleClose({h})
  /\ UNCHANGED <<used, caller, plock, thread, workers, stopping, cmdq, userarg, pcmd, dropped>>

\* Mutant: no timeout, as in epoll_connector.h.
TimeOutNever(h) == FALSE /\ UNCHANGED vars

\* check_timeout, after a batch: a pending connect that is too old is opened, timed
\* out, closed and deleted.  The age is left out: any pending connect may be too old.
TimeOut(h) ==
  /\ tPc = "check" /\ h \in pending /\ OffList(h)
  /\ Delete({h}) /\ OpenClose({h})
  /\ UNCHANGED <<used, caller, plock, thread, workers, stopping, cmdq>>

ConnectThread ==
  \/ Silent \/ HandOver \/ HandOverFails
  \/ \E h \in Handlers : ConnectRefused(h) \/ Connected(h) \/ TimeOut(h)

-----------------------------------------------------------------------------
(* Its workers, with visitor_handler's callbacks *)

VisitorOpen(w, h) ==
  /\ Open(w, h)
  /\ HandleOpen(h)
  /\ UNCHANGED <<cmdq, userarg, deletes, dropped>>

\* handle_open never fails, so it is epoll_ctl that did.
VisitorOpenFails(w, h) == OpenFails(w, h) /\ OpenClose({h}) /\ UNCHANGED cmdq

VisitorTurnAway(w, h) == TurnAway(w, h) /\ CloseOnly({h}) /\ Drop({h}) /\ UNCHANGED cmdq

\* handle_send or handle_recv returns -1: an error, the end of the stream before any
\* answer, or more than 8 K without the end of a header.  Any other event, the timer of
\* 20 s and handle_run return 0, and the connection stays open after its answer.
VisitorFails(w, h) == CloseOpen(w, h) /\ CloseOnly({h}) /\ UNCHANGED <<cmdq, dropped>>

WorkerThread(w) ==
  \E h \in Handlers :
    VisitorOpen(w, h) \/ VisitorOpenFails(w, h) \/ VisitorTurnAway(w, h) \/ VisitorFails(w, h)

-----------------------------------------------------------------------------
(* tconnector::stop.  The visitor never calls it; a connector has it. *)

VisitorStop == Stop /\ UNCHANGED <<cmdq, commands>>
VisitorFreePending ==
  FreePending /\ CloseOnly(pending) /\ Drop(pending) /\ UNCHANGED cmdq
VisitorStopWorkers ==
  (Stopped \/ \E w \in Workers : StopWorker(w)) /\ UNCHANGED <<cmdq, commands>>

\* Open handlers own their command; queued ones are opened first.
VisitorFreeWorker(w) ==
  /\ FreeWorker(w) /\ OpenClose(pool[w] \cup ToSet(pendq[w]))
  /\ UNCHANGED cmdq

StopThread ==
  VisitorStop \/ VisitorFreePending \/ VisitorStopWorkers

Next ==
  \/ \E c \in Commands : Post(c)
  \/ VisitorThread \/ ConnectThread \/ StopThread
  \/ \E w \in Workers : WorkerThread(w) \/ VisitorFreeWorker(w)

Spec == Init /\ [][Next]_vars

\* epoll_wait has a timeout, so the connect thread and the workers go round; every
\* pending connect gets too old.  Nothing is assumed of peers and of callers of stop.
FairSpec ==
  /\ Spec
  /\ WF_vars(VisitorPush) /\ WF_vars(ConnectThread)
  /\ WF_vars(VisitorFreePending) /\ WF_vars(VisitorStopWorkers)
  /\ \A h \in Handlers : SF_vars(TimeOut(h))
  /\ \A w \in Workers :
       /\ WF_vars(VisitorFreeWorker(w))
       /\ WF_vars(\E h \in Handlers :
                    VisitorOpen(w, h) \/ VisitorOpenFails(w, h) \/ VisitorTurnAway(w, h))

-----------------------------------------------------------------------------
\* A command the visitor took is carried by one live handler, or deleted once, or was
\* dropped by one of the three failures that never open a handler (connect returned -1,
\* a worker at its limit, stop with the connect still pending): no timer, refusal, full
\* queue or failing callback loses one, and handle_close and the destructor together,
\* on whichever thread, never delete one twice.
CommandsAccounted ==
  \A c \in Commands :
    LET carriers == Cardinality({h \in heap : userarg[h] = c})
        gone == IF c \in dropped THEN 1 ELSE 0
        taken == IF \E h \in Handlers : userarg[h] = c THEN 1 ELSE gone
    IN  carriers + deletes[c] + gone = taken

\* A connect ends, whatever the peer does: with a connection, a refusal or the timeout.
ConnectEnds == \A h \in Handlers : h \in pending ~> h \notin pending

\* stop returns, whatever is pending, unlike that of the accepter.
StopReturns == cPc = "joining" ~> cPc = "stopped"
=============================================================================
