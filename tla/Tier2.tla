-------------------------------- MODULE Tier2 --------------------------------
(***************************************************************************)
(* The tier-2 message layer: how request objects travel between the        *)
(* front-end (Mongoose connection) threads and the one TWS back-end        *)
(* thread, who owns them at every moment, and how the back-end loop        *)
(* interleaves receiving, pulsing, tickling and TWS traffic.               *)
(*                                                                         *)
(* Threads share nothing but the socketpairs that carry message pointers,  *)
(* so everything a thread does between two socket operations is one step.  *)
(*                                                                         *)
(* Left to other modules: what the back-end's own requests ask of TWS and  *)
(* the subscription limit they obey (here: a request of the back-end       *)
(* itself may start, be parked, be transmitted, be refused or finish), and *)
(* how communication paths are negotiated (here: a path exists from the    *)
(* front-end's first request on and the back-end learns of it by fetching).*)
(***************************************************************************)
EXTENDS Naturals, Sequences, FiniteSets, Functions

CONSTANTS
  FrontEnds,  \* the tier2_message_processor of every client connection
  BE,         \* the processor of the back-end thread, ib_tws_manager
  Msgs,       \* addresses at which message objects can live
  Response,   \* the address of the response object of a TWS callback
  None,       \* a NULL pointer
  MaxDrops    \* bound: how often the TWS connection is lost

ASSUME Tier2Assumption ==
  /\ BE \notin FrontEnds
  /\ None \notin FrontEnds \cup {BE} \cup Msgs
  /\ Response \in Msgs
  /\ IsFiniteSet(Msgs)
  /\ IsFiniteSet(FrontEnds)
  /\ MaxDrops \in Nat

Procs == FrontEnds \cup {BE}

\* The states a message rests in between two steps; "free" is unallocated memory.
RStates == {"EXEC_COMMAND", "WAIT_FOR_TRANSMIT", "READY_TO_RECEIVE_RESPONSE"}
TStates == {"RESPONSE_COMPLETE", "FAILED", "DESTRUCTION"}
States  == RStates \cup TStates \cup {"free"}

Phases == {"select", "fetch", "idle_pulse", "idle_tickle", "busy_pulse",
           "busy_tickle", "event", "top_pulse", "top_failed", "down", "exited"}

VARIABLES
  requester,  \* the processor that created the message
  state,      \* m_now_state
  owner,      \* m_owner; None while in limbo
  owned,      \* m_msgs_i_own of every processor
  pulsing,    \* m_msgs_pending_for_pulsing of every processor
  toBE,       \* the socketpair from a front-end to the back-end
  toFE,       \* the socketpair from the back-end to a front-end
  lost,       \* messages whose mg_write() wrote nothing and reported 0
  paths,      \* front-ends for which app_manager holds communicators
  senders,    \* the back-end's m_senders, in its order
  waiting,    \* the request each front-end blocks on in wait_for_response()
  phase,      \* where the back-end thread is in its loop
  owed,       \* current-time answers TWS still owes on this connection
  drops,      \* how often the TWS connection was lost so far
  stopped     \* the Mongoose stop flag

msgVars == <<requester, state, owner, owned, pulsing, toBE, toFE, lost>>
envVars == <<paths, senders, waiting, phase, owed, drops, stopped>>
vars    == <<requester, state, owner, owned, pulsing, toBE, toFE, lost,
             paths, senders, waiting, phase, owed, drops, stopped>>

-----------------------------------------------------------------------------
(* Message and list primitives *)

\* Faulty variant: a transmitted request is taken to be the requester's again.
ResponsibleTooEarly(m, s) ==
  IF s \in {"EXEC_COMMAND", "WAIT_FOR_TRANSMIT"} THEN BE ELSE requester[m]

\* Whose turn it is in a state: R states belong to the receiver (always the
\* back-end), T states to the requester.
Responsible(m, s) == IF s \in RStates THEN BE ELSE requester[m]

\* Faulty variant: destruction is not a task to pulse.
NeedsPulseIfAway(m, p, s) == Responsible(m, s) # p

\* exec_state() marks a message for pulsing when it is with the wrong thread,
\* and always when it is to be destroyed.
NeedsPulse(m, p, s) == s = "DESTRUCTION" \/ Responsible(m, s) # p

\* Faulty variant: no look for the message before it is pushed.
QueuedAgain(q, m) == Append(q, m)

\* queue_msg_for_pulsing(): at the end, once.
Queued(q, m) == IF m \in Range(q) THEN q ELSE Append(q, m)

\* Every order in which the members of a set can sit in a vector.
Orders(S) == {s \in [1..Cardinality(S) -> S] : IsInjective(s) /\ Range(s) = S}

\* A message object appears at a free address, owned by its creator.
Create(p, m, s) ==
  /\ state[m] = "free"
  /\ requester' = [requester EXCEPT ![m] = p]
  /\ state' = [state EXCEPT ![m] = s]
  /\ owner' = [owner EXCEPT ![m] = p]
  /\ owned' = [owned EXCEPT ![p] = @ \cup {m}]

\* An owned message changes state and is marked for pulsing when it must move.
Enter(p, m, s) ==
  /\ state' = [state EXCEPT ![m] = s]
  /\ pulsing' = IF NeedsPulse(m, p, s)
                THEN [pulsing EXCEPT ![p] = Queued(@, m)]
                ELSE pulsing

\* Faulty variant: the list is not cleaned.
ReleaseOwnerOnly(p, m) ==
  /\ owner' = [owner EXCEPT ![m] = None]
  /\ UNCHANGED owned

\* current_owner(NULL): in limbo, off both lists of the owner.
Release(p, m) ==
  /\ owner' = [owner EXCEPT ![m] = None]
  /\ owned' = [owned EXCEPT ![p] = @ \ {m}]

\* current_owner(p) of a message read from a socket, whose state handlers
\* then run in thread p and leave it in state s.
Receive(p, m, s) ==
  /\ owner' = [owner EXCEPT ![m] = p]
  /\ owned' = [owned EXCEPT ![p] = @ \cup {m}]
  /\ Enter(p, m, s)

-----------------------------------------------------------------------------
Init ==
  /\ requester = [m \in Msgs |-> None]
  /\ state = [m \in Msgs |-> "free"]
  /\ owner = [m \in Msgs |-> None]
  /\ owned = [p \in Procs |-> {}]
  /\ pulsing = [p \in Procs |-> <<>>]
  /\ toBE = [f \in FrontEnds |-> <<>>]
  /\ toFE = [f \in FrontEnds |-> <<>>]
  /\ lost = {}
  /\ paths = {}
  /\ senders = <<>>
  /\ waiting = [f \in FrontEnds |-> None]
  /\ phase = "down"
  /\ owed = 0
  /\ drops = 0
  /\ stopped = FALSE

-----------------------------------------------------------------------------
(* The front-end: MG_NEW_REQUEST for /tws/proxy/server_time *)

\* new ib_msg_req_current_time, the path it needs, and the start of the wait.
\* The state change to EXEC_COMMAND marks the message for pulsing and pulse()
\* posts it at once: the three outcomes of mg_write() follow.  The stop flag is
\* not looked at before the wait, which then ends before it begins.
BeginRequest(f, m) ==
  /\ waiting[f] = None
  /\ m # Response
  /\ state[m] = "free"
  /\ requester' = [requester EXCEPT ![m] = f]
  /\ state' = [state EXCEPT ![m] = "EXEC_COMMAND"]
  /\ paths' = paths \cup {f}
  /\ waiting' = [waiting EXCEPT ![f] = IF stopped THEN None ELSE m]
  /\ UNCHANGED <<toFE, senders, phase, owed, drops, stopped>>

FeRequest(f, m) ==
  /\ BeginRequest(f, m)
  /\ toBE' = [toBE EXCEPT ![f] = Append(@, m)]
  /\ UNCHANGED <<owner, owned, pulsing, lost>>

\* The write fails: the front-end re-takes ownership, which marks the message
\* for pulsing again; nothing in this thread ever pulses that list.
FeRequestFailed(f, m) ==
  /\ BeginRequest(f, m)
  /\ owner' = [owner EXCEPT ![m] = f]
  /\ owned' = [owned EXCEPT ![f] = @ \cup {m}]
  /\ pulsing' = [pulsing EXCEPT ![f] = Append(@, m)]
  /\ UNCHANGED <<toBE, lost>>

\* The write reports 0, which post_message() takes for success.
FeRequestVanished(f, m) ==
  /\ BeginRequest(f, m)
  /\ lost' = lost \cup {m}
  /\ UNCHANGED <<owner, owned, pulsing, toBE>>

\* wait_for_response() pops a message and returns when it is the awaited one. The
\* stop flag is read before the select(): a message that comes after the stop may
\* still be popped.
FePop(f) ==
  /\ waiting[f] # None
  /\ toFE[f] # <<>>
  /\ LET m == Head(toFE[f]) IN
       /\ Receive(f, m, state[m])
       /\ waiting' = [waiting EXCEPT ![f] = IF m = @ THEN None ELSE @]
  /\ toFE' = [toFE EXCEPT ![f] = Tail(@)]
  /\ UNCHANGED <<requester, toBE, lost, paths, senders, phase, owed, drops, stopped>>

\* Faulty variant: the wait times out.
FeTimeout(f) ==
  /\ waiting[f] # None
  /\ waiting' = [waiting EXCEPT ![f] = None]
  /\ UNCHANGED <<msgVars, paths, senders, phase, owed, drops, stopped>>

\* The stop flag ends the wait; the handler ignores the -1 and replies anyway.
FeGiveUp(f) ==
  /\ stopped
  /\ waiting[f] # None
  /\ waiting' = [waiting EXCEPT ![f] = None]
  /\ UNCHANGED <<msgVars, paths, senders, phase, owed, drops, stopped>>

-----------------------------------------------------------------------------
(* The back-end: io_receive() *)

\* A turn of the loop begins with a look at the stop flag; if it is up, this and
\* the worker thread's own loop end.
NextTurn == IF stopped THEN "exited" ELSE "select"

\* The loop turns on whether select() found TWS readable. What it has to do in
\* this turn it does, even if the server is stopped meanwhile.
AfterPop == {"fetch", "busy_pulse"}

\* process_one_queued_tier2_request() serves the first communicator, in
\* m_senders order, that has a message.
HasMail(f) == toBE[f] # <<>>
FirstWithMail(f) ==
  \E i \in DOMAIN senders :
    /\ senders[i] = f /\ HasMail(f)
    /\ \A j \in 1..(i - 1) : ~HasMail(senders[j])

BeNoMail ==
  /\ phase = "select"
  /\ \A i \in DOMAIN senders : ~HasMail(senders[i])
  /\ phase' \in AfterPop
  /\ UNCHANGED <<msgVars, paths, senders, waiting, owed, drops, stopped>>

\* Faulty variant: the pointer is read but stays in the socket.
BePeek(f) ==
  /\ phase = "select"
  /\ FirstWithMail(f)
  /\ phase' \in AfterPop
  /\ UNCHANGED <<requester, toBE, toFE, lost, paths, senders, waiting, drops, stopped>>

\* The popped request executes at once: f_exec_command() takes it through
\* WAIT_FOR_TRANSMIT and COMMENCE_TRANSMIT to the TWS call.
BePop(f) ==
  /\ phase = "select"
  /\ FirstWithMail(f)
  /\ toBE' = [toBE EXCEPT ![f] = Tail(@)]
  /\ phase' \in AfterPop
  /\ UNCHANGED <<requester, toFE, lost, paths, senders, waiting, drops, stopped>>

\* tws_req_current_time() succeeds: the request awaits its answer.
BePopSent(f) ==
  /\ BePop(f)
  /\ Receive(BE, Head(toBE[f]), "READY_TO_RECEIVE_RESPONSE")
  /\ owed' = owed + 1

\* Faulty variant: the error of the TWS call is ignored.
BePopErrorIgnored(f) ==
  /\ BePop(f)
  /\ Receive(BE, Head(toBE[f]), "READY_TO_RECEIVE_RESPONSE")
  /\ UNCHANGED owed

\* The TWS call fails: exec_state() turns the error into FAILED.
BePopRefused(f) ==
  /\ BePop(f)
  /\ Receive(BE, Head(toBE[f]), "FAILED")
  /\ UNCHANGED owed

\* Faulty variant: new paths are not looked for.
BeFetchNothing ==
  /\ phase = "fetch"
  /\ phase' = "idle_pulse"
  /\ UNCHANGED <<msgVars, paths, senders, waiting, owed, drops, stopped>>

\* fetch_new_interthread_communicators()
BeFetch ==
  /\ phase = "fetch"
  /\ \E new \in Orders(paths \ Range(senders)) : senders' = senders \o new
  /\ phase' = "idle_pulse"
  /\ UNCHANGED <<msgVars, paths, waiting, owed, drops, stopped>>

-----------------------------------------------------------------------------
(* The back-end: pulse_marked_messages() *)

PulsePhases == {"idle_pulse", "busy_pulse", "top_pulse", "top_failed"}

\* The next message to pulse.
Marked == Head(pulsing[BE])
Pulsing == phase \in PulsePhases /\ pulsing[BE] # <<>>
Unmark == pulsing' = [pulsing EXCEPT ![BE] = Tail(@)]

\* A message that has to go to its requester is posted; three outcomes.
BePost ==
  /\ Pulsing
  /\ Responsible(Marked, state[Marked]) # BE
  /\ UNCHANGED <<requester, state, toBE, paths, senders, waiting, owed, drops, stopped>>

BePostSent ==
  /\ BePost
  /\ Unmark
  /\ Release(BE, Marked)
  /\ toFE' = [toFE EXCEPT ![requester[Marked]] = Append(@, Marked)]
  /\ UNCHANGED <<lost, phase>>

\* Faulty variant: ownership is not re-taken when the write fails.
BePostFailedInLimbo ==
  /\ BePost
  /\ Unmark
  /\ Release(BE, Marked)
  /\ UNCHANGED <<toFE, lost, phase>>

\* Ownership is re-taken and the message is marked once more. Only the worker
\* thread's own loop looks at the error, and breaks the connection off for it.
BePostFailed ==
  /\ BePost
  /\ pulsing' = [pulsing EXCEPT ![BE] = Append(Tail(@), Marked)]
  /\ phase = "top_pulse" => drops < MaxDrops
  /\ phase' = IF phase = "top_pulse" THEN "top_failed" ELSE phase
  /\ UNCHANGED <<owner, owned, toFE, lost>>

BePostVanished ==
  /\ BePost
  /\ Unmark
  /\ Release(BE, Marked)
  /\ lost' = lost \cup {Marked}
  /\ UNCHANGED <<toFE, phase>>

\* Faulty variant: every finished message is deleted where it is.
BeDeleteAny ==
  /\ Pulsing
  /\ state[Marked] \in TStates
  /\ Unmark
  /\ Release(BE, Marked)
  /\ state' = [state EXCEPT ![Marked] = "free"]
  /\ requester' = [requester EXCEPT ![Marked] = None]
  /\ UNCHANGED <<toBE, toFE, lost, envVars>>

\* A message of the back-end itself is released and deleted.
BeDelete ==
  /\ Pulsing
  /\ state[Marked] = "DESTRUCTION"
  /\ requester[Marked] = BE
  /\ Unmark
  /\ Release(BE, Marked)
  /\ state' = [state EXCEPT ![Marked] = "free"]
  /\ requester' = [requester EXCEPT ![Marked] = None]
  /\ UNCHANGED <<toBE, toFE, lost, envVars>>

\* A mark that is out of date: the message is where it has to be.
BePulseNothing ==
  /\ Pulsing
  /\ state[Marked] # "DESTRUCTION"
  /\ Responsible(Marked, state[Marked]) = BE
  /\ Unmark
  /\ UNCHANGED <<requester, state, owner, owned, toBE, toFE, lost, envVars>>

\* Where the loop goes when nothing is marked any more. A TWS message that is
\* in the read buffer already is handled without another turn of io_receive().
AfterPulse(p) ==
  CASE p = "idle_pulse" -> {"idle_tickle"}
    [] p = "busy_pulse" -> {"busy_tickle"}
    [] p = "top_pulse"  -> {NextTurn, "event"}

BePulseDone ==
  /\ phase \in PulsePhases \ {"top_failed"}
  /\ pulsing[BE] = <<>>
  /\ phase' \in AfterPulse(phase)
  /\ UNCHANGED <<msgVars, paths, senders, waiting, owed, drops, stopped>>

\* The worker thread disconnects from TWS, because a front-end was not reached.
BeBreakOff ==
  /\ phase = "top_failed"
  /\ pulsing[BE] = <<>>
  /\ drops < MaxDrops
  /\ phase' = "down"
  /\ drops' = drops + 1
  /\ owed' = 0
  /\ UNCHANGED <<msgVars, paths, senders, waiting, stopped>>

-----------------------------------------------------------------------------
(* The back-end's own requests: tickling and TWS callbacks *)

TicklePhases == {"idle_tickle", "busy_tickle"}

\* pulse_pending_issues() moves a parked request to COMMENCE_TRANSMIT; one the
\* state change handler still holds back stays parked.
BeTickle(m) ==
  /\ phase \in TicklePhases
  /\ state[m] = "WAIT_FOR_TRANSMIT" /\ owner[m] = BE
  /\ \E s \in {"READY_TO_RECEIVE_RESPONSE", "DESTRUCTION"} : Enter(BE, m, s)
  /\ UNCHANGED <<requester, owner, owned, toBE, toFE, lost, envVars>>

BeTickleDone ==
  /\ phase \in TicklePhases
  /\ phase' = IF phase = "idle_tickle" THEN NextTurn ELSE "event"
  /\ UNCHANGED <<msgVars, paths, senders, waiting, owed, drops, stopped>>

\* The back-end issues a request to itself, which EXEC_COMMAND runs through at
\* once: transmitted, parked by the subscription limit, or refused by TWS and
\* therefore marked for destruction.
BeStart(m) ==
  /\ phase \in TicklePhases \cup {"event"}
  /\ m # Response
  /\ \E s \in {"READY_TO_RECEIVE_RESPONSE", "WAIT_FOR_TRANSMIT", "DESTRUCTION"} :
       /\ Create(BE, m, s)
       /\ pulsing' = IF s = "DESTRUCTION"
                     THEN [pulsing EXCEPT ![BE] = Queued(@, m)]
                     ELSE pulsing
  /\ UNCHANGED <<toBE, toFE, lost, envVars>>

\* A cancel message that matches no request: cancel_all_matching_requests() marks
\* it for destruction, and the caller moves it on to be transmitted nevertheless.
\* (One that matches is deleted within the step that ends the request, BeFinish.)
BeStartCancel(m) ==
  /\ phase \in TicklePhases \cup {"event"}
  /\ m # Response
  /\ Create(BE, m, "READY_TO_RECEIVE_RESPONSE")
  /\ pulsing' = [pulsing EXCEPT ![BE] = Queued(@, m)]
  /\ UNCHANGED <<toBE, toFE, lost, envVars>>

\* A request of the back-end is completed, aborted or failed: it is ditched.
BeFinish(m) ==
  /\ phase \in TicklePhases \cup {"event"}
  /\ state[m] \in {"READY_TO_RECEIVE_RESPONSE", "WAIT_FOR_TRANSMIT"}
  /\ owner[m] = BE /\ requester[m] = BE
  /\ Enter(BE, m, "DESTRUCTION")
  /\ UNCHANGED <<requester, owner, owned, toBE, toFE, lost, envVars>>

-----------------------------------------------------------------------------
(* The back-end: TWS callbacks and the connection *)

\* The front-end requests a current-time response is meant for.
AwaitingTime ==
  {m \in owned[BE] : requester[m] # BE /\ state[m] = "READY_TO_RECEIVE_RESPONSE"}

\* event_current_time(): every request that awaits the time is completed by
\* the one response, in ownership order; the response object is then marked
\* for destruction.
BeAnswerTime ==
  /\ phase = "event"
  /\ owed > 0
  /\ owed' = owed - 1
  /\ state[Response] = "free"
  /\ requester' = [requester EXCEPT ![Response] = BE]
  /\ owner' = [owner EXCEPT ![Response] = BE]
  /\ owned' = [owned EXCEPT ![BE] = @ \cup {Response}]
  /\ state' = [m \in Msgs |-> IF m = Response THEN "DESTRUCTION"
                              ELSE IF m \in AwaitingTime THEN "RESPONSE_COMPLETE"
                              ELSE state[m]]
  /\ \E s \in Orders(AwaitingTime) :
       pulsing' = [pulsing EXCEPT ![BE] = Append(@ \o s, Response)]
  /\ phase' = "top_pulse"
  /\ UNCHANGED <<toBE, toFE, lost, paths, senders, waiting, drops, stopped>>

\* Any other TWS message: its response object is created, offered to the
\* back-end's requests (BeStart, BeFinish) and marked for destruction.
BeOtherEvent ==
  /\ phase = "event"
  /\ Create(BE, Response, "DESTRUCTION")
  /\ pulsing' = [pulsing EXCEPT ![BE] = Append(@, Response)]
  /\ phase' = "top_pulse"
  /\ UNCHANGED <<toBE, toFE, lost, paths, senders, waiting, owed, drops, stopped>>

\* What was read is not a whole TWS message yet: io_receive() is called again.
BeReadMore ==
  /\ phase = "event"
  /\ phase' = NextTurn
  /\ UNCHANGED <<msgVars, paths, senders, waiting, owed, drops, stopped>>

\* mg_read() delivers nothing: tws_event_process() errs, the worker leaves its
\* loop and closes the connection. No message is touched.
BeDrop ==
  /\ phase = "event"
  /\ drops < MaxDrops
  /\ drops' = drops + 1
  /\ owed' = 0
  /\ phase' = "down"
  /\ UNCHANGED <<msgVars, paths, senders, waiting, stopped>>

\* At the start and after the retry delay init_tws_api() connects: its handshake
\* reads through io_receive(), so the loop is entered there.
BeConnect ==
  /\ phase = "down" /\ ~stopped
  /\ phase' = "select"
  /\ UNCHANGED <<msgVars, paths, senders, waiting, owed, drops, stopped>>

Stop ==
  /\ ~stopped
  /\ stopped' = TRUE
  /\ UNCHANGED <<msgVars, paths, senders, waiting, phase, owed, drops>>

\* The flag is looked at again after the select(), and by the worker's loops.
BeExit ==
  /\ stopped
  /\ phase \in {"select", "down", "top_pulse"}
  /\ phase' = "exited"
  /\ UNCHANGED <<msgVars, paths, senders, waiting, owed, drops, stopped>>

\* Everything has ended; the process is about to go away.
Terminated ==
  /\ phase = "exited"
  /\ \A f \in FrontEnds : waiting[f] = None
  /\ UNCHANGED vars

BeReceive == BeNoMail \/ BeFetch
             \/ \E f \in FrontEnds : BePopSent(f) \/ BePopRefused(f)
BePulse == BePostSent \/ BePostFailed \/ BePostVanished
           \/ BeDelete \/ BePulseNothing \/ BePulseDone \/ BeBreakOff
BeOwnWork == BeTickleDone
             \/ \E m \in Msgs : BeTickle(m) \/ BeStart(m) \/ BeStartCancel(m) \/ BeFinish(m)
BeEvent == BeAnswerTime \/ BeOtherEvent \/ BeReadMore \/ BeDrop
BeThread == BeReceive \/ BePulse \/ BeOwnWork \/ BeEvent \/ BeConnect \/ BeExit

FeThread(f) ==
  \/ \E m \in Msgs : FeRequest(f, m) \/ FeRequestFailed(f, m) \/ FeRequestVanished(f, m)
  \/ FePop(f)
  \/ FeGiveUp(f)

Next ==
  \/ \E f \in FrontEnds : FeThread(f)
  \/ BeThread
  \/ Stop
  \/ Terminated

Spec == Init /\ [][Next]_vars

-----------------------------------------------------------------------------
(* Safety *)

\* Message pointers that are in one of the two sockets of a front-end.
InPipe(f) == Range(toBE[f]) \cup Range(toFE[f])
InTransit == UNION {InPipe(f) : f \in FrontEnds}

TypeOK ==
  /\ requester \in [Msgs -> Procs \cup {None}]
  /\ state \in [Msgs -> States]
  /\ owner \in [Msgs -> Procs \cup {None}]
  /\ owned \in [Procs -> SUBSET Msgs]
  /\ pulsing \in [Procs -> Seq(Msgs)]
  /\ toBE \in [FrontEnds -> Seq(Msgs)]
  /\ toFE \in [FrontEnds -> Seq(Msgs)]
  /\ lost \subseteq Msgs
  /\ paths \subseteq FrontEnds
  /\ senders \in Seq(FrontEnds)
  /\ waiting \in [FrontEnds -> Msgs \cup {None}]
  /\ phase \in Phases
  /\ owed \in Nat
  /\ drops \in 0..MaxDrops
  /\ stopped \in BOOLEAN

\* "There's always one owner of a message" (tier2_message.h): the processor
\* m_owner names is the one whose ownership list holds the message, no other
\* list does, and memory that was freed is on no list, in no socket and
\* nobody's.
OneOwner ==
  \A m \in Msgs :
    /\ \A p \in Procs : m \in owned[p] <=> owner[m] = p
    /\ state[m] = "free" => /\ owner[m] = None
                             /\ m \notin InTransit \cup lost
                             /\ requester[m] = None

\* A pointer that is in a socket is in one socket, once, and belongs to nobody:
\* whoever reads it is the only thread that can touch the message.
OnePointer ==
  /\ \A f \in FrontEnds :
       /\ IsInjective(toBE[f]) /\ IsInjective(toFE[f])
       /\ Range(toBE[f]) \cap Range(toFE[f]) = {}
       /\ \A m \in InPipe(f) : owner[m] = None /\ m \notin lost
       /\ \A g \in FrontEnds \ {f} : InPipe(f) \cap InPipe(g) = {}

\* A message without an owner is 'in limbo' only while it is being transferred:
\* it is in a socket, unless its write reported zero bytes.
LimboIsTransfer ==
  \A m \in Msgs :
    state[m] # "free" /\ owner[m] = None => m \in InTransit \cup lost

\* The assertions of queue_msg_for_pulsing() and pulse_marked_messages(): a
\* marked message is owned by the thread that marked it, and marked once, so a
\* pulse never touches a message that has left or was deleted.
MarkedIsOwned ==
  \A p \in Procs : IsInjective(pulsing[p]) /\ Range(pulsing[p]) \subseteq owned[p]

\* Every message that sits with a thread whose turn it is not, and every one
\* that is to be destroyed, is marked for pulsing: no hand-over is forgotten.
HandOverPending ==
  \A p \in Procs, m \in Msgs :
    LET away == \/ state[m] \in RStates /\ p # BE
                \/ state[m] \in TStates /\ p # requester[m]
    IN m \in owned[p] /\ (away \/ state[m] = "DESTRUCTION") => m \in Range(pulsing[p])

\* What travels to the back-end is a command of that front-end to execute;
\* what travels back is a finished request of that front-end.
PipesCarryTheirOwn ==
  \A f \in FrontEnds :
    /\ \A m \in InPipe(f) : requester[m] = f
    /\ \A m \in Range(toBE[f]) : state[m] = "EXEC_COMMAND"
    /\ \A m \in Range(toFE[f]) : state[m] \in {"RESPONSE_COMPLETE", "FAILED"}

\* The message a blocked front-end receives is the one it waits for
\* (interthread_comm.cpp: anything else means the interconnection "is
\* untrustworthy"): whatever request of a front-end is not back and finished
\* is the single one it blocks on, unless the stop ended its wait.
PopsTheAwaited ==
  \A f \in FrontEnds, m \in Msgs :
    requester[m] = f /\ (stopped => waiting[f] # None)
    /\ ~(owner[m] = f /\ state[m] \in {"RESPONSE_COMPLETE", "FAILED"})
      => waiting[f] = m

\* On a connection that never broke, every request that awaits the time has an
\* answer of its own still to come.
AnswerOwed == drops = 0 => owed >= Cardinality(AwaitingTime)

\* The response object of a callback is deleted before the next TWS message
\* is handled.
ResponsesDeletedInTime == phase = "event" => state[Response] = "free"

\* "Messages are ALWAYS returned to their requester for destruction": memory is
\* freed only by the thread that created the message, while it owns it.
DeletedByRequester ==
  [][\A m \in Msgs : state[m] # "free" /\ state'[m] = "free"
        => /\ owner[m] = requester[m]
           /\ owner[m] = BE => phase \in PulsePhases]_vars

\* A front-end replies to its client only with a request that came back to it,
\* as long as the server is not being stopped.
RepliesWithAnswer ==
  [][\A f \in FrontEnds :
       LET m == waiting[f] IN
       ~stopped /\ m # None /\ waiting'[f] = None
         => owner'[m] = f /\ state'[m] \in {"RESPONSE_COMPLETE", "FAILED"}]_vars

-----------------------------------------------------------------------------
(* Refinement of the service the front-ends see *)

\* The stage of a front-end's request, read off where it is and its state.
StageOf(m) ==
  LET f == requester[m] IN
  CASE f \notin FrontEnds -> "none"
    [] f \in FrontEnds /\ m \in lost -> "vanished"
    [] f \in FrontEnds /\ m \notin lost /\ owner[m] = BE ->
         IF state[m] \in RStates THEN "working" ELSE "finished"
    [] f \in FrontEnds /\ m \notin lost /\ owner[m] = None ->
         IF m \in Range(toBE[f]) THEN "asked" ELSE "finished"
    [] OTHER -> IF state[m] \in RStates THEN "unsent" ELSE "returned"

Service == INSTANCE TwsService WITH
  Requests <- Msgs,
  stage    <- [m \in Msgs |-> StageOf(m)],
  asker    <- [m \in Msgs |-> IF requester[m] \in FrontEnds THEN requester[m] ELSE None],
  blocked  <- waiting,
  closed   <- stopped

\* The message layer implements the service.
ImplementsService == Service!Spec

-----------------------------------------------------------------------------
(* Liveness *)

\* select() finds TWS silent, so the loop turns through fetching new paths.
SelectQuiet == phase = "select" /\ BeReceive /\ phase' = "fetch"
\* select() finds TWS readable, so the loop is left to read.
SelectBusy  == phase = "select" /\ BeReceive /\ phase' = "busy_pulse"
\* The read buffer runs empty, so that io_receive() is called again.
BufferEmpty == phase = "top_pulse" /\ BePulseDone /\ phase' = "select"

\* Both threads keep running; TWS traffic neither ceases nor fills every gap,
\* no read delivers messages without end, TWS answers what it owes, and a
\* socketpair does not fail for ever.
FairSpec ==
  /\ Spec
  /\ \A f \in FrontEnds : WF_vars(FePop(f)) /\ WF_vars(FeGiveUp(f))
  /\ WF_vars(BeThread)
  /\ SF_vars(SelectQuiet) /\ SF_vars(SelectBusy) /\ SF_vars(BufferEmpty)
  /\ SF_vars(BeAnswerTime)
  /\ SF_vars(BePostSent)

\* A request that reached the socket is answered to its front-end, unless the
\* server is stopped or a write drops the message: no path stays unknown to the
\* back-end, no hand-over is forgotten, no answer goes to the wrong request.
RequestsAnswered ==
  \A f \in FrontEnds, m \in Msgs :
    waiting[f] = m /\ m \in InPipe(f)
      ~> stopped \/ m \in lost \/ (waiting[f] # m /\ owner[m] = f)
=============================================================================
