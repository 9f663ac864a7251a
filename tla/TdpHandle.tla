----------------------------- MODULE TdpHandle -----------------------------
(***************************************************************************)
(* TdpHandle::request_tx_bodies and ::deliver_response: concurrent callers *)
(* ask the Template Provider for the transactions of a template, one       *)
(* request per template at a time.  The waiter of a template is a oneshot  *)
(* sender kept in pending_requests; the tee task hands each answer to the  *)
(* waiter it finds there.                                                  *)
(*                                                                         *)
(* One action is the code between two points at which another task can     *)
(* run: the lock of pending_requests is released, an await returns.  A     *)
(* caller is one call of request_tx_bodies.                                *)
(***************************************************************************)
EXTENDS Naturals

CONSTANTS
    Callers,    \* calls of request_tx_bodies
    Templates,  \* template ids
    None        \* Option::None

\* What an answer amounts to: decodable bodies, RequestTransactionDataError, or
\* bytes that are not transactions.
Answers == {"bodies", "tp_rejected", "decode_failed"}
Outcomes == Answers \cup {"duplicate", "send_failed", "demux_closed", "timeout"}

VARIABLES
    pending,   \* pending_requests: template id -> the caller whose sender it holds
    slot,      \* the receiver half of each caller's oneshot
    asked,     \* template id -> requests sent and not answered yet
    handing,   \* the sender and answer deliver_response has in hand, if any
    link,      \* "up" while the merge task holds the request channel's receiver
    pc, template, outcome   \* per caller

handle_vars == <<pending, slot, asked, handing, link, pc, template, outcome>>

\* "open": nothing sent yet; an answer; "closed": the sender was dropped;
\* "gone": the receiver was dropped.
Slots == {"none", "open", "closed", "gone"} \cup Answers
Handing == [to: Callers, answer: Answers]

ASSUME HandleAssumption ==
    /\ None \notin Callers /\ None \notin Templates
    /\ None \notin Outcomes /\ None \notin Handing

HandleTypeOK ==
    /\ pending \in [Templates -> Callers \cup {None}]
    /\ slot \in [Callers -> Slots]
    /\ asked \in [Templates -> Nat]
    /\ handing \in Handing \cup {None}
    /\ link \in {"up", "down"}
    /\ pc \in [Callers -> {"idle", "send", "wait", "cleanup", "done"}]
    /\ template \in [Callers -> Templates \cup {None}]
    /\ outcome \in [Callers -> Outcomes \cup {None}]

HandleInit ==
    /\ pending = [t \in Templates |-> None]
    /\ slot = [c \in Callers |-> "none"]
    /\ asked = [t \in Templates |-> 0]
    /\ handing = None
    /\ link = "up"
    /\ pc = [c \in Callers |-> "idle"]
    /\ template = [c \in Callers |-> None]
    /\ outcome = [c \in Callers |-> None]

-----------------------------------------------------------------------------
(***************************************************************************)
(* request_tx_bodies                                                       *)
(***************************************************************************)

Goto(c, step) == pc' = [pc EXCEPT ![c] = step]
Decide(c, result) == outcome' = [outcome EXCEPT ![c] = result]

\* Dropping the sender of a caller wakes it, if it is still listening.  (The
\* *Mutant definitions are plausible bugs that some property must catch.)
DropSender(who) == [c \in Callers |-> IF c = who /\ slot[c] = "open" THEN "closed" ELSE slot[c]]

\* A bug: the entry of a request in flight is overwritten, which drops its sender.
RegisterMutant(c) ==
    /\ pc[c] = "idle"
    /\ \E t \in Templates :
          /\ template' = [template EXCEPT ![c] = t]
          /\ pending' = [pending EXCEPT ![t] = c]
          /\ slot' = [DropSender(pending[t]) EXCEPT ![c] = "open"]
          /\ Goto(c, "send")
    /\ UNCHANGED <<asked, handing, link, outcome>>

\* Register the oneshot, unless a request for the template is in flight.
Register(c) ==
    /\ pc[c] = "idle"
    /\ \E t \in Templates :
          /\ template' = [template EXCEPT ![c] = t]
          /\ \/ /\ pending[t] # None
                /\ Goto(c, "done") /\ Decide(c, "duplicate")
                /\ UNCHANGED <<pending, slot>>
             \/ /\ pending[t] = None
                /\ pending' = [pending EXCEPT ![t] = c]
                /\ slot' = [slot EXCEPT ![c] = "open"]
                /\ Goto(c, "send") /\ UNCHANGED outcome
    /\ UNCHANGED <<asked, handing, link>>

\* The channel is unbounded: send completes at once, or fails on a closed one.
Send(c) ==
    /\ pc[c] = "send"
    /\ \/ /\ link = "up"
          /\ asked' = [asked EXCEPT ![template[c]] = @ + 1]
          /\ Goto(c, "wait") /\ UNCHANGED <<slot, outcome>>
       \/ /\ link = "down"
          /\ slot' = [slot EXCEPT ![c] = "gone"]
          /\ Goto(c, "cleanup") /\ Decide(c, "send_failed") /\ UNCHANGED asked
    /\ UNCHANGED <<pending, handing, link, template>>

\* The answer arrives.  timeout() polls the receiver first, so an answer in
\* hand wins over a deadline that has passed.
Receive(c) ==
    /\ pc[c] = "wait"
    /\ slot[c] \in Answers
    /\ Decide(c, slot[c]) /\ Goto(c, "done")
    /\ UNCHANGED <<pending, slot, asked, handing, link, template>>

\* The sender was dropped unused.
SeeClosed(c) ==
    /\ pc[c] = "wait"
    /\ slot[c] = "closed"
    /\ Decide(c, "demux_closed") /\ Goto(c, "cleanup")
    /\ UNCHANGED <<pending, slot, asked, handing, link, template>>

\* A bug: there is no deadline.
ElapseMutant(c) == FALSE /\ UNCHANGED handle_vars

\* The deadline passes with nothing received; the receiver is dropped.
Elapse(c) ==
    /\ pc[c] = "wait"
    /\ slot[c] = "open"
    /\ slot' = [slot EXCEPT ![c] = "gone"]
    /\ Decide(c, "timeout") /\ Goto(c, "cleanup")
    /\ UNCHANGED <<pending, asked, handing, link, template>>

\* A bug: the entry is left behind.
CleanupMutant(c) ==
    /\ pc[c] = "cleanup"
    /\ Goto(c, "done")
    /\ UNCHANGED <<pending, slot, asked, handing, link, template, outcome>>

\* Remove whatever the map holds for the template and return.
Cleanup(c) ==
    LET t == template[c] IN
    /\ pc[c] = "cleanup"
    /\ pending' = [pending EXCEPT ![t] = None]
    /\ slot' = DropSender(pending[t])
    /\ Goto(c, "done")
    /\ UNCHANGED <<asked, handing, link, template, outcome>>

-----------------------------------------------------------------------------
(***************************************************************************)
(* deliver_response, and the tasks around it.                              *)
(***************************************************************************)

\* The tee has an answer for template t: take the waiter out of the map.  An
\* answer without a waiter is dropped.
DeliverTake(t) ==
    /\ handing = None /\ asked[t] > 0
    /\ asked' = [asked EXCEPT ![t] = @ - 1]
    /\ \E a \in Answers :
          handing' = IF pending[t] = None THEN None ELSE [to |-> pending[t], answer |-> a]
    /\ pending' = [pending EXCEPT ![t] = None]
    /\ UNCHANGED <<slot, link, pc, template, outcome>>

\* A bug: a rejection is logged and its sender kept for a retry that never comes.
DeliverSendMutant ==
    /\ handing # None
    /\ slot' = [c \in Callers |->
          IF c = handing.to /\ slot[c] = "open" /\ handing.answer # "tp_rejected"
          THEN handing.answer ELSE slot[c]]
    /\ handing' = None
    /\ UNCHANGED <<pending, asked, link, pc, template, outcome>>

\* Send into the oneshot; a receiver that has gone makes it fail silently.
DeliverSend ==
    /\ handing # None
    /\ slot' = [c \in Callers |-> IF c = handing.to /\ slot[c] = "open"
                                  THEN handing.answer ELSE slot[c]]
    /\ handing' = None
    /\ UNCHANGED <<pending, asked, link, pc, template, outcome>>

\* The merge task exits: requests already sent may stay unanswered (as they may
\* with a Template Provider that never answers), later sends fail.
LinkDown ==
    /\ link = "up"
    /\ link' = "down"
    /\ UNCHANGED <<pending, slot, asked, handing, pc, template, outcome>>

\* The steps of a call once it has registered: they run to completion.
Continue(c) == Send(c) \/ Receive(c) \/ SeeClosed(c) \/ Elapse(c) \/ Cleanup(c)

HandleNext == \/ \E c \in Callers : Register(c) \/ Continue(c)
        \/ \E t \in Templates : DeliverTake(t)
        \/ DeliverSend \/ LinkDown

HandleSpec == HandleInit /\ [][HandleNext]_handle_vars

\* The runtime polls every task that can make progress and fires its timers.
\* Nothing is assumed of the Template Provider.
HandleFairSpec == HandleSpec /\ \A c \in Callers : WF_handle_vars(Continue(c))

-----------------------------------------------------------------------------
(***************************************************************************)
(* Properties                                                              *)
(***************************************************************************)

\* No caller is forgotten: while a call listens on an open oneshot, its sender
\* is in the map or in deliver_response's hands.
NoLostWaiter ==
    \A c \in Callers : slot[c] = "open" =>
        pending[template[c]] = c \/ (handing # None /\ handing.to = c)

\* No entry outlives its call.  A leaked one would refuse every later request
\* for that template as a duplicate.
NoLeakedEntry ==
    \A t \in Templates : pending[t] # None =>
        template[pending[t]] = t /\ pc[pending[t]] \in {"send", "wait", "cleanup"}

\* A call that timed out is the only thing that can cost another call its
\* answer: whoever saw its sender dropped shares the template with a call that
\* gave up.
ClosedByGivingUp ==
    \A c \in Callers : slot[c] = "closed" =>
        \E e \in Callers \ {c} : /\ template[e] = template[c]
                                 /\ outcome[e] \in {"timeout", "send_failed", "demux_closed"}

\* Every request comes back, whatever the Template Provider and the tasks in
\* between do.
EveryRequestReturns == \A c \in Callers : pc[c] = "send" ~> pc[c] = "done"
=============================================================================
