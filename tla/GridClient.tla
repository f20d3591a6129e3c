------------------------------- MODULE GridClient -------------------------------
(***************************************************************************)
(* grid/client.py on worker nodes, and the master it calls, seen through   *)
(* RequestGate.                                                            *)
(*                                                                         *)
(* A call (registration, heartbeat, poll, result, memory, status) is a     *)
(* request that is sent up to four times: again after a server error, a    *)
(* timeout or a failure to connect; not after a refusal, a broken          *)
(* connection or an unreadable answer.  A request that the client has      *)
(* given up on may still be on its way, be handled, and be handled again   *)
(* by the next attempt.                                                    *)
(***************************************************************************)
EXTENDS RequestGate

CONSTANT MAX_ATTEMPTS      \* 1 + len(_RETRY_DELAYS)

ASSUME ClientAssumption == MAX_ATTEMPTS \in Nat \ {0}

VARIABLES
  call,     \* the call of each client: where it is, how often it was tried, how the
            \* last one ended; history: did the master do what it asks for?
  steady    \* do network, database and master work from now on?

vars == <<gateVars, call, steady>>

TypeOK ==
  /\ GateTypeOK
  /\ call \in [Callers -> [pc : {"idle", "sent", "served", "backoff"},
                           attempt : 0..MAX_ATTEMPTS,
                           outcome : {"none", "ok", "refused", "error"},
                           effect : BOOLEAN]]
  /\ steady \in BOOLEAN

Init ==
  /\ GateInit
  /\ call = [c \in Callers |-> [pc |-> "idle", attempt |-> 0, outcome |-> "none",
                                effect |-> FALSE]]
  /\ steady = FALSE

--------------------------------------------------------------------------------
\* _http_post(), _http_get()

SetCall(c, state) == call' = [call EXCEPT ![c] = state]
Return(c, outcome) == SetCall(c, [call[c] EXCEPT !.pc = "idle", !.outcome = outcome])

\* A request of an earlier call may still be on its way, or served.
BeginCall(c) ==
  /\ call[c].pc = "idle"
  /\ SetCall(c, [pc |-> "sent", attempt |-> 1, outcome |-> "none", effect |-> FALSE])
  /\ thread' = [t \in Threads |-> IF thread[t].from = c
                                  THEN [thread[t] EXCEPT !.call = "late"] ELSE thread[t]]
  /\ UNCHANGED <<window, accepted, admitted, crowded, steady>>

TryAgain(c) ==
  /\ call[c].pc = "backoff"
  /\ SetCall(c, [call[c] EXCEPT !.pc = "sent", !.attempt = @ + 1])
  /\ UNCHANGED <<gateVars, steady>>

\* Mutant: the delays never run out.
FailsForEver(c) == SetCall(c, [call[c] EXCEPT !.pc = "backoff"])

\* The loop goes on with the next delay, or raises the last exception.
AttemptFails(c) ==
  IF call[c].attempt < MAX_ATTEMPTS
  THEN SetCall(c, [call[c] EXCEPT !.pc = "backoff"])
  ELSE Return(c, "error")

\* The request is still on its way, or served, and nobody waits for its answer.
Abandoned(c) ==
  [t \in Threads |-> IF thread[t].from = c /\ thread[t].call = "awaited"
                     THEN [thread[t] EXCEPT !.call = "current"] ELSE thread[t]]

\* No connection, or a timeout of a request that is lost.
NoConnection(c) ==
  /\ ~steady /\ call[c].pc = "sent"
  /\ AttemptFails(c)
  /\ UNCHANGED <<gateVars, steady>>

TimeOut(c) ==
  /\ ~steady /\ call[c].pc = "served"
  /\ AttemptFails(c)
  /\ thread' = Abandoned(c)
  /\ UNCHANGED <<window, accepted, admitted, crowded, steady>>

\* A broken connection or an answer that is not JSON: raised at once.
BreakConnection(c) ==
  /\ ~steady /\ call[c].pc = "served"
  /\ Return(c, "error")
  /\ thread' = Abandoned(c)
  /\ UNCHANGED <<window, accepted, admitted, crowded, steady>>

--------------------------------------------------------------------------------
\* The master

Deliver(t, c) ==
  /\ call[c].pc = "sent"
  /\ ReceiveRequest(t, c)
  /\ SetCall(c, [call[c] EXCEPT !.pc = "served"])
  /\ UNCHANGED steady

\* An error of the handler may come before or after it has done its work.
HandleRequest(t) ==
  /\ \/ Handle(t, "done")
     \/ ~steady /\ Handle(t, "failed")
  /\ \/ /\ thread[t].call # "late"
        /\ call' = [call EXCEPT ![thread[t].from].effect = TRUE]
     \/ /\ thread[t].call = "late" \/ thread'[t].answer = "failed"
        /\ UNCHANGED call
  /\ UNCHANGED steady

\* Mutant: an error answer is parsed and returned like any other.
BodyIsReturned(c, answer) == Return(c, "ok")

\* _raise_for_status() and the branches of the loop.
TakeAnswer(c, answer) ==
  CASE answer = "done" -> Return(c, "ok")
    [] answer \in {"limited", "refused"} -> Return(c, "refused")
    [] answer = "failed" -> AttemptFails(c)

AnswerRequest(t) ==
  /\ Reply(t)
  /\ IF thread[t].call = "awaited" THEN TakeAnswer(thread[t].from, thread[t].answer)
                                   ELSE UNCHANGED call
  /\ UNCHANGED steady

\* Connections break.
Restart ==
  /\ ~steady
  /\ ForgetEverything
  /\ call' = [c \in Callers |-> IF call[c].pc = "served"
                                THEN [call[c] EXCEPT !.pc = "idle", !.outcome = "error"]
                                ELSE call[c]]
  /\ UNCHANGED steady

Settle ==
  /\ ~steady /\ steady' = TRUE
  /\ UNCHANGED <<gateVars, call>>

--------------------------------------------------------------------------------

ThreadStep(t) ==
  \/ CheckStep(t) /\ UNCHANGED <<call, steady>>
  \/ HandleRequest(t)
  \/ AnswerRequest(t)

ClientStep(c) == BeginCall(c) \/ TryAgain(c)

Next ==
  \/ \E t \in Threads : \/ ThreadStep(t)
                        \/ \E c \in Callers : Deliver(t, c)
  \/ \E c \in Callers :
       \/ ClientStep(c) \/ NoConnection(c) \/ TimeOut(c) \/ BreakConnection(c)
       \/ ~steady /\ EndCredential(c) /\ UNCHANGED <<call, steady>>
  \/ Restart
  \/ Settle
  \/ Tick /\ UNCHANGED <<call, steady>>

\* Once nothing fails any more, server threads run, workers go on calling, time passes,
\* and a request finds a thread.
FairSpec ==
  /\ Init /\ [][Next]_vars
  /\ \A t \in Threads : WF_vars(steady /\ ThreadStep(t))
  /\ \A c \in Callers : /\ WF_vars(steady /\ ClientStep(c))
                        /\ WF_vars(steady /\ \E t \in Threads : Deliver(t, c))
  /\ WF_vars(steady /\ Tick /\ UNCHANGED <<call, steady>>)

--------------------------------------------------------------------------------
\* Properties

\* A call that returns was done by the master, and one that is refused at its first
\* attempt was not, although answers are lost, requests arrive late and are handled
\* again.  (Of a call that ends in an error, or is refused later, nothing is known.)
OutcomeIsTrue ==
  \A c \in Callers :
    /\ call[c].outcome = "ok" => call[c].effect
    /\ call[c].outcome = "refused" /\ call[c].attempt = 1 => ~call[c].effect

\* "Try again in 60 seconds": once nothing fails any more, a worker whose key is good
\* gets a call through again and again, whatever its own calls, retries and late requests left
\* in the window.
LinkRecovers ==
  \A c \in Callers : <>[](steady /\ c \in accepted) => []<>(call[c].outcome = "ok")
================================================================================
