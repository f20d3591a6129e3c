---------------------------- MODULE GridClientProofs ----------------------------
(***************************************************************************)
(* What a worker may conclude from the outcome of a call, and what the     *)
(* rate limit lets through, with any number of workers, server threads and *)
(* attempts, any limit and any length of the window.                       *)
(***************************************************************************)
EXTENDS GridClient, TLAPS

ThreadState == [pc : {"free", "arrived", "verify", "handle", "answer"} \cup Limiting,
                from : Callers \cup {NoCaller},
                call : {"awaited", "current", "late"},
                age : 0..SLOW, kept : Windows,
                answer : Answers \cup {"none"}]

CallState == [pc : {"idle", "sent", "served", "backoff"},
              attempt : 0..MAX_ATTEMPTS,
              outcome : {"none", "ok", "refused", "error"},
              effect : BOOLEAN]

\* TypeOK, by the names above.
Typed ==
  /\ window \in [Callers -> Windows] /\ admitted \in [Callers -> Windows]
  /\ accepted \subseteq Callers /\ crowded \subseteq Callers
  /\ thread \in [Threads -> ThreadState]
  /\ call \in [Callers -> CallState]
  /\ steady \in BOOLEAN

\* A thread has a caller, whose call is served if it waits for the thread's answer; and the
\* answer to the call that is under way says what became of it.
Answering ==
  \A t \in Threads :
    /\ thread[t].pc = "free" => thread[t].call = "late"
    /\ thread[t].pc # "free" => thread[t].from \in Callers
    /\ thread[t].pc = "answer" <=> thread[t].answer # "none"
    /\ thread[t].call = "awaited" => call[thread[t].from].pc = "served"
    /\ thread[t].call # "late" /\ thread[t].answer = "done" => call[thread[t].from].effect

\* A caller waits for one thread.
OneAnswer ==
  \A t, u \in Threads :
    thread[t].call = "awaited" /\ thread[u].call = "awaited" /\ thread[t].from = thread[u].from
      => t = u

Trying ==
  \A c \in Callers :
    /\ call[c].pc # "idle" => call[c].outcome = "none" /\ call[c].attempt # 0
    /\ call[c].pc = "backoff" => call[c].attempt < MAX_ATTEMPTS

\* Threads that serve the call that c made last.
Serving(c) == {t \in Threads : thread[t].from = c /\ thread[t].call # "late"}

\* Until the first attempt of a call is answered or given up, only the thread that is waited
\* for can do its work; if the answer is a refusal there was none, and will be none.
FirstAttempt ==
  \A c \in Callers : call[c].attempt = 1 =>
    /\ call[c].pc = "sent" \/ call[c].outcome = "refused" =>
         ~call[c].effect /\ Serving(c) = {}
    /\ call[c].pc = "served" =>
         \A t \in Serving(c) :
           /\ thread[t].call = "awaited"
           /\ call[c].effect => thread[t].answer \in {"done", "failed"}

OutcomeInv == Answering /\ OneAnswer /\ Trying /\ FirstAttempt /\ OutcomeIsTrue

(* The rate limit *)

\* w counts no more than past does, or past is at the limit.
Within(w, past) == \A a \in Ages : w[a] <= past[a] \/ past[a] >= RPM
Agree(w, past, age) == \A a \in Ages : a < age => w[a] = past[a]

\* Overlapping requests lose entries of each other, and add none that was not admitted.
NothingAdded ==
  /\ \A c \in Callers : Within(window[c], admitted[c])
  /\ \A t \in Threads :
       At(t, "store") => Within(thread[t].kept, admitted[thread[t].from])

OverlapSeen ==
  \A t, u \in Threads :
    /\ thread[t].pc \in Limiting /\ thread[u].pc \in Limiting
    /\ thread[t].from = thread[u].from /\ t # u
    => thread[t].from \in crowded

\* How far back the request looks that t serves.
Reach(t) == WINDOW + thread[t].age

\* What t knows of the requests of c, if no other request of c is at the limit.
KnownTo(t, c) ==
  /\ Agree(window[c], admitted[c], Reach(t))
  /\ At(t, "store") => Agree(thread[t].kept, admitted[c], Reach(t))
  /\ At(t, "append") => \A a \in Ages : a < Reach(t) => admitted[c][a] < RPM

\* As far as the request under way looks back, the window of a caller whose requests never
\* overlapped holds what was admitted.
NothingLost ==
  \A c \in Callers \ crowded :
    /\ Agree(window[c], admitted[c], WINDOW)
    /\ \A a \in Ages : a < WINDOW => admitted[c][a] <= RPM
    /\ \A t \in Checking(c) : KnownTo(t, c)

Unstarted == \A t \in Threads : At(t, "arrived") => thread[t].age = 0

RateInv == NothingAdded /\ OverlapSeen /\ NothingLost /\ Unstarted

--------------------------------------------------------------------------------
(* Types *)

LEMMA AgesAre ==
  /\ Oldest \in Ages /\ Oldest \in Nat /\ 0..SLOW \subseteq Ages /\ 0 \in 0..SLOW
  /\ \A a \in Ages : a \in Nat /\ a <= Oldest /\ (a # 0 => a - 1 \in Ages)
  /\ \A g \in 0..SLOW : WINDOW + g - 1 \in Ages
  /\ WINDOW \in Nat \ {0} /\ SLOW \in Nat /\ RPM \in Nat \ {0}
<1>1. WINDOW \in Nat \ {0} /\ SLOW \in Nat /\ RPM \in Nat \ {0} BY GateAssumption
<1>2. QED BY <1>1 DEF Ages, Oldest

LEMMA WindowTypes ==
  /\ Empty \in Windows /\ 0..SLOW \subseteq Ages /\ 0 \in 0..SLOW
  /\ \A w \in Windows : Older(w) \in Windows /\ Latest(w) \in Windows
  /\ \A w \in Windows, age \in Ages : Counted(w, age) \in Windows /\ Recent(w, age) \in Windows
<1>1. 0..SLOW \subseteq Ages /\ 0 \in 0..SLOW BY AgesAre
<1>2. Empty \in Windows BY DEF Empty, Windows
<1>3. ASSUME NEW w \in Windows PROVE Older(w) \in Windows
  <2>1. Older(w) \in [Ages -> Nat] BY <1>3, AgesAre DEF Older, Windows
  <2>2. ASSUME NEW a \in Ages, NEW b \in Ages, a <= b PROVE Older(w)[a] <= Older(w)[b]
    <3>1. CASE a = 0 BY <2>1, <3>1 DEF Older
    <3>2. CASE a # 0
      <4>1. b # 0 /\ a - 1 \in Ages /\ b - 1 \in Ages /\ a - 1 <= b - 1
        BY <2>2, <3>2, AgesAre
      <4>2. Older(w)[a] = w[a - 1] /\ Older(w)[b] = w[b - 1] BY <3>2, <4>1 DEF Older
      <4>3. QED BY <4>1, <4>2 DEF Windows
    <3>3. QED BY <3>1, <3>2
  <2>3. QED BY <2>1, <2>2 DEF Windows
<1>4. ASSUME NEW w \in Windows PROVE Latest(w) \in Windows
  <2>1. Latest(w) \in [Ages -> Nat] BY <1>4, AgesAre DEF Latest, Windows
  <2>2. ASSUME NEW a \in Ages, NEW b \in Ages, a <= b PROVE Latest(w)[a] <= Latest(w)[b]
    <3>1. w[a] <= w[b] /\ w[a] \in Nat /\ w[b] \in Nat BY <2>2 DEF Windows
    <3>2. QED BY <3>1, AgesAre DEF Latest
  <2>3. QED BY <2>1, <2>2 DEF Windows
<1>5. ASSUME NEW w \in Windows, NEW age \in Ages PROVE Counted(w, age) \in Windows
  <2>1. Counted(w, age) \in [Ages -> Nat] BY DEF Counted, Windows
  <2>2. ASSUME NEW a \in Ages, NEW b \in Ages, a <= b
        PROVE  Counted(w, age)[a] <= Counted(w, age)[b]
    <3>1. w[a] <= w[b] /\ w[a] \in Nat /\ w[b] \in Nat BY <2>2 DEF Windows
    <3>2. a \in Nat /\ b \in Nat /\ age \in Nat BY AgesAre
    <3>3. QED BY <2>2, <3>1, <3>2 DEF Counted
  <2>3. QED BY <2>1, <2>2 DEF Windows
<1>6. ASSUME NEW w \in Windows, NEW age \in Ages PROVE Recent(w, age) \in Windows
  <2>1. Recent(w, age) \in [Ages -> Nat] BY DEF Recent, Windows
  <2>2. ASSUME NEW a \in Ages, NEW b \in Ages, a <= b
        PROVE  Recent(w, age)[a] <= Recent(w, age)[b]
    <3>1. \A x, y \in Ages : x <= y => w[x] <= w[y] BY DEF Windows
    <3>2. a \in Nat /\ b \in Nat /\ age \in Nat BY AgesAre
    <3>3. QED BY <2>2, <3>1, <3>2 DEF Recent
  <2>3. QED BY <2>1, <2>2 DEF Windows
<1>7. QED BY <1>1, <1>2, <1>3, <1>4, <1>5, <1>6

LEMMA FreeTyped == Free \in ThreadState
<1>1. Empty \in Windows /\ 0 \in 0..SLOW BY WindowTypes
<1>2. QED BY <1>1 DEF Free, ThreadState

LEMMA ThreadBecomes ==
  ASSUME Typed, NEW t \in Threads, NEW state \in ThreadState, Becomes(t, state)
  PROVE  /\ thread' \in [Threads -> ThreadState]
         /\ thread'[t] = state
         /\ \A u \in Threads \ {t} : thread'[u] = thread[u]
BY DEF Typed, Becomes

LEMMA CallBecomes ==
  ASSUME Typed, NEW c \in Callers, NEW state \in CallState, SetCall(c, state)
  PROVE  /\ call' \in [Callers -> CallState]
         /\ call'[c] = state
         /\ \A d \in Callers \ {c} : call'[d] = call[d]
BY DEF Typed, SetCall

LEMMA AnswerTyped ==
  ASSUME Typed, NEW t \in Threads, NEW answer \in Answers, AnswerWith(t, answer)
  PROVE  \E state \in ThreadState :
           /\ Becomes(t, state)
           /\ state.pc = "answer" /\ state.answer = answer
           /\ state.from = thread[t].from /\ state.call = thread[t].call
<1> DEFINE state == [Free EXCEPT !.pc = "answer", !.from = thread[t].from,
                                 !.call = thread[t].call, !.answer = answer]
<1>1. Becomes(t, state) BY DEF AnswerWith
<1>2. thread[t] \in ThreadState BY DEF Typed
<1>3. state \in ThreadState BY <1>2, FreeTyped DEF ThreadState
<1>4. /\ state.pc = "answer" /\ state.answer = answer
      /\ state.from = thread[t].from /\ state.call = thread[t].call
  BY FreeTyped DEF ThreadState
<1> HIDE DEF state
<1>5. QED BY <1>1, <1>3, <1>4

\* A thread that goes on without doing the work of its request.
Checks(t, state) ==
  /\ thread[t].pc \notin {"free", "answer"} /\ state.pc # "free"
  /\ state.from = thread[t].from /\ state.call = thread[t].call
  /\ state.pc = "answer" <=> state.answer # "none"
  /\ state.answer # "done"

LEMMA CheckStepTyped ==
  ASSUME Typed, Answering, NEW t \in Threads, CheckStep(t)
  PROVE  /\ \E state \in ThreadState : Becomes(t, state) /\ Checks(t, state)
         /\ window' \in [Callers -> Windows] /\ admitted' \in [Callers -> Windows]
         /\ accepted' \subseteq Callers /\ crowded' \subseteq Callers
<1>1. thread[t] \in ThreadState BY DEF Typed
<1>2. thread[t].pc # "free" => thread[t].from \in Callers BY DEF Answering
<1>3. thread[t].pc # "answer" => thread[t].answer = "none" BY DEF Answering
<1>4. ASSUME NEW l \in {"copy", "append", "handle"}, GoTo(t, l),
             thread[t].pc \notin {"free", "answer"}
      PROVE  \E state \in ThreadState : Becomes(t, state) /\ Checks(t, state)
  <2> DEFINE state == [thread[t] EXCEPT !.pc = l]
  <2>1. Becomes(t, state) BY <1>4 DEF GoTo
  <2>2. state \in ThreadState BY <1>1, <1>4 DEF ThreadState, Limiting
  <2>3. Checks(t, state) BY <1>1, <1>3, <1>4 DEF Checks, ThreadState
  <2> HIDE DEF state
  <2>4. QED BY <2>1, <2>2, <2>3
<1>5. ASSUME NEW answer \in {"limited", "refused"}, AnswerWith(t, answer),
             thread[t].pc \notin {"free", "answer"}
      PROVE  \E state \in ThreadState : Becomes(t, state) /\ Checks(t, state)
  BY <1>5, AnswerTyped DEF Answers, Checks
<1>6. CASE ReadClock(t)
  <2>1. GoTo(t, "copy") /\ thread[t].pc = "arrived" /\ UNCHANGED <<window, accepted, admitted>>
    BY <1>6 DEF ReadClock, At
  <2>2. crowded' \subseteq Callers BY <1>2, <1>6, <2>1 DEF ReadClock, Typed
  <2>3. QED BY <1>4, <2>1, <2>2 DEF Typed
<1>7. CASE CopyWindow(t)
  <2> DEFINE w == Recent(window[thread[t].from], WINDOW + thread[t].age - 1)
             state == [thread[t] EXCEPT !.pc = "store", !.kept = w]
  <2>1. /\ Becomes(t, state) /\ thread[t].pc = "copy"
        /\ UNCHANGED <<window, accepted, admitted, crowded>>
    BY <1>7 DEF CopyWindow, At
  <2>2. window[thread[t].from] \in Windows BY <1>2, <2>1 DEF Typed
  <2>3. w \in Windows
    <3>1. WINDOW + thread[t].age - 1 \in Ages BY <1>1, AgesAre DEF ThreadState
    <3>2. QED BY <2>2, <3>1, WindowTypes
  <2> HIDE DEF w
  <2>4. state \in ThreadState BY <1>1, <2>3 DEF ThreadState, Limiting
  <2>5. Checks(t, state) BY <1>1, <1>3, <2>1 DEF Checks, ThreadState
  <2> HIDE DEF state
  <2>6. QED BY <2>1, <2>4, <2>5 DEF Typed
<1>8. CASE StoreWindow(t)
  <2> DEFINE state == [thread[t] EXCEPT !.pc = "compare", !.kept = Empty]
  <2>1. /\ Becomes(t, state) /\ thread[t].pc = "store" /\ UNCHANGED <<accepted, admitted, crowded>>
        /\ window' = [window EXCEPT ![thread[t].from] = thread[t].kept]
    BY <1>8 DEF StoreWindow, At
  <2>2. window' \in [Callers -> Windows]
    BY <1>1, <2>1 DEF Typed, ThreadState
  <2>3. state \in ThreadState BY <1>1, WindowTypes DEF ThreadState, Limiting
  <2>4. Checks(t, state) BY <1>1, <1>3, <2>1 DEF Checks, ThreadState
  <2> HIDE DEF state
  <2>5. QED BY <2>1, <2>2, <2>3, <2>4 DEF Typed
<1>9. CASE Compare(t)
  <2>1. /\ thread[t].pc = "compare" /\ UNCHANGED <<window, accepted, admitted, crowded>>
        /\ AnswerWith(t, "limited") \/ GoTo(t, "append")
    BY <1>9 DEF Compare, At
  <2>2. QED BY <1>4, <1>5, <2>1 DEF Typed
<1>10. CASE AppendRequest(t)
  <2> DEFINE state == [thread[t] EXCEPT !.pc = "verify", !.age = 0]
  <2>1. /\ Becomes(t, state) /\ thread[t].pc = "append" /\ UNCHANGED <<accepted, crowded>>
        /\ window' = [window EXCEPT ![thread[t].from] = Counted(@, thread[t].age)]
        /\ admitted' = [admitted EXCEPT ![thread[t].from] =
                          IF thread[t].from \in crowded THEN Latest(Counted(@, thread[t].age))
                                                        ELSE Counted(@, thread[t].age)]
    BY <1>10 DEF AppendRequest, At
  <2>2. thread[t].age \in Ages BY <1>1, WindowTypes DEF ThreadState
  <2>3. /\ Counted(window[thread[t].from], thread[t].age) \in Windows
        /\ Counted(admitted[thread[t].from], thread[t].age) \in Windows
        /\ Latest(Counted(admitted[thread[t].from], thread[t].age)) \in Windows
    BY <1>2, <2>1, <2>2, WindowTypes DEF Typed
  <2>4. window' \in [Callers -> Windows] /\ admitted' \in [Callers -> Windows]
    BY <2>1, <2>3 DEF Typed
  <2>5. state \in ThreadState BY <1>1, WindowTypes DEF ThreadState
  <2>6. Checks(t, state) BY <1>1, <1>3, <2>1 DEF Checks, ThreadState
  <2> HIDE DEF state
  <2>7. QED BY <2>1, <2>4, <2>5, <2>6 DEF Typed
<1>11. CASE Verify(t)
  <2>1. /\ thread[t].pc = "verify" /\ UNCHANGED <<window, accepted, admitted, crowded>>
        /\ AnswerWith(t, "refused") \/ GoTo(t, "handle")
    BY <1>11 DEF Verify, At
  <2>2. QED BY <1>4, <1>5, <2>1 DEF Typed
<1>12. QED BY <1>6, <1>7, <1>8, <1>9, <1>10, <1>11 DEF CheckStep

\* What a call becomes when an attempt fails.
LEMMA AttemptFailsTyped ==
  ASSUME Typed, Trying, NEW c \in Callers, AttemptFails(c), call[c].pc # "idle"
  PROVE  \E state \in CallState :
           /\ SetCall(c, state)
           /\ state.attempt = call[c].attempt /\ state.effect = call[c].effect
           /\ \/ state.pc = "backoff" /\ state.outcome = "none" /\ state.attempt < MAX_ATTEMPTS
              \/ state.pc = "idle" /\ state.outcome = "error"
<1>1. call[c] \in CallState /\ call[c].outcome = "none" BY DEF Typed, Trying
<1>2. CASE call[c].attempt < MAX_ATTEMPTS
  <2> DEFINE state == [call[c] EXCEPT !.pc = "backoff"]
  <2>1. SetCall(c, state) BY <1>2 DEF AttemptFails
  <2>2. state \in CallState BY <1>1 DEF CallState
  <2>3. /\ state.attempt = call[c].attempt /\ state.effect = call[c].effect
        /\ state.pc = "backoff" /\ state.outcome = "none"
    BY <1>1 DEF CallState
  <2> HIDE DEF state
  <2>4. QED BY <1>2, <2>1, <2>2, <2>3
<1>3. CASE ~(call[c].attempt < MAX_ATTEMPTS)
  <2> DEFINE state == [call[c] EXCEPT !.pc = "idle", !.outcome = "error"]
  <2>1. SetCall(c, state) BY <1>3 DEF AttemptFails, Return
  <2>2. state \in CallState BY <1>1 DEF CallState
  <2>3. /\ state.attempt = call[c].attempt /\ state.effect = call[c].effect
        /\ state.pc = "idle" /\ state.outcome = "error"
    BY <1>1 DEF CallState
  <2> HIDE DEF state
  <2>4. QED BY <2>1, <2>2, <2>3
<1>4. QED BY <1>2, <1>3

LEMMA ReturnTyped ==
  ASSUME Typed, NEW c \in Callers, NEW outcome \in {"ok", "refused", "error"},
         Return(c, outcome)
  PROVE  \E state \in CallState :
           /\ SetCall(c, state)
           /\ state.attempt = call[c].attempt /\ state.effect = call[c].effect
           /\ state.pc = "idle" /\ state.outcome = outcome
<1> DEFINE state == [call[c] EXCEPT !.pc = "idle", !.outcome = outcome]
<1>1. call[c] \in CallState BY DEF Typed
<1>2. SetCall(c, state) BY DEF Return
<1>3. state \in CallState BY <1>1 DEF CallState
<1>4. /\ state.attempt = call[c].attempt /\ state.effect = call[c].effect
      /\ state.pc = "idle" /\ state.outcome = outcome
  BY <1>1 DEF CallState
<1> HIDE DEF state
<1>5. QED BY <1>2, <1>3, <1>4

--------------------------------------------------------------------------------
(* What the outcome says *)

\* The threads' progress up to an answer that is not "done" tells a caller nothing new.
LEMMA ChecksKeepOutcome ==
  ASSUME OutcomeInv, UNCHANGED call,
         \A t \in Threads :
           /\ thread'[t].from = thread[t].from /\ thread'[t].call = thread[t].call
           /\ thread'[t].pc = "free" <=> thread[t].pc = "free"
           /\ thread'[t].pc = "answer" <=> thread'[t].answer # "none"
           /\ \/ thread'[t].answer = thread[t].answer
              \/ thread[t].answer = "none" /\ thread'[t].answer # "done"
  PROVE  OutcomeInv'
<1>1. Answering' BY DEF OutcomeInv, Answering
<1>2. OneAnswer' BY DEF OutcomeInv, OneAnswer
<1>3. Trying' /\ OutcomeIsTrue' BY DEF OutcomeInv, Trying, OutcomeIsTrue
<1>4. FirstAttempt'
  <2>1. \A c : Serving(c)' = Serving(c) BY DEF Serving
  <2>2. ASSUME NEW c \in Callers, NEW t \in Serving(c), call[c].attempt = 1,
               call[c].pc = "served"
        PROVE  /\ thread'[t].call = "awaited"
               /\ call[c].effect => thread'[t].answer \in {"done", "failed"}
    <3>1. t \in Threads BY DEF Serving
    <3>2. /\ thread[t].call = "awaited"
          /\ call[c].effect => thread[t].answer \in {"done", "failed"}
      BY <2>2 DEF OutcomeInv, FirstAttempt
    <3>3. thread[t].answer = "none" => ~call[c].effect BY <3>2
    <3>4. QED BY <3>1, <3>2, <3>3
  <2>3. QED BY <2>1, <2>2 DEF OutcomeInv, FirstAttempt
<1>5. QED BY <1>1, <1>2, <1>3, <1>4 DEF OutcomeInv

\* An attempt that is given up leaves nobody to wait, and no refusal.
LEMMA GivingUpKeepsOutcome ==
  ASSUME Typed, OutcomeInv, NEW c \in Callers, NEW state \in CallState, SetCall(c, state),
         state.attempt = call[c].attempt, call[c].pc # "idle",
         state.effect = call[c].effect,
         \/ state.pc = "backoff" /\ state.outcome = "none" /\ state.attempt < MAX_ATTEMPTS
         \/ state.pc = "idle" /\ state.outcome = "error",
         \A t \in Threads :
           /\ thread'[t].pc = thread[t].pc /\ thread'[t].from = thread[t].from
           /\ thread'[t].answer = thread[t].answer
           /\ IF thread[t].from = c /\ thread[t].call = "awaited"
              THEN thread'[t].call = "current" ELSE thread'[t].call = thread[t].call
  PROVE  OutcomeInv'
<1>1. call'[c] = state /\ \A d \in Callers \ {c} : call'[d] = call[d]
  BY CallBecomes
<1>2. Answering'
  <2> SUFFICES ASSUME NEW t \in Threads
               PROVE  /\ thread'[t].pc = "free" => thread'[t].call = "late"
                      /\ thread'[t].pc # "free" => thread'[t].from \in Callers
                      /\ thread'[t].pc = "answer" <=> thread'[t].answer # "none"
                      /\ thread'[t].call = "awaited" => call'[thread'[t].from].pc = "served"
                      /\ thread'[t].call # "late" /\ thread'[t].answer = "done"
                           => call'[thread'[t].from].effect
    BY DEF Answering
  <2>1. /\ thread[t].pc = "free" => thread[t].call = "late"
        /\ thread[t].pc # "free" => thread[t].from \in Callers
        /\ thread[t].pc = "answer" <=> thread[t].answer # "none"
        /\ thread[t].call = "awaited" => call[thread[t].from].pc = "served"
        /\ thread[t].call # "late" /\ thread[t].answer = "done"
             => call[thread[t].from].effect
    BY DEF OutcomeInv, Answering
  <2>2. thread'[t].call # "late" => thread[t].call # "late" /\ thread[t].from \in Callers
    BY <2>1
  <2>3. thread'[t].call = "awaited" => thread[t].call = "awaited" /\ thread[t].from # c
    OBVIOUS
  <2>4. thread[t].from \in Callers => call'[thread[t].from].effect = call[thread[t].from].effect
    BY <1>1
  <2>5. QED BY <1>1, <2>1, <2>2, <2>3, <2>4
<1>3. OneAnswer' BY DEF OutcomeInv, OneAnswer
<1>4. Trying' BY <1>1 DEF OutcomeInv, Trying
<1>5. OutcomeIsTrue' BY <1>1 DEF OutcomeInv, OutcomeIsTrue
<1>6. FirstAttempt'
  <2> SUFFICES ASSUME NEW d \in Callers, call'[d].attempt = 1
               PROVE  /\ call'[d].pc = "sent" \/ call'[d].outcome = "refused" =>
                           ~call'[d].effect /\ Serving(d)' = {}
                      /\ call'[d].pc = "served" =>
                           \A t \in Serving(d)' :
                             /\ thread'[t].call = "awaited"
                             /\ call'[d].effect => thread'[t].answer \in {"done", "failed"}
    BY DEF FirstAttempt
  <2>1. CASE d = c BY <1>1, <2>1
  <2>2. CASE d # c
    <3>1. call'[d] = call[d] BY <1>1, <2>2
    <3>2. Serving(d)' = Serving(d) BY <2>2 DEF Serving
    <3>3. \A t \in Serving(d) : /\ thread'[t].call = thread[t].call
                                /\ thread'[t].answer = thread[t].answer
      BY <2>2 DEF Serving
    <3>4. QED BY <3>1, <3>2, <3>3 DEF OutcomeInv, FirstAttempt
  <2>3. QED BY <2>1, <2>2
<1>7. QED BY <1>2, <1>3, <1>4, <1>5, <1>6 DEF OutcomeInv

\* From here on the threads that serve earlier calls of c are late.
LEMMA BeginCallKeepsOutcome ==
  ASSUME Typed, OutcomeInv, NEW c \in Callers, BeginCall(c)
  PROVE  OutcomeInv' /\ Typed'
<1> DEFINE state == [pc |-> "sent", attempt |-> 1, outcome |-> "none", effect |-> FALSE]
<1>1. state \in CallState /\ SetCall(c, state)
  BY ClientAssumption DEF BeginCall, CallState
<1>2. call'[c] = state /\ call' \in [Callers -> CallState]
      /\ \A d \in Callers \ {c} : call'[d] = call[d]
  BY <1>1, CallBecomes
<1>3. /\ state.pc = "sent" /\ state.attempt = 1 /\ state.outcome = "none" /\ state.effect = FALSE
  OBVIOUS
<1> HIDE DEF state
<1>4. /\ thread' = [t \in Threads |-> IF thread[t].from = c
                                      THEN [thread[t] EXCEPT !.call = "late"] ELSE thread[t]]
      /\ UNCHANGED <<window, accepted, admitted, crowded, steady>>
  BY DEF BeginCall
<1>5. ASSUME NEW t \in Threads
      PROVE  /\ thread'[t] \in ThreadState
             /\ thread'[t].pc = thread[t].pc /\ thread'[t].from = thread[t].from
             /\ thread'[t].answer = thread[t].answer
             /\ thread'[t].call = IF thread[t].from = c THEN "late" ELSE thread[t].call
  BY <1>4 DEF Typed, ThreadState
<1>6. Typed'
  <2>1. thread' \in [Threads -> ThreadState] BY <1>4, <1>5
  <2>2. QED BY <1>2, <1>4, <2>1 DEF Typed
<1>7. Answering'
  <2> SUFFICES ASSUME NEW t \in Threads
               PROVE  /\ thread'[t].pc = "free" => thread'[t].call = "late"
                      /\ thread'[t].pc # "free" => thread'[t].from \in Callers
                      /\ thread'[t].pc = "answer" <=> thread'[t].answer # "none"
                      /\ thread'[t].call = "awaited" => call'[thread'[t].from].pc = "served"
                      /\ thread'[t].call # "late" /\ thread'[t].answer = "done"
                           => call'[thread'[t].from].effect
    BY DEF Answering
  <2>1. /\ thread[t].pc = "free" => thread[t].call = "late"
        /\ thread[t].pc # "free" => thread[t].from \in Callers
        /\ thread[t].pc = "answer" <=> thread[t].answer # "none"
        /\ thread[t].call = "awaited" => call[thread[t].from].pc = "served"
        /\ thread[t].call # "late" /\ thread[t].answer = "done"
             => call[thread[t].from].effect
    BY DEF OutcomeInv, Answering
  <2>2. CASE thread[t].from = c BY <1>5, <2>1, <2>2
  <2>3. CASE thread[t].from # c
    <3>1. thread[t].pc # "free" => call'[thread[t].from] = call[thread[t].from]
      BY <1>2, <2>1, <2>3
    <3>2. QED BY <1>5, <2>1, <2>3, <3>1
  <2>4. QED BY <2>2, <2>3
<1>8. OneAnswer' BY <1>5 DEF OutcomeInv, OneAnswer
<1>9. Trying' BY <1>2, <1>3 DEF OutcomeInv, Trying
<1>10. OutcomeIsTrue' BY <1>2, <1>3 DEF OutcomeInv, OutcomeIsTrue
<1>11. FirstAttempt'
  <2>1. Serving(c)' = {} /\ ~call'[c].effect /\ call'[c].pc = "sent"
    BY <1>2, <1>3, <1>5 DEF Serving
  <2>2. ASSUME NEW d \in Callers \ {c}
        PROVE  /\ call'[d] = call[d] /\ Serving(d)' = Serving(d)
               /\ \A t \in Serving(d) : /\ thread'[t].call = thread[t].call
                                        /\ thread'[t].answer = thread[t].answer
    BY <1>2, <1>5 DEF Serving
  <2>3. QED BY <2>1, <2>2 DEF OutcomeInv, FirstAttempt
<1>12. QED BY <1>6, <1>7, <1>8, <1>9, <1>10, <1>11 DEF OutcomeInv

\* A second attempt: what the threads of the first still do is known to nobody.
LEMMA TryAgainKeepsOutcome ==
  ASSUME Typed, OutcomeInv, NEW c \in Callers, TryAgain(c)
  PROVE  OutcomeInv' /\ Typed'
<1> DEFINE state == [call[c] EXCEPT !.pc = "sent", !.attempt = @ + 1]
<1>1. /\ SetCall(c, state) /\ call[c].pc = "backoff"
      /\ UNCHANGED <<window, accepted, admitted, thread, crowded, steady>>
  BY DEF TryAgain, gateVars
<1>2. /\ call[c] \in CallState /\ call[c].outcome = "none" /\ call[c].attempt # 0
      /\ call[c].attempt < MAX_ATTEMPTS
  BY <1>1 DEF Typed, OutcomeInv, Trying
<1>3. /\ state.pc = "sent" /\ state.attempt = call[c].attempt + 1
      /\ state.outcome = "none" /\ state.effect = call[c].effect
  BY <1>2 DEF CallState
<1>4. call[c].attempt \in Nat /\ call[c].attempt + 1 \in 0..MAX_ATTEMPTS
  BY <1>2, ClientAssumption DEF CallState
<1>5. state \in CallState
  BY <1>2, <1>4 DEF CallState
<1>6. call[c].attempt + 1 # 1 /\ call[c].attempt + 1 # 0
  BY <1>2, <1>4
<1> HIDE DEF state
<1>7. /\ call'[c] = state /\ call' \in [Callers -> CallState]
      /\ \A d \in Callers \ {c} : call'[d] = call[d]
  BY <1>1, <1>5, CallBecomes
<1>8. Typed' BY <1>1, <1>7 DEF Typed
<1>9. Answering'
  <2>1. \A t \in Threads : thread[t].call = "awaited" => thread[t].from # c
    BY <1>1 DEF OutcomeInv, Answering
  <2>2. \A d \in Callers : call'[d].effect = call[d].effect
    BY <1>3, <1>7
  <2>3. \A t \in Threads : thread[t].call # "late" => thread[t].from \in Callers
    BY DEF OutcomeInv, Answering
  <2>4. QED BY <1>1, <1>7, <2>1, <2>2, <2>3 DEF OutcomeInv, Answering
<1>10. OneAnswer' BY <1>1 DEF OutcomeInv, OneAnswer
<1>11. Trying' BY <1>3, <1>6, <1>7 DEF OutcomeInv, Trying
<1>12. OutcomeIsTrue' BY <1>3, <1>7 DEF OutcomeInv, OutcomeIsTrue
<1>13. FirstAttempt'
  <2>1. call'[c].attempt # 1 BY <1>3, <1>6, <1>7
  <2>2. \A d : Serving(d)' = Serving(d) BY <1>1 DEF Serving
  <2>3. QED BY <1>1, <1>7, <2>1, <2>2 DEF OutcomeInv, FirstAttempt
<1>14. QED BY <1>8, <1>9, <1>10, <1>11, <1>12, <1>13 DEF OutcomeInv

\* A free thread takes the request and is the one that is waited for.
LEMMA DeliverKeepsOutcome ==
  ASSUME Typed, OutcomeInv, NEW t \in Threads, NEW c \in Callers, Deliver(t, c)
  PROVE  OutcomeInv' /\ Typed'
<1> DEFINE state == [call[c] EXCEPT !.pc = "served"]
           busy == [Free EXCEPT !.pc = "arrived", !.from = c, !.call = "awaited"]
<1>1. /\ call[c].pc = "sent" /\ thread[t].pc = "free"
      /\ SetCall(c, state) /\ Becomes(t, busy)
      /\ UNCHANGED <<window, accepted, admitted, crowded, steady>>
  BY DEF Deliver, ReceiveRequest, At
<1>2. /\ call[c] \in CallState /\ call[c].outcome = "none" /\ call[c].attempt # 0
  BY <1>1 DEF Typed, OutcomeInv, Trying
<1>3. /\ state \in CallState /\ state.pc = "served" /\ state.outcome = "none"
      /\ state.attempt = call[c].attempt /\ state.effect = call[c].effect
  BY <1>2 DEF CallState
<1>4. /\ busy \in ThreadState /\ busy.pc = "arrived" /\ busy.from = c
      /\ busy.call = "awaited" /\ busy.answer = "none"
  BY FreeTyped DEF ThreadState, Free
<1> HIDE DEF state, busy
<1>5. /\ call'[c] = state /\ call' \in [Callers -> CallState]
      /\ \A d \in Callers \ {c} : call'[d] = call[d]
  BY <1>1, <1>3, CallBecomes
<1>6. /\ thread'[t] = busy /\ thread' \in [Threads -> ThreadState]
      /\ \A u \in Threads \ {t} : thread'[u] = thread[u]
  BY <1>1, <1>4, ThreadBecomes
<1>7. Typed' BY <1>1, <1>5, <1>6 DEF Typed
<1>8. \A u \in Threads : thread[u].call = "awaited" => thread[u].from # c
  BY <1>1 DEF OutcomeInv, Answering
<1>9. Answering'
  <2>1. \A d \in Callers : call'[d].effect = call[d].effect
    BY <1>3, <1>5
  <2>2. \A u \in Threads : thread[u].call # "late" => thread[u].from \in Callers
    BY DEF OutcomeInv, Answering
  <2>3. QED BY <1>3, <1>4, <1>5, <1>6, <1>8, <2>1, <2>2 DEF OutcomeInv, Answering
<1>10. OneAnswer' BY <1>4, <1>6, <1>8 DEF OutcomeInv, OneAnswer
<1>11. Trying' BY <1>2, <1>3, <1>5 DEF OutcomeInv, Trying
<1>12. OutcomeIsTrue' BY <1>3, <1>5 DEF OutcomeInv, OutcomeIsTrue
<1>13. FirstAttempt'
  <2>1. thread[t].call = "late" BY <1>1 DEF OutcomeInv, Answering
  <2>2. Serving(c)' = Serving(c) \cup {t}
    BY <1>4, <1>6, <2>1 DEF Serving
  <2>3. ASSUME NEW d \in Callers \ {c}
        PROVE  /\ call'[d] = call[d] /\ Serving(d)' = Serving(d)
               /\ \A u \in Serving(d) : thread'[u] = thread[u]
    BY <1>4, <1>5, <1>6, <2>1 DEF Serving
  <2>4. call[c].attempt = 1 => ~call'[c].effect /\ Serving(c)' = {t}
    BY <1>1, <1>3, <1>5, <2>2 DEF OutcomeInv, FirstAttempt
  <2>5. QED BY <1>3, <1>4, <1>5, <1>6, <2>3, <2>4 DEF OutcomeInv, FirstAttempt
<1>14. QED BY <1>7, <1>9, <1>10, <1>11, <1>12, <1>13 DEF OutcomeInv

\* The work is done for a call that is refused at its first attempt in no case: the refusal
\* left no thread to do it.
LEMMA HandleKeepsOutcome ==
  ASSUME Typed, OutcomeInv, NEW t \in Threads, HandleRequest(t)
  PROVE  OutcomeInv' /\ Typed'
<1>1. PICK answer \in {"done", "failed"} :
        /\ Handle(t, answer)
        /\ \/ /\ thread[t].call # "late"
              /\ call' = [call EXCEPT ![thread[t].from].effect = TRUE]
           \/ /\ thread[t].call = "late" \/ thread'[t].answer = "failed"
              /\ UNCHANGED call
  BY DEF HandleRequest
<1>2. /\ thread[t].pc = "handle" /\ AnswerWith(t, answer)
      /\ UNCHANGED <<window, accepted, admitted, crowded>> /\ UNCHANGED steady
  BY <1>1 DEF Handle, At, HandleRequest
<1>3. PICK busy \in ThreadState :
        /\ Becomes(t, busy) /\ busy.pc = "answer" /\ busy.answer = answer
        /\ busy.from = thread[t].from /\ busy.call = thread[t].call
  BY <1>2, AnswerTyped DEF Answers
<1>4. /\ thread'[t] = busy /\ thread' \in [Threads -> ThreadState]
      /\ \A u \in Threads \ {t} : thread'[u] = thread[u]
  BY <1>3, ThreadBecomes
<1>5. thread[t].from \in Callers /\ thread[t].answer = "none"
  BY <1>2 DEF OutcomeInv, Answering
<1>6. PICK c \in Callers : c = thread[t].from BY <1>5
<1>7. \A d : Serving(d)' = Serving(d)
  BY <1>3, <1>4 DEF Serving
<1>8. CASE thread[t].call # "late" /\ call' = [call EXCEPT ![c].effect = TRUE]
  <2>1. /\ call' \in [Callers -> CallState]
        /\ call'[c].effect = TRUE /\ call'[c].pc = call[c].pc
        /\ call'[c].outcome = call[c].outcome /\ call'[c].attempt = call[c].attempt
        /\ \A d \in Callers \ {c} : call'[d] = call[d]
    BY <1>8 DEF Typed, CallState
  <2>2. t \in Serving(c) BY <1>6, <1>8 DEF Serving
  <2>3. busy.from = c BY <1>3, <1>6
  <2>4. Typed' BY <1>2, <1>4, <2>1 DEF Typed
  <2>5. Answering'
    <3>1. \A d \in Callers : call'[d].pc = call[d].pc /\ (call[d].effect => call'[d].effect)
      BY <2>1
    <3>2. \A u \in Threads : thread[u].call # "late" => thread[u].from \in Callers
      BY DEF OutcomeInv, Answering
    <3>3. \A u \in Threads \ {t} :
            /\ thread[u].call = "awaited" => call'[thread[u].from].pc = "served"
            /\ thread[u].call # "late" /\ thread[u].answer = "done"
                 => call'[thread[u].from].effect
      BY <3>1, <3>2 DEF OutcomeInv, Answering
    <3>4. busy.call = "awaited" => call'[c].pc = "served"
      <4>1. thread[t].call = "awaited" => call[thread[t].from].pc = "served"
        BY DEF OutcomeInv, Answering
      <4>2. QED BY <1>3, <1>6, <2>1, <4>1
    <3>5. QED BY <1>3, <1>4, <2>1, <2>3, <3>3, <3>4 DEF OutcomeInv, Answering
  <2>6. OneAnswer' BY <1>3, <1>4 DEF OutcomeInv, OneAnswer
  <2>7. Trying' BY <2>1 DEF OutcomeInv, Trying
  <2>8. call[c].attempt = 1 => call[c].pc # "sent" /\ call[c].outcome # "refused"
    BY <2>2 DEF OutcomeInv, FirstAttempt
  <2>9. OutcomeIsTrue' BY <2>1, <2>8 DEF OutcomeInv, OutcomeIsTrue
  <2>10. FirstAttempt'
    <3>1. ASSUME call[c].attempt = 1, call[c].pc = "served", NEW u \in Serving(c)
          PROVE  u = t
      <4>1. thread[u].call = "awaited" /\ thread[t].call = "awaited"
        BY <2>2, <3>1 DEF OutcomeInv, FirstAttempt
      <4>2. u \in Threads /\ thread[u].from = c /\ thread[t].from = c
        BY <2>2 DEF Serving
      <4>3. QED BY <4>1, <4>2 DEF OutcomeInv, OneAnswer
    <3>2. call[c].attempt = 1 /\ call[c].pc = "served" =>
            \A u \in Serving(c) : /\ thread'[u].call = "awaited"
                                  /\ thread'[u].answer \in {"done", "failed"}
      BY <1>1, <1>3, <1>4, <2>2, <3>1 DEF OutcomeInv, FirstAttempt
    <3>3. ASSUME NEW d \in Callers \ {c}
          PROVE  /\ call'[d] = call[d]
                 /\ \A u \in Serving(d) : thread'[u] = thread[u]
      BY <1>4, <2>1, <2>2 DEF Serving
    <3>4. QED BY <1>7, <2>1, <2>8, <3>2, <3>3 DEF OutcomeInv, FirstAttempt
  <2>11. QED BY <2>4, <2>5, <2>6, <2>7, <2>9, <2>10 DEF OutcomeInv
<1>9. CASE (thread[t].call = "late" \/ thread'[t].answer = "failed") /\ UNCHANGED call
  <2>1. Typed' BY <1>2, <1>4, <1>9 DEF Typed
  <2>2. Answering' BY <1>3, <1>4, <1>5, <1>9 DEF OutcomeInv, Answering
  <2>3. OneAnswer' BY <1>3, <1>4 DEF OutcomeInv, OneAnswer
  <2>4. Trying' /\ OutcomeIsTrue' BY <1>9 DEF OutcomeInv, Trying, OutcomeIsTrue
  <2>5. FirstAttempt'
    <3>1. ASSUME NEW d \in Callers, call[d].attempt = 1, call[d].pc = "served",
                 NEW u \in Serving(d)
          PROVE  /\ thread'[u].call = "awaited"
                 /\ call[d].effect => thread'[u].answer \in {"done", "failed"}
      <4>1. u \in Threads /\ thread'[u].call = thread[u].call
        BY <1>3, <1>4 DEF Serving
      <4>2. /\ thread[u].call = "awaited"
            /\ call[d].effect => thread[u].answer \in {"done", "failed"}
        BY <3>1 DEF OutcomeInv, FirstAttempt
      <4>3. u # t => thread'[u] = thread[u] BY <1>4, <4>1
      <4>4. thread[t].answer = "none" => thread[t].answer \notin {"done", "failed"} OBVIOUS
      <4>5. u = t => ~call[d].effect BY <1>5, <4>2, <4>4
      <4>6. QED BY <4>1, <4>2, <4>3, <4>5
    <3>2. QED BY <1>7, <1>9, <3>1 DEF OutcomeInv, FirstAttempt
  <2>6. QED BY <2>1, <2>2, <2>3, <2>4, <2>5 DEF OutcomeInv
<1>10. QED BY <1>1, <1>6, <1>8, <1>9

\* A thread that is freed, whatever its answer was.
LEMMA FreedKeepsThreads ==
  ASSUME Typed, OutcomeInv, NEW t \in Threads, Reply(t)
  PROVE  /\ thread'[t] = Free /\ thread' \in [Threads -> ThreadState]
         /\ \A u \in Threads \ {t} : thread'[u] = thread[u]
         /\ \A d : Serving(d)' = Serving(d) \ {t}
         /\ OneAnswer'
<1>1. Becomes(t, Free) BY DEF Reply
<1>2. /\ thread'[t] = Free /\ thread' \in [Threads -> ThreadState]
      /\ \A u \in Threads \ {t} : thread'[u] = thread[u]
  BY <1>1, FreeTyped, ThreadBecomes
<1>3. Free.call = "late" BY DEF Free
<1>4. \A d : Serving(d)' = Serving(d) \ {t} BY <1>2, <1>3 DEF Serving
<1>5. OneAnswer' BY <1>2, <1>3 DEF OutcomeInv, OneAnswer
<1>6. QED BY <1>2, <1>4, <1>5

\* The answer that is waited for ends the attempt: "ok" for work that is done, a refusal
\* before any was.
LEMMA AnswerKeepsOutcome ==
  ASSUME Typed, OutcomeInv, NEW t \in Threads, AnswerRequest(t)
  PROVE  OutcomeInv' /\ Typed'
<1>1. /\ Reply(t) /\ thread[t].pc = "answer"
      /\ UNCHANGED <<window, accepted, admitted, crowded>> /\ UNCHANGED steady
      /\ IF thread[t].call = "awaited" THEN TakeAnswer(thread[t].from, thread[t].answer)
                                       ELSE UNCHANGED call
  BY DEF AnswerRequest, Reply, At
<1>2. /\ thread'[t] = Free /\ thread' \in [Threads -> ThreadState]
      /\ \A u \in Threads \ {t} : thread'[u] = thread[u]
      /\ \A d : Serving(d)' = Serving(d) \ {t}
      /\ OneAnswer'
  BY <1>1, FreedKeepsThreads
<1>3. Free.pc = "free" /\ Free.call = "late" /\ Free.answer = "none"
  BY DEF Free
<1>4. /\ thread[t].from \in Callers /\ thread[t].answer # "none" /\ thread[t] \in ThreadState
  BY <1>1 DEF Typed, OutcomeInv, Answering
<1>5. thread[t].answer \in Answers BY <1>4 DEF ThreadState
<1>6. CASE thread[t].call # "awaited"
  <2>1. UNCHANGED call BY <1>1, <1>6
  <2>2. Typed' BY <1>1, <1>2, <2>1 DEF Typed
  <2>3. Answering' BY <1>2, <1>3, <2>1 DEF OutcomeInv, Answering
  <2>4. Trying' /\ OutcomeIsTrue' BY <2>1 DEF OutcomeInv, Trying, OutcomeIsTrue
  <2>5. FirstAttempt'
    <3>1. \A d : Serving(d)' \subseteq Serving(d) BY <1>2
    <3>2. \A d : \A u \in Serving(d)' : u \in Threads /\ thread'[u] = thread[u]
      BY <1>2 DEF Serving
    <3>3. QED BY <2>1, <3>1, <3>2 DEF OutcomeInv, FirstAttempt
  <2>6. QED BY <1>2, <2>2, <2>3, <2>4, <2>5 DEF OutcomeInv
<1>7. CASE thread[t].call = "awaited"
  <2>1. PICK c \in Callers : c = thread[t].from BY <1>4
  <2>2. call[c].pc = "served" BY <1>7, <2>1 DEF OutcomeInv, Answering
  <2>3. thread[t].answer = "done" => call[c].effect
    BY <1>7, <2>1 DEF OutcomeInv, Answering
  <2>4. TakeAnswer(c, thread[t].answer) BY <1>1, <1>7, <2>1
  <2>5. t \in Serving(c) BY <1>7, <2>1 DEF Serving
  <2>6. \A u \in Threads \ {t} : thread[u].call = "awaited" => thread[u].from # c
    BY <1>7, <2>1 DEF OutcomeInv, OneAnswer
  <2>7. call[c].attempt = 1 => Serving(c)' = {}
    <3>1. ASSUME call[c].attempt = 1, NEW u \in Serving(c) PROVE u = t
      <4>1. thread[u].call = "awaited" /\ u \in Threads /\ thread[u].from = c
        BY <2>1, <2>2, <3>1 DEF OutcomeInv, FirstAttempt, Serving
      <4>2. QED BY <2>6, <4>1
    <3>2. QED BY <1>2, <3>1
  <2>8. PICK state \in CallState :
          /\ SetCall(c, state)
          /\ state.attempt = call[c].attempt /\ state.effect = call[c].effect
          /\ \/ state.pc = "idle" /\ state.outcome = "ok" /\ thread[t].answer = "done"
             \/ /\ state.pc = "idle" /\ state.outcome = "refused"
                /\ thread[t].answer \in {"limited", "refused"}
             \/ state.pc = "idle" /\ state.outcome = "error"
             \/ state.pc = "backoff" /\ state.outcome = "none" /\ state.attempt < MAX_ATTEMPTS
    <3>1. CASE thread[t].answer = "done"
      <4>1. Return(c, "ok") BY <2>4, <3>1 DEF TakeAnswer
      <4>2. QED BY <2>1, <3>1, <4>1, ReturnTyped
    <3>2. CASE thread[t].answer \in {"limited", "refused"}
      <4>1. Return(c, "refused") BY <2>4, <3>2 DEF TakeAnswer
      <4>2. QED BY <2>1, <3>2, <4>1, ReturnTyped
    <3>3. CASE thread[t].answer = "failed"
      <4>1. AttemptFails(c) BY <2>4, <3>3 DEF TakeAnswer
      <4>2. QED BY <2>1, <2>2, <4>1, AttemptFailsTyped DEF OutcomeInv
    <3>4. QED BY <1>5, <3>1, <3>2, <3>3 DEF Answers
  <2>9. /\ call'[c] = state /\ call' \in [Callers -> CallState]
        /\ \A d \in Callers \ {c} : call'[d] = call[d]
    BY <2>1, <2>8, CallBecomes
  <2>10. Typed' BY <1>1, <1>2, <2>9 DEF Typed
  <2>11. Answering'
    <3>1. \A d \in Callers : call'[d].effect = call[d].effect BY <2>8, <2>9
    <3>2. \A u \in Threads : thread[u].call # "late" => thread[u].from \in Callers
      BY DEF OutcomeInv, Answering
    <3>3. QED BY <1>2, <1>3, <2>6, <2>9, <3>1, <3>2 DEF OutcomeInv, Answering
  <2>12. Trying'
    <3>1. call[c].attempt # 0 BY <2>2 DEF OutcomeInv, Trying
    <3>2. QED BY <2>8, <2>9, <3>1 DEF OutcomeInv, Trying
  <2>13. call[c].attempt = 1 /\ thread[t].answer \in {"limited", "refused"} => ~call[c].effect
    BY <2>1, <2>2, <2>5 DEF OutcomeInv, FirstAttempt
  <2>14. OutcomeIsTrue' BY <2>3, <2>8, <2>9, <2>13 DEF OutcomeInv, OutcomeIsTrue
  <2>15. FirstAttempt'
    <3>1. ASSUME NEW d \in Callers \ {c}
          PROVE  /\ call'[d] = call[d] /\ Serving(d)' = Serving(d)
                 /\ \A u \in Serving(d) : thread'[u] = thread[u]
      BY <1>2, <2>5, <2>9 DEF Serving
    <3>2. call'[c].attempt = 1 =>
            /\ call'[c].pc \in {"idle", "backoff"}
            /\ call'[c].outcome = "refused" => ~call'[c].effect /\ Serving(c)' = {}
      BY <2>7, <2>8, <2>9, <2>13
    <3>3. QED BY <3>1, <3>2 DEF OutcomeInv, FirstAttempt
  <2>16. QED BY <1>2, <2>10, <2>11, <2>12, <2>14, <2>15 DEF OutcomeInv
<1>8. QED BY <1>6, <1>7

\* No thread is left: nothing of what was under way will be done.
LEMMA RestartKeepsOutcome ==
  ASSUME Typed, OutcomeInv, Restart
  PROVE  OutcomeInv' /\ Typed'
<1>1. /\ window' = [c \in Callers |-> Empty] /\ admitted' = [c \in Callers |-> Empty]
      /\ accepted' = {}
      /\ thread' = [t \in Threads |-> Free] /\ UNCHANGED <<crowded, steady>>
      /\ call' = [c \in Callers |-> IF call[c].pc = "served"
                                    THEN [call[c] EXCEPT !.pc = "idle", !.outcome = "error"]
                                    ELSE call[c]]
  BY DEF Restart, ForgetEverything
<1>2. ASSUME NEW c \in Callers
      PROVE  /\ call'[c] \in CallState
             /\ call'[c].attempt = call[c].attempt /\ call'[c].effect = call[c].effect
             /\ \/ call'[c].pc = "idle" /\ call'[c].outcome = "error"
                \/ call'[c] = call[c] /\ call[c].pc # "served"
  BY <1>1 DEF Typed, CallState
<1>3. Typed'
  <2>1. call' \in [Callers -> CallState]
    <3>1. call' = [c \in Callers |-> call'[c]] BY <1>1
    <3>2. QED BY <1>2, <3>1
  <2>2. thread' \in [Threads -> ThreadState] BY <1>1, FreeTyped
  <2>3. window' \in [Callers -> Windows] /\ admitted' \in [Callers -> Windows]
    BY <1>1, WindowTypes
  <2>4. QED BY <1>1, <2>1, <2>2, <2>3 DEF Typed
<1>4. \A t \in Threads : /\ thread'[t].pc = "free" /\ thread'[t].call = "late"
                         /\ thread'[t].answer = "none"
  BY <1>1 DEF Free
<1>5. Answering' /\ OneAnswer' BY <1>4 DEF Answering, OneAnswer
<1>6. Trying' /\ OutcomeIsTrue' BY <1>2 DEF OutcomeInv, Trying, OutcomeIsTrue
<1>7. FirstAttempt'
  <2>1. \A c : Serving(c)' = {} BY <1>4 DEF Serving
  <2>2. QED BY <1>2, <2>1 DEF OutcomeInv, FirstAttempt
<1>8. QED BY <1>3, <1>5, <1>6, <1>7 DEF OutcomeInv

\* The network fails before, while or after the master works.
LEMMA FailureKeepsOutcome ==
  ASSUME Typed, OutcomeInv, NEW c \in Callers,
         NoConnection(c) \/ TimeOut(c) \/ BreakConnection(c)
  PROVE  OutcomeInv' /\ Typed'
<1>1. /\ call[c].pc \in {"sent", "served"}
      /\ AttemptFails(c) \/ Return(c, "error")
      /\ UNCHANGED <<window, accepted, admitted, crowded, steady>>
      /\ \/ call[c].pc = "sent" /\ UNCHANGED thread
         \/ thread' = Abandoned(c)
  BY DEF NoConnection, TimeOut, BreakConnection, gateVars
<1>2. PICK state \in CallState :
        /\ SetCall(c, state)
        /\ state.attempt = call[c].attempt /\ state.effect = call[c].effect
        /\ \/ state.pc = "backoff" /\ state.outcome = "none" /\ state.attempt < MAX_ATTEMPTS
           \/ state.pc = "idle" /\ state.outcome = "error"
  <2>1. CASE AttemptFails(c)
    <3>1. Trying /\ call[c].pc # "idle" BY <1>1 DEF OutcomeInv
    <3>2. QED BY <2>1, <3>1, AttemptFailsTyped
  <2>2. CASE Return(c, "error") BY <2>2, ReturnTyped
  <2>3. QED BY <1>1, <2>1, <2>2
<1>3. call' \in [Callers -> CallState] BY <1>2, CallBecomes
<1>4. ASSUME NEW t \in Threads
      PROVE  /\ thread'[t] \in ThreadState
             /\ thread'[t].pc = thread[t].pc /\ thread'[t].from = thread[t].from
             /\ thread'[t].answer = thread[t].answer
             /\ IF thread[t].from = c /\ thread[t].call = "awaited"
                THEN thread'[t].call = "current" ELSE thread'[t].call = thread[t].call
  <2>1. thread[t] \in ThreadState BY DEF Typed
  <2>2. CASE call[c].pc = "sent" /\ UNCHANGED thread
    <3>1. ~(thread[t].from = c /\ thread[t].call = "awaited")
      BY <2>2 DEF OutcomeInv, Answering
    <3>2. QED BY <2>1, <2>2, <3>1
  <2>3. CASE thread' = Abandoned(c)
    BY <2>1, <2>3 DEF Abandoned, ThreadState
  <2>4. QED BY <1>1, <2>2, <2>3
<1>5. thread' \in [Threads -> ThreadState]
  <2>1. CASE UNCHANGED thread BY <2>1 DEF Typed
  <2>2. CASE thread' = Abandoned(c)
    <3>1. thread' = [t \in Threads |-> thread'[t]] BY <2>2 DEF Abandoned
    <3>2. QED BY <1>4, <3>1
  <2>3. QED BY <1>1, <2>1, <2>2
<1>6. Typed' BY <1>1, <1>3, <1>5 DEF Typed
<1>7. call[c].pc # "idle" BY <1>1
<1>8. OutcomeInv' BY <1>2, <1>4, <1>7, GivingUpKeepsOutcome
<1>9. QED BY <1>6, <1>8

LEMMA CheckKeepsOutcome ==
  ASSUME Typed, OutcomeInv, NEW t \in Threads, CheckStep(t), UNCHANGED <<call, steady>>
  PROVE  OutcomeInv' /\ Typed'
<1>1. /\ window' \in [Callers -> Windows] /\ admitted' \in [Callers -> Windows]
      /\ accepted' \subseteq Callers /\ crowded' \subseteq Callers
  BY CheckStepTyped DEF OutcomeInv
<1>2. PICK state \in ThreadState : Becomes(t, state) /\ Checks(t, state)
  BY CheckStepTyped DEF OutcomeInv
<1>3. /\ thread'[t] = state /\ thread' \in [Threads -> ThreadState]
      /\ \A u \in Threads \ {t} : thread'[u] = thread[u]
  BY <1>2, ThreadBecomes
<1>4. Typed' BY <1>1, <1>3 DEF Typed
<1>5. \A u \in Threads : thread[u].pc = "answer" <=> thread[u].answer # "none"
  BY DEF OutcomeInv, Answering
<1>6. \A u \in Threads :
        /\ thread'[u].from = thread[u].from /\ thread'[u].call = thread[u].call
        /\ thread'[u].pc = "free" <=> thread[u].pc = "free"
        /\ thread'[u].pc = "answer" <=> thread'[u].answer # "none"
        /\ \/ thread'[u].answer = thread[u].answer
           \/ thread[u].answer = "none" /\ thread'[u].answer # "done"
  BY <1>2, <1>3, <1>5 DEF Checks
<1>7. OutcomeInv' BY <1>6, ChecksKeepOutcome
<1>8. QED BY <1>4, <1>7

LEMMA TickKeepsOutcome ==
  ASSUME Typed, OutcomeInv, Tick, UNCHANGED <<call, steady>>
  PROVE  OutcomeInv' /\ Typed'
<1>1. /\ \A t \in Threads : thread[t].pc \in Limiting => thread[t].age < SLOW
      /\ window' = [c \in Callers |-> Older(window[c])]
      /\ admitted' = [c \in Callers |-> Older(admitted[c])]
      /\ thread' = [t \in Threads |->
           IF thread[t].pc \in Limiting
           THEN [thread[t] EXCEPT !.age = @ + 1, !.kept = Older(@)]
           ELSE thread[t]]
      /\ UNCHANGED <<accepted, crowded>>
  BY DEF Tick
<1>2. ASSUME NEW t \in Threads
      PROVE  /\ thread'[t] \in ThreadState
             /\ thread'[t].from = thread[t].from /\ thread'[t].call = thread[t].call
             /\ thread'[t].pc = thread[t].pc /\ thread'[t].answer = thread[t].answer
  <2>1. thread[t] \in ThreadState BY DEF Typed
  <2>2. CASE thread[t].pc \in Limiting
    <3>1. thread[t].age \in 0..SLOW /\ thread[t].age < SLOW BY <1>1, <2>1, <2>2 DEF ThreadState
    <3>2. thread[t].age + 1 \in 0..SLOW BY <3>1, GateAssumption
    <3>3. Older(thread[t].kept) \in Windows BY <2>1, WindowTypes DEF ThreadState
    <3>4. thread'[t] = [thread[t] EXCEPT !.age = thread[t].age + 1,
                                         !.kept = Older(thread[t].kept)]
      BY <1>1, <2>2
    <3>5. QED BY <2>1, <3>2, <3>3, <3>4 DEF ThreadState
  <2>3. CASE thread[t].pc \notin Limiting BY <1>1, <2>1, <2>3
  <2>4. QED BY <2>2, <2>3
<1>3. Typed'
  <2>1. thread' \in [Threads -> ThreadState]
    <3>1. thread' = [t \in Threads |-> thread'[t]] BY <1>1
    <3>2. QED BY <1>2, <3>1
  <2>2. window' \in [Callers -> Windows] /\ admitted' \in [Callers -> Windows]
    BY <1>1, WindowTypes DEF Typed
  <2>3. QED BY <1>1, <2>1, <2>2 DEF Typed
<1>4. \A t \in Threads : thread[t].pc = "answer" <=> thread[t].answer # "none"
  BY DEF OutcomeInv, Answering
<1>5. OutcomeInv' BY <1>2, <1>4, ChecksKeepOutcome
<1>6. QED BY <1>3, <1>5

\* Steps that touch neither a call nor a thread.
LEMMA OthersKeepOutcome ==
  ASSUME Typed, OutcomeInv, UNCHANGED <<window, admitted, thread, crowded, call>>,
         accepted' \subseteq Callers, steady' \in BOOLEAN
  PROVE  OutcomeInv' /\ Typed'
<1>1. Typed' BY DEF Typed
<1>2. \A t \in Threads : thread[t].pc = "answer" <=> thread[t].answer # "none"
  BY DEF OutcomeInv, Answering
<1>3. OutcomeInv' BY <1>2, ChecksKeepOutcome
<1>4. QED BY <1>1, <1>3

--------------------------------------------------------------------------------
(* What the rate limit counts *)

LEMMA WithinStays ==
  ASSUME NEW w \in Windows, NEW past \in Windows, Within(w, past)
  PROVE  /\ Within(Older(w), Older(past))
         /\ \A age \in Ages : /\ Within(Recent(w, age), past)
                              /\ Within(Counted(w, age), Counted(past, age))
                              /\ Within(Counted(w, age), Latest(Counted(past, age)))
                              /\ Within(w, Counted(past, age))
                              /\ Within(w, Latest(Counted(past, age)))
<1>1. \A a \in Ages : /\ w[a] \in Nat /\ past[a] \in Nat /\ a \in Nat
                      /\ w[a] <= past[a] \/ past[a] >= RPM
  BY AgesAre DEF Windows, Within
<1>2. RPM \in Nat \ {0} BY AgesAre
<1>3. Within(Older(w), Older(past))
  <2>1. ASSUME NEW a \in Ages PROVE Older(w)[a] <= Older(past)[a] \/ Older(past)[a] >= RPM
    <3>1. CASE a = 0 BY <3>1 DEF Older
    <3>2. CASE a # 0
      <4>1. a - 1 \in Ages BY <3>2, AgesAre
      <4>2. Older(w)[a] = w[a - 1] /\ Older(past)[a] = past[a - 1] BY <3>2 DEF Older
      <4>3. QED BY <1>1, <4>1, <4>2
    <3>3. QED BY <3>1, <3>2
  <2>2. QED BY <2>1 DEF Within
<1>4. ASSUME NEW age \in Ages
      PROVE  /\ Within(Recent(w, age), past)
             /\ Within(Counted(w, age), Counted(past, age))
             /\ Within(Counted(w, age), Latest(Counted(past, age)))
             /\ Within(w, Counted(past, age))
             /\ Within(w, Latest(Counted(past, age)))
  <2>1. Within(Recent(w, age), past)
    <3>1. ASSUME NEW a \in Ages PROVE Recent(w, age)[a] <= past[a] \/ past[a] >= RPM
      <4>1. Recent(w, age)[a] = w[IF a < age THEN a ELSE age] BY DEF Recent
      <4>2. ~(a < age) => w[age] <= w[a] BY <1>1 DEF Windows
      <4>3. QED BY <1>1, <1>2, <4>1, <4>2
    <3>2. QED BY <3>1 DEF Within
  <2>2. ASSUME NEW a \in Ages
        PROVE  /\ Counted(past, age)[a] = past[a] + (IF a >= age THEN 1 ELSE 0)
               /\ Counted(w, age)[a] = w[a] + (IF a >= age THEN 1 ELSE 0)
               /\ Latest(Counted(past, age))[a] =
                    IF Counted(past, age)[a] > RPM THEN RPM ELSE Counted(past, age)[a]
    BY DEF Counted, Latest
  <2>3. QED BY <1>1, <1>2, <2>1, <2>2 DEF Within
<1>5. QED BY <1>3, <1>4

LEMMA AgreeStays ==
  ASSUME NEW w \in Windows, NEW past \in Windows, NEW n \in Nat, Agree(w, past, n)
  PROVE  /\ Agree(Older(w), Older(past), n + 1)
         /\ \A age \in Ages : Agree(Counted(w, age), Counted(past, age), n)
         /\ \A age \in Ages : n = age + 1 => Agree(Recent(w, age), past, n)
         /\ \A m \in Nat : m <= n => Agree(w, past, m)
<1>1. \A a \in Ages : a \in Nat /\ (a < n => w[a] = past[a]) BY AgesAre DEF Agree
<1>2. Agree(Older(w), Older(past), n + 1)
  <2>1. ASSUME NEW a \in Ages, a < n + 1 PROVE Older(w)[a] = Older(past)[a]
    <3>1. CASE a = 0 BY <3>1 DEF Older
    <3>2. CASE a # 0
      <4>1. a - 1 \in Ages /\ a - 1 < n BY <1>1, <2>1, <3>2, AgesAre
      <4>2. Older(w)[a] = w[a - 1] /\ Older(past)[a] = past[a - 1] BY <3>2 DEF Older
      <4>3. QED BY <1>1, <4>1, <4>2
    <3>3. QED BY <3>1, <3>2
  <2>2. QED BY <2>1 DEF Agree
<1>3. ASSUME NEW age \in Ages PROVE Agree(Counted(w, age), Counted(past, age), n)
  BY <1>1 DEF Agree, Counted
<1>4. ASSUME NEW age \in Ages, n = age + 1 PROVE Agree(Recent(w, age), past, n)
  <2>1. ASSUME NEW a \in Ages, a < n PROVE Recent(w, age)[a] = past[a]
    <3>1. a < age \/ a = age BY <1>1, <1>4, <2>1
    <3>2. Recent(w, age)[a] = w[IF a < age THEN a ELSE age] BY DEF Recent
    <3>3. QED BY <1>1, <2>1, <3>1, <3>2
  <2>2. QED BY <2>1 DEF Agree
<1>5. ASSUME NEW m \in Nat, m <= n PROVE Agree(w, past, m) BY <1>1, <1>5 DEF Agree
<1>6. QED BY <1>2, <1>3, <1>4, <1>5

\* Nobody comes to the rate limit who was not there.
LEMMA OverlapStays ==
  ASSUME OverlapSeen, crowded \subseteq crowded',
         \A t \in Threads : thread'[t].pc \in Limiting =>
           thread[t].pc \in Limiting /\ thread'[t].from = thread[t].from
  PROVE  OverlapSeen'
BY DEF OverlapSeen

\* Steps of other parts of a request, of the client and of the network.
LEMMA RateUntouched ==
  ASSUME RateInv, UNCHANGED <<window, admitted, crowded>>,
         \A t \in Threads :
           \/ /\ thread'[t].pc = thread[t].pc /\ thread'[t].from = thread[t].from
              /\ thread'[t].age = thread[t].age /\ thread'[t].kept = thread[t].kept
           \/ thread'[t].pc \notin Limiting /\ (thread'[t].pc = "arrived" => thread'[t].age = 0)
  PROVE  RateInv'
<1>1. NothingAdded' BY DEF RateInv, NothingAdded, At, Limiting
<1>2. OverlapSeen' BY OverlapStays DEF RateInv
<1>3. NothingLost'
  <2>1. ASSUME NEW c \in Callers, NEW t \in Checking(c)'
        PROVE  /\ t \in Checking(c) /\ thread'[t].pc = thread[t].pc
               /\ thread'[t].age = thread[t].age /\ thread'[t].kept = thread[t].kept
    BY DEF Checking
  <2>2. ASSUME NEW c \in Callers \ crowded, NEW t \in Checking(c)' PROVE KnownTo(t, c)'
    BY <2>1 DEF RateInv, NothingLost, KnownTo, Reach, At
  <2>3. QED BY <2>2 DEF RateInv, NothingLost
<1>4. Unstarted' BY DEF RateInv, Unstarted, At
<1>5. QED BY <1>1, <1>2, <1>3, <1>4 DEF RateInv

\* What is known to a thread that does not move.
LEMMA KnownStays ==
  ASSUME NEW t \in Threads, NEW c \in Callers, KnownTo(t, c), thread'[t] = thread[t],
         window'[c] = window[c], admitted'[c] = admitted[c]
  PROVE  KnownTo(t, c)'
<1>1. Reach(t)' = Reach(t) BY DEF Reach
<1>2. QED BY <1>1 DEF KnownTo, At

LEMMA ReachIs ==
  ASSUME Typed, NEW t \in Threads
  PROVE  \E last \in Ages :
           /\ last = WINDOW + thread[t].age - 1 /\ Reach(t) = last + 1
           /\ Reach(t) \in Nat /\ WINDOW <= Reach(t)
<1>1. thread[t].age \in 0..SLOW BY DEF Typed, ThreadState
<1>2. thread[t].age \in Nat /\ WINDOW \in Nat BY <1>1, AgesAre
<1>3. WINDOW + thread[t].age - 1 \in Ages BY <1>1, AgesAre
<1>4. QED BY <1>2, <1>3 DEF Reach

LEMMA ReadClockKeepsRate ==
  ASSUME Typed, RateInv, NEW t \in Threads, ReadClock(t)
  PROVE  RateInv'
<1> DEFINE c == thread[t].from
           state == [thread[t] EXCEPT !.pc = "copy"]
<1>1. /\ thread[t].pc = "arrived" /\ Becomes(t, state) /\ UNCHANGED <<window, admitted>>
      /\ crowded' = IF Checking(c) # {} THEN crowded \cup {c} ELSE crowded
  BY DEF ReadClock, At, GoTo
<1>2. thread[t] \in ThreadState BY DEF Typed
<1>3. /\ state \in ThreadState /\ state.pc = "copy" /\ state.from = c
      /\ state.age = 0
  BY <1>1, <1>2 DEF RateInv, Unstarted, At, ThreadState, Limiting
<1> HIDE DEF state
<1>4. thread'[t] = state /\ \A u \in Threads \ {t} : thread'[u] = thread[u]
  BY <1>1, <1>3, ThreadBecomes
<1>5. NothingAdded' BY <1>1, <1>3, <1>4 DEF RateInv, NothingAdded, At
<1>6. OverlapSeen'
  <2> SUFFICES ASSUME NEW u \in Threads, NEW v \in Threads,
                      thread'[u].pc \in Limiting, thread'[v].pc \in Limiting,
                      thread'[u].from = thread'[v].from, u # v
               PROVE  thread'[u].from \in crowded'
    BY DEF OverlapSeen
  <2>1. CASE u = t
    <3>1. v \in Checking(c) BY <1>3, <1>4, <2>1 DEF Checking
    <3>2. QED BY <1>1, <1>3, <1>4, <2>1, <3>1
  <2>2. CASE v = t
    <3>1. u \in Checking(c) BY <1>3, <1>4, <2>2 DEF Checking
    <3>2. QED BY <1>1, <1>3, <1>4, <2>2, <3>1
  <2>3. CASE u # t /\ v # t
    BY <1>1, <1>4, <2>3 DEF RateInv, OverlapSeen
  <2>4. QED BY <2>1, <2>2, <2>3
<1>7. NothingLost'
  <2>1. ASSUME NEW d \in Callers \ crowded', NEW u \in Checking(d)' PROVE KnownTo(u, d)'
    <3>1. d \notin crowded /\ (d = c => Checking(c) = {}) BY <1>1, <2>1
    <3>2. CASE u = t
      <4>1. Reach(u)' = WINDOW BY <1>3, <1>4, <3>2, AgesAre DEF Reach
      <4>2. Agree(window[d], admitted[d], WINDOW) BY <3>1 DEF RateInv, NothingLost
      <4>3. QED BY <1>1, <1>3, <1>4, <3>2, <4>1, <4>2 DEF KnownTo, At
    <3>3. CASE u # t
      <4>1. u \in Checking(d) /\ u \in Threads /\ thread'[u] = thread[u]
        BY <1>4, <3>3 DEF Checking
      <4>2. KnownTo(u, d) BY <3>1, <4>1 DEF RateInv, NothingLost
      <4>3. QED BY <1>1, <4>1, <4>2, KnownStays
    <3>4. QED BY <3>2, <3>3
  <2>2. crowded \subseteq crowded' BY <1>1
  <2>3. QED BY <1>1, <2>1, <2>2 DEF RateInv, NothingLost
<1>8. Unstarted' BY <1>3, <1>4 DEF RateInv, Unstarted, At
<1>9. QED BY <1>5, <1>6, <1>7, <1>8 DEF RateInv

\* The only request that its caller, whose requests never overlapped, has at the limit.
LEMMA Alone ==
  ASSUME RateInv, NEW t \in Threads, thread[t].pc \in Limiting,
         thread[t].from \notin crowded
  PROVE  Checking(thread[t].from) = {t}
BY DEF RateInv, OverlapSeen, Checking

LEMMA CopyWindowKeepsRate ==
  ASSUME Typed, Answering, RateInv, NEW t \in Threads, CopyWindow(t)
  PROVE  RateInv'
<1> DEFINE c == thread[t].from
           copy == Recent(window[c], WINDOW + thread[t].age - 1)
           state == [thread[t] EXCEPT !.pc = "store", !.kept = copy]
<1>1. /\ thread[t].pc = "copy" /\ Becomes(t, state) /\ UNCHANGED <<window, admitted, crowded>>
  BY DEF CopyWindow, At
<1>2. /\ thread[t] \in ThreadState /\ c \in Callers
      /\ window[c] \in Windows /\ admitted[c] \in Windows
  BY <1>1 DEF Typed, Answering
<1>3. PICK last \in Ages : /\ last = WINDOW + thread[t].age - 1 /\ Reach(t) = last + 1
                           /\ Reach(t) \in Nat
  BY ReachIs
<1>4. copy = Recent(window[c], last) /\ copy \in Windows BY <1>2, <1>3, WindowTypes
<1> HIDE DEF copy
<1>5. Within(copy, admitted[c])
  <2>1. Within(window[c], admitted[c]) BY <1>2 DEF RateInv, NothingAdded
  <2>2. QED BY <1>2, <1>4, <2>1, WithinStays
<1>6. c \notin crowded =>
        Agree(window[c], admitted[c], Reach(t)) /\ Agree(copy, admitted[c], Reach(t))
  <2> SUFFICES ASSUME c \notin crowded
               PROVE  Agree(window[c], admitted[c], Reach(t)) /\ Agree(copy, admitted[c], Reach(t))
    OBVIOUS
  <2>1. t \in Checking(c) BY <1>1 DEF Checking, Limiting
  <2>2. Agree(window[c], admitted[c], Reach(t))
    BY <1>2, <2>1 DEF RateInv, NothingLost, KnownTo
  <2>3. Agree(Recent(window[c], last), admitted[c], Reach(t))
    BY <1>2, <1>3, <2>2, AgreeStays
  <2>4. QED BY <1>4, <2>2, <2>3
<1>7. /\ state \in ThreadState /\ state.pc = "store" /\ state.from = c
      /\ state.age = thread[t].age /\ state.kept = copy
  BY <1>2, <1>4 DEF ThreadState, Limiting
<1> HIDE DEF state
<1>8. thread'[t] = state /\ \A u \in Threads \ {t} : thread'[u] = thread[u]
  BY <1>1, <1>7, ThreadBecomes
<1>9. NothingAdded' BY <1>1, <1>5, <1>7, <1>8 DEF RateInv, NothingAdded, At
<1>10. OverlapSeen'
  <2>1. \A u \in Threads : thread'[u].pc \in Limiting =>
          thread[u].pc \in Limiting /\ thread'[u].from = thread[u].from
    BY <1>1, <1>7, <1>8 DEF Limiting
  <2>2. QED BY <1>1, <2>1, OverlapStays DEF RateInv
<1>11. NothingLost'
  <2>1. ASSUME NEW d \in Callers \ crowded, NEW u \in Checking(d)' PROVE KnownTo(u, d)'
    <3>1. CASE u = t
      <4>1. d = c BY <1>7, <1>8, <3>1 DEF Checking
      <4>2. Reach(u)' = Reach(t) BY <1>7, <1>8, <3>1 DEF Reach
      <4>3. QED BY <1>1, <1>6, <1>7, <1>8, <3>1, <4>1, <4>2 DEF KnownTo, At
    <3>2. CASE u # t
      <4>1. u \in Checking(d) /\ u \in Threads /\ thread'[u] = thread[u]
        BY <1>8, <3>2 DEF Checking
      <4>2. KnownTo(u, d) BY <4>1 DEF RateInv, NothingLost
      <4>3. QED BY <1>1, <4>1, <4>2, KnownStays
    <3>3. QED BY <3>1, <3>2
  <2>2. QED BY <1>1, <2>1 DEF RateInv, NothingLost
<1>12. Unstarted' BY <1>7, <1>8 DEF RateInv, Unstarted, At
<1>13. QED BY <1>9, <1>10, <1>11, <1>12 DEF RateInv

LEMMA StoreWindowKeepsRate ==
  ASSUME Typed, Answering, RateInv, NEW t \in Threads, StoreWindow(t)
  PROVE  RateInv'
<1> DEFINE c == thread[t].from
           kept == thread[t].kept
           state == [thread[t] EXCEPT !.pc = "compare", !.kept = Empty]
<1>1. /\ thread[t].pc = "store" /\ Becomes(t, state) /\ UNCHANGED <<admitted, crowded>>
      /\ window' = [window EXCEPT ![c] = kept]
  BY DEF StoreWindow, At
<1>2. /\ thread[t] \in ThreadState /\ c \in Callers /\ kept \in Windows
      /\ admitted[c] \in Windows
  BY <1>1 DEF Typed, Answering, ThreadState
<1>3. Reach(t) \in Nat /\ WINDOW \in Nat /\ WINDOW <= Reach(t) BY ReachIs, AgesAre
<1>4. window'[c] = kept /\ \A d \in Callers \ {c} : window'[d] = window[d]
  BY <1>1, <1>2 DEF Typed
<1>5. Within(kept, admitted[c]) BY <1>1 DEF RateInv, NothingAdded, At
<1>6. c \notin crowded => /\ Agree(kept, admitted[c], Reach(t))
                          /\ Agree(kept, admitted[c], WINDOW)
  <2> SUFFICES ASSUME c \notin crowded
               PROVE  Agree(kept, admitted[c], Reach(t)) /\ Agree(kept, admitted[c], WINDOW)
    OBVIOUS
  <2>1. t \in Checking(c) BY <1>1 DEF Checking, Limiting
  <2>2. Agree(kept, admitted[c], Reach(t))
    BY <1>1, <1>2, <2>1 DEF RateInv, NothingLost, KnownTo, At
  <2>3. QED BY <1>2, <1>3, <2>2, AgreeStays
<1>7. /\ state \in ThreadState /\ state.pc = "compare" /\ state.from = c
      /\ state.age = thread[t].age
  BY <1>2, WindowTypes DEF ThreadState, Limiting
<1> HIDE DEF state
<1>8. thread'[t] = state /\ \A u \in Threads \ {t} : thread'[u] = thread[u]
  BY <1>1, <1>7, ThreadBecomes
<1>9. NothingAdded' BY <1>1, <1>4, <1>5, <1>7, <1>8 DEF RateInv, NothingAdded, At
<1>10. OverlapSeen'
  <2>1. \A u \in Threads : thread'[u].pc \in Limiting =>
          thread[u].pc \in Limiting /\ thread'[u].from = thread[u].from
    BY <1>1, <1>7, <1>8 DEF Limiting
  <2>2. QED BY <1>1, <2>1, OverlapStays DEF RateInv
<1>11. NothingLost'
  <2>1. ASSUME NEW d \in Callers \ crowded
        PROVE  /\ Agree(window'[d], admitted[d], WINDOW)
               /\ \A u \in Checking(d)' : KnownTo(u, d)'
    <3>1. CASE d = c
      <4>1. Checking(d) = {t} BY <1>1, <3>1, Alone DEF Limiting
      <4>2. \A u \in Checking(d)' : u = t BY <1>7, <1>8, <4>1 DEF Checking
      <4>3. Reach(t)' = Reach(t) BY <1>7, <1>8 DEF Reach
      <4>4. KnownTo(t, d)'
        BY <1>1, <1>4, <1>6, <1>7, <1>8, <3>1, <4>3 DEF KnownTo, At
      <4>5. QED BY <1>4, <1>6, <3>1, <4>2, <4>4
    <3>2. CASE d # c
      <4>1. \A u \in Checking(d)' : u \in Checking(d) /\ u \in Threads /\ thread'[u] = thread[u]
        BY <1>7, <1>8, <3>2 DEF Checking
      <4>2. window'[d] = window[d] /\ admitted'[d] = admitted[d] BY <1>1, <1>4, <3>2
      <4>3. \A u \in Checking(d) : KnownTo(u, d) BY DEF RateInv, NothingLost
      <4>4. QED BY <4>1, <4>2, <4>3, KnownStays DEF RateInv, NothingLost
    <3>3. QED BY <3>1, <3>2
  <2>2. QED BY <1>1, <2>1 DEF RateInv, NothingLost
<1>12. Unstarted' BY <1>7, <1>8 DEF RateInv, Unstarted, At
<1>13. QED BY <1>9, <1>10, <1>11, <1>12 DEF RateInv

LEMMA CompareKeepsRate ==
  ASSUME Typed, Answering, RateInv, NEW t \in Threads, Compare(t)
  PROVE  RateInv'
<1> DEFINE c == thread[t].from
           state == [thread[t] EXCEPT !.pc = "append"]
<1>1. /\ thread[t].pc = "compare" /\ UNCHANGED <<window, admitted, crowded>>
      /\ IF AtLimit(c) THEN AnswerWith(t, "limited") ELSE Becomes(t, state)
  BY DEF Compare, At, GoTo
<1>2. thread[t] \in ThreadState /\ c \in Callers /\ window[c] \in Windows
  BY <1>1 DEF Typed, Answering
<1>3. CASE AtLimit(c)
  <2>1. PICK answer \in ThreadState : Becomes(t, answer) /\ answer.pc = "answer"
    BY <1>1, <1>3, AnswerTyped DEF Answers
  <2>2. thread'[t] = answer /\ \A u \in Threads \ {t} : thread'[u] = thread[u]
    BY <2>1, ThreadBecomes
  <2>3. QED BY <1>1, <2>1, <2>2, RateUntouched DEF Limiting
<1>4. CASE ~AtLimit(c)
  <2>1. /\ state \in ThreadState /\ state.pc = "append" /\ state.from = c
        /\ state.age = thread[t].age
    BY <1>2 DEF ThreadState, Limiting
  <2>2. Becomes(t, state) BY <1>1, <1>4
  <2> HIDE DEF state
  <2>3. thread'[t] = state /\ \A u \in Threads \ {t} : thread'[u] = thread[u]
    BY <2>1, <2>2, ThreadBecomes
  <2>4. ASSUME NEW a \in Ages PROVE window[c][a] < RPM
    <3>1. /\ window[c][a] <= window[c][Oldest] /\ window[c][a] \in Nat
          /\ window[c][Oldest] \in Nat
      BY <1>2, AgesAre DEF Windows
    <3>2. ~(window[c][Oldest] >= RPM) BY <1>4 DEF AtLimit, Size
    <3>3. QED BY <3>1, <3>2, AgesAre
  <2>5. t \in Checking(c) BY <1>1 DEF Checking, Limiting
  <2>6. c \notin crowded => Agree(window[c], admitted[c], Reach(t))
    BY <1>2, <2>5 DEF RateInv, NothingLost, KnownTo
  <2>7. c \notin crowded => \A a \in Ages : a < Reach(t) => admitted[c][a] < RPM
    BY <2>4, <2>6 DEF Agree
  <2>8. NothingAdded' BY <1>1, <2>1, <2>3 DEF RateInv, NothingAdded, At
  <2>9. OverlapSeen'
    <3>1. \A u \in Threads : thread'[u].pc \in Limiting =>
            thread[u].pc \in Limiting /\ thread'[u].from = thread[u].from
      BY <1>1, <2>1, <2>3 DEF Limiting
    <3>2. QED BY <1>1, <3>1, OverlapStays DEF RateInv
  <2>10. NothingLost'
    <3>1. ASSUME NEW d \in Callers \ crowded, NEW u \in Checking(d)' PROVE KnownTo(u, d)'
      <4>1. CASE u = t
        <5>1. d = c BY <2>1, <2>3, <4>1 DEF Checking
        <5>2. Reach(u)' = Reach(t) BY <2>1, <2>3, <4>1 DEF Reach
        <5>3. thread'[u].pc = "append" BY <2>1, <2>3, <4>1
        <5>4. QED BY <1>1, <2>6, <2>7, <5>1, <5>2, <5>3 DEF KnownTo, At
      <4>2. CASE u # t
        <5>1. u \in Checking(d) /\ u \in Threads /\ thread'[u] = thread[u]
          BY <2>3, <4>2 DEF Checking
        <5>2. KnownTo(u, d) BY <5>1 DEF RateInv, NothingLost
        <5>3. QED BY <1>1, <5>1, <5>2, KnownStays
      <4>3. QED BY <4>1, <4>2
    <3>2. QED BY <1>1, <3>1 DEF RateInv, NothingLost
  <2>11. Unstarted' BY <2>1, <2>3 DEF RateInv, Unstarted, At
  <2>12. QED BY <2>8, <2>9, <2>10, <2>11 DEF RateInv
<1>5. QED BY <1>3, <1>4

\* The entry is counted in the window and in what was admitted, and there was room for it if
\* no other request was at the limit.
LEMMA AppendKeepsRate ==
  ASSUME Typed, Answering, RateInv, NEW t \in Threads, AppendRequest(t)
  PROVE  RateInv'
<1> DEFINE c == thread[t].from
           age == thread[t].age
           w == Counted(window[c], age)
           past == IF c \in crowded THEN Latest(Counted(admitted[c], age))
                                    ELSE Counted(admitted[c], age)
           state == [thread[t] EXCEPT !.pc = "verify", !.age = 0]
<1>1. /\ thread[t].pc = "append" /\ Becomes(t, state) /\ UNCHANGED crowded
      /\ window' = [window EXCEPT ![c] = w]
      /\ admitted' = [admitted EXCEPT ![c] = past]
  BY DEF AppendRequest, At
<1>2. /\ thread[t] \in ThreadState /\ c \in Callers
      /\ window[c] \in Windows /\ admitted[c] \in Windows
  BY <1>1 DEF Typed, Answering
<1>3. age \in Ages /\ age \in Nat /\ WINDOW \in Nat
  <2>1. age \in 0..SLOW BY <1>2 DEF ThreadState
  <2>2. QED BY <2>1, AgesAre
<1>4. Within(w, past)
  <2>1. Within(window[c], admitted[c]) BY <1>2 DEF RateInv, NothingAdded
  <2>2. QED BY <1>2, <1>3, <2>1, WithinStays
<1>5. c \notin crowded => /\ Agree(w, past, WINDOW)
                          /\ \A a \in Ages : a < WINDOW => past[a] <= RPM
  <2> SUFFICES ASSUME c \notin crowded
               PROVE  /\ Agree(w, past, WINDOW)
                      /\ \A a \in Ages : a < WINDOW => past[a] <= RPM
    OBVIOUS
  <2>1. t \in Checking(c) BY <1>1 DEF Checking, Limiting
  <2>2. /\ Agree(window[c], admitted[c], WINDOW)
        /\ \A a \in Ages : a < Reach(t) => admitted[c][a] < RPM
    BY <1>1, <1>2, <2>1 DEF RateInv, NothingLost, KnownTo, At
  <2>3. past = Counted(admitted[c], age) OBVIOUS
  <2>4. Agree(w, past, WINDOW) BY <1>2, <1>3, <2>2, <2>3, AgreeStays
  <2>5. ASSUME NEW a \in Ages, a < WINDOW PROVE past[a] <= RPM
    <3>1. past[a] = admitted[c][a] + (IF a >= age THEN 1 ELSE 0)
      BY <2>3 DEF Counted
    <3>2. WINDOW <= Reach(t) /\ Reach(t) \in Nat /\ a \in Nat BY ReachIs, AgesAre
    <3>3. admitted[c][a] < RPM /\ admitted[c][a] \in Nat
      BY <1>2, <1>3, <2>2, <2>5, <3>2 DEF Windows
    <3>4. QED BY <3>1, <3>3, AgesAre
  <2>6. QED BY <2>4, <2>5
<1>6. ASSUME NEW kept \in Windows, Within(kept, admitted[c]) PROVE Within(kept, past)
  BY <1>2, <1>3, <1>6, WithinStays
<1> HIDE DEF w, past
<1>7. /\ window'[c] = w /\ \A d \in Callers \ {c} : window'[d] = window[d]
      /\ admitted'[c] = past /\ \A d \in Callers \ {c} : admitted'[d] = admitted[d]
  BY <1>1, <1>2 DEF Typed
<1>8. state \in ThreadState /\ state.pc = "verify"
  BY <1>2, WindowTypes DEF ThreadState
<1> HIDE DEF state
<1>9. thread'[t] = state /\ \A u \in Threads \ {t} : thread'[u] = thread[u]
  BY <1>1, <1>8, ThreadBecomes
<1>10. NothingAdded'
  <2>1. \A d \in Callers : Within(window'[d], admitted'[d])
    BY <1>4, <1>7 DEF RateInv, NothingAdded
  <2>2. ASSUME NEW u \in Threads, thread'[u].pc = "store"
        PROVE  Within(thread'[u].kept, admitted'[thread'[u].from])
    <3>1. u # t /\ thread'[u] = thread[u] BY <1>8, <1>9, <2>2
    <3>2. /\ Within(thread[u].kept, admitted[thread[u].from])
          /\ thread[u].from \in Callers /\ thread[u].kept \in Windows
      BY <2>2, <3>1 DEF RateInv, NothingAdded, At, Typed, Answering, ThreadState
    <3>3. QED BY <1>6, <1>7, <3>1, <3>2
  <2>3. QED BY <2>1, <2>2 DEF NothingAdded, At
<1>11. OverlapSeen'
  <2>1. \A u \in Threads : thread'[u].pc \in Limiting =>
          thread[u].pc \in Limiting /\ thread'[u].from = thread[u].from
    BY <1>1, <1>8, <1>9 DEF Limiting
  <2>2. QED BY <1>1, <2>1, OverlapStays DEF RateInv
<1>12. NothingLost'
  <2>1. ASSUME NEW d \in Callers \ crowded
        PROVE  /\ Agree(window'[d], admitted'[d], WINDOW)
               /\ \A a \in Ages : a < WINDOW => admitted'[d][a] <= RPM
               /\ \A u \in Checking(d)' : KnownTo(u, d)'
    <3>1. CASE d = c
      <4>1. Checking(d) = {t} BY <1>1, <3>1, Alone DEF Limiting
      <4>2. Checking(d)' = {} BY <1>8, <1>9, <4>1 DEF Checking, Limiting
      <4>3. QED BY <1>5, <1>7, <3>1, <4>2
    <3>2. CASE d # c
      <4>1. \A u \in Checking(d)' : u \in Checking(d) /\ u \in Threads /\ thread'[u] = thread[u]
        BY <1>8, <1>9 DEF Checking, Limiting
      <4>2. window'[d] = window[d] /\ admitted'[d] = admitted[d] BY <1>7, <3>2
      <4>3. \A u \in Checking(d) : KnownTo(u, d) BY DEF RateInv, NothingLost
      <4>4. QED BY <4>1, <4>2, <4>3, KnownStays DEF RateInv, NothingLost
    <3>3. QED BY <3>1, <3>2
  <2>2. QED BY <1>1, <2>1 DEF RateInv, NothingLost
<1>13. Unstarted' BY <1>8, <1>9 DEF RateInv, Unstarted, At
<1>14. QED BY <1>10, <1>11, <1>12, <1>13 DEF RateInv

\* A tick: everything counted and every request under way gets older at once.
LEMMA TickKeepsRate ==
  ASSUME Typed, Answering, RateInv, Tick
  PROVE  RateInv'
<1>1. /\ window' = [c \in Callers |-> Older(window[c])]
      /\ admitted' = [c \in Callers |-> Older(admitted[c])]
      /\ thread' = [t \in Threads |->
           IF thread[t].pc \in Limiting
           THEN [thread[t] EXCEPT !.age = @ + 1, !.kept = Older(@)]
           ELSE thread[t]]
      /\ UNCHANGED crowded
  BY DEF Tick
<1>2. ASSUME NEW t \in Threads
      PROVE  /\ thread'[t].pc = thread[t].pc /\ thread'[t].from = thread[t].from
             /\ thread[t].pc \in Limiting =>
                  /\ thread'[t].age = thread[t].age + 1 /\ thread'[t].kept = Older(thread[t].kept)
                  /\ thread[t].age \in Nat /\ thread[t].age \in 0..SLOW
                  /\ thread[t].kept \in Windows /\ thread[t].from \in Callers
             /\ thread[t].pc \notin Limiting => thread'[t] = thread[t]
  <2>1. thread[t] \in ThreadState /\ (thread[t].pc # "free" => thread[t].from \in Callers)
    BY DEF Typed, Answering
  <2>2. CASE thread[t].pc \in Limiting
    <3>1. thread'[t] = [thread[t] EXCEPT !.age = thread[t].age + 1,
                                         !.kept = Older(thread[t].kept)]
      BY <1>1, <2>2
    <3>2. thread[t].pc # "free" BY <2>2 DEF Limiting
    <3>3. thread[t].age \in Nat BY <2>1, AgesAre DEF ThreadState
    <3>4. QED BY <2>1, <2>2, <3>1, <3>2, <3>3 DEF ThreadState
  <2>3. CASE thread[t].pc \notin Limiting BY <1>1, <2>3
  <2>4. QED BY <2>2, <2>3
<1>3. \A c \in Callers : /\ window[c] \in Windows /\ admitted[c] \in Windows
                         /\ window'[c] = Older(window[c]) /\ admitted'[c] = Older(admitted[c])
  BY <1>1 DEF Typed
<1>4. NothingAdded'
  <2>1. ASSUME NEW c \in Callers PROVE Within(window'[c], admitted'[c])
    BY <1>3, WithinStays DEF RateInv, NothingAdded
  <2>2. ASSUME NEW t \in Threads, thread'[t].pc = "store"
        PROVE  Within(thread'[t].kept, admitted'[thread'[t].from])
    <3>1. thread[t].pc = "store" /\ thread[t].pc \in Limiting BY <1>2, <2>2 DEF Limiting
    <3>2. Within(thread[t].kept, admitted[thread[t].from])
      BY <3>1 DEF RateInv, NothingAdded, At
    <3>3. QED BY <1>2, <1>3, <3>1, <3>2, WithinStays
  <2>3. QED BY <2>1, <2>2 DEF NothingAdded, At
<1>5. OverlapSeen' BY <1>1, <1>2, OverlapStays DEF RateInv
<1>6. NothingLost'
  <2> SUFFICES ASSUME NEW c \in Callers \ crowded
               PROVE  /\ Agree(window'[c], admitted'[c], WINDOW)
                      /\ \A a \in Ages : a < WINDOW => admitted'[c][a] <= RPM
                      /\ \A t \in Checking(c)' : KnownTo(t, c)'
    BY <1>1 DEF NothingLost
  <2> DEFINE w == window[c]
             past == admitted[c]
  <2>1. /\ w \in Windows /\ past \in Windows
        /\ window'[c] = Older(w) /\ admitted'[c] = Older(past)
    BY <1>3
  <2>2. /\ Agree(w, past, WINDOW) /\ \A a \in Ages : a < WINDOW => past[a] <= RPM
        /\ \A t \in Checking(c) : KnownTo(t, c)
    BY DEF RateInv, NothingLost
  <2>3. Agree(Older(w), Older(past), WINDOW)
    <3>1. Agree(Older(w), Older(past), WINDOW + 1) BY <2>1, <2>2, AgesAre, AgreeStays
    <3>2. QED BY <3>1, AgesAre DEF Agree
  <2>4. ASSUME NEW a \in Ages, NEW n \in Nat, NEW m \in Nat, a < n + 1, m > 0,
               \A b \in Ages : b < n => past[b] < m
        PROVE  Older(past)[a] < m
    <3>1. CASE a = 0 BY <2>4, <3>1 DEF Older
    <3>2. CASE a # 0
      <4>1. a - 1 \in Ages /\ a - 1 < n BY <2>4, <3>2, AgesAre
      <4>2. Older(past)[a] = past[a - 1] BY <3>2 DEF Older
      <4>3. QED BY <2>4, <4>1, <4>2
    <3>3. QED BY <3>1, <3>2
  <2>5. ASSUME NEW a \in Ages, a < WINDOW PROVE Older(past)[a] <= RPM
    <3>1. /\ WINDOW \in Nat /\ RPM + 1 \in Nat /\ RPM + 1 > 0 /\ a < WINDOW + 1
          /\ \A b \in Ages : past[b] \in Nat
      BY <2>1, <2>5, AgesAre DEF Windows
    <3>2. \A b \in Ages : b < WINDOW => past[b] < RPM + 1 BY <2>2, <3>1, AgesAre
    <3>3. Older(past)[a] < RPM + 1 BY <2>4, <3>1, <3>2
    <3>4. Older(past)[a] \in Nat BY <2>1, WindowTypes DEF Windows
    <3>5. QED BY <3>3, <3>4, AgesAre
  <2>6. ASSUME NEW t \in Checking(c)' PROVE KnownTo(t, c)'
    <3>1. t \in Threads /\ t \in Checking(c) /\ thread[t].pc \in Limiting
      BY <1>2 DEF Checking
    <3>2. /\ thread'[t].age = thread[t].age + 1 /\ thread'[t].pc = thread[t].pc
          /\ thread'[t].kept = Older(thread[t].kept) /\ thread[t].kept \in Windows
          /\ thread[t].age \in Nat
      BY <1>2, <3>1
    <3>3. Reach(t)' = Reach(t) + 1 /\ Reach(t) \in Nat BY <3>2, AgesAre DEF Reach
    <3>4. KnownTo(t, c) BY <2>2, <3>1
    <3>5. Agree(Older(w), Older(past), Reach(t) + 1)
      BY <2>1, <3>3, <3>4, AgreeStays DEF KnownTo
    <3>6. thread'[t].pc = "store" => Agree(thread'[t].kept, Older(past), Reach(t) + 1)
      BY <2>1, <3>2, <3>3, <3>4, AgreeStays DEF KnownTo, At
    <3>7. ASSUME thread'[t].pc = "append", NEW a \in Ages, a < Reach(t) + 1
          PROVE  Older(past)[a] < RPM
      <4>1. \A b \in Ages : b < Reach(t) => past[b] < RPM
        BY <3>2, <3>4, <3>7 DEF KnownTo, At
      <4>2. RPM \in Nat /\ RPM > 0 BY AgesAre
      <4>3. QED BY <2>4, <3>3, <3>7, <4>1, <4>2
    <3>8. QED BY <2>1, <3>3, <3>5, <3>6, <3>7 DEF KnownTo, At
  <2>7. QED BY <2>1, <2>3, <2>5, <2>6
<1>7. Unstarted' BY <1>2 DEF RateInv, Unstarted, At, Limiting
<1>8. QED BY <1>4, <1>5, <1>6, <1>7 DEF RateInv

\* Nothing is counted any more, and nothing was admitted.
LEMMA EmptyAgrees ==
  /\ Agree(Empty, Empty, WINDOW) /\ Within(Empty, Empty)
  /\ \A a \in Ages : Empty[a] <= RPM
<1>1. \A a \in Ages : Empty[a] = 0 BY DEF Empty
<1>2. QED BY <1>1, AgesAre DEF Agree, Within

LEMMA ForgettingKeepsRate ==
  ASSUME window' = [c \in Callers |-> Empty], admitted' = [c \in Callers |-> Empty],
         thread' = [t \in Threads |-> Free]
  PROVE  RateInv'
<1>1. \A t \in Threads : thread'[t].pc = "free" BY DEF Free
<1>2. NothingAdded' BY <1>1, EmptyAgrees DEF NothingAdded, At
<1>3. OverlapSeen' /\ Unstarted' BY <1>1 DEF OverlapSeen, Unstarted, At, Limiting
<1>4. NothingLost'
  <2>1. \A c : Checking(c)' = {} BY <1>1 DEF Checking, Limiting
  <2>2. QED BY <2>1, EmptyAgrees DEF NothingLost
<1>5. QED BY <1>2, <1>3, <1>4 DEF RateInv

--------------------------------------------------------------------------------
(* The invariant, and the theorem *)

LEMMA InitOutcome == Init => OutcomeInv /\ Typed
<1> SUFFICES ASSUME Init PROVE OutcomeInv /\ Typed
  OBVIOUS
<1>1. \A c \in Callers : call[c] = [pc |-> "idle", attempt |-> 0, outcome |-> "none",
                                    effect |-> FALSE]
  BY DEF Init
<1>2. \A t \in Threads : thread[t] = Free BY DEF Init, GateInit
<1>3. Free.pc = "free" /\ Free.call = "late" /\ Free.answer = "none" BY DEF Free
<1>4. Typed
  <2>1. call \in [Callers -> CallState] BY ClientAssumption DEF Init, CallState
  <2>2. thread \in [Threads -> ThreadState] BY FreeTyped DEF Init, GateInit
  <2>3. window \in [Callers -> Windows] /\ admitted \in [Callers -> Windows]
    BY WindowTypes DEF Init, GateInit
  <2>4. QED BY <2>1, <2>2, <2>3 DEF Init, GateInit, Typed
<1>5. Answering /\ OneAnswer BY <1>2, <1>3 DEF Answering, OneAnswer
<1>6. Trying /\ FirstAttempt /\ OutcomeIsTrue BY <1>1 DEF Trying, FirstAttempt, OutcomeIsTrue
<1>7. QED BY <1>4, <1>5, <1>6 DEF OutcomeInv

LEMMA StepsKeepOutcome == Typed /\ OutcomeInv /\ [Next]_vars => OutcomeInv' /\ Typed'
<1> SUFFICES ASSUME Typed, OutcomeInv, [Next]_vars PROVE OutcomeInv' /\ Typed'
  OBVIOUS
<1>1. ASSUME NEW t \in Threads, ThreadStep(t) PROVE OutcomeInv' /\ Typed'
  BY <1>1, CheckKeepsOutcome, HandleKeepsOutcome, AnswerKeepsOutcome DEF ThreadStep
<1>2. ASSUME NEW t \in Threads, NEW c \in Callers, Deliver(t, c) PROVE OutcomeInv' /\ Typed'
  BY <1>2, DeliverKeepsOutcome
<1>3. ASSUME NEW c \in Callers, ClientStep(c) PROVE OutcomeInv' /\ Typed'
  BY <1>3, BeginCallKeepsOutcome, TryAgainKeepsOutcome DEF ClientStep
<1>4. ASSUME NEW c \in Callers, NoConnection(c) \/ TimeOut(c) \/ BreakConnection(c)
      PROVE  OutcomeInv' /\ Typed'
  BY <1>4, FailureKeepsOutcome
<1>5. ASSUME NEW c \in Callers, EndCredential(c), UNCHANGED <<call, steady>>
      PROVE  OutcomeInv' /\ Typed'
  <2>1. UNCHANGED <<window, admitted, thread, crowded, call>> /\ accepted' \subseteq Callers
    BY <1>5 DEF EndCredential, Typed
  <2>2. steady' \in BOOLEAN BY <1>5 DEF Typed
  <2>3. QED BY <2>1, <2>2, OthersKeepOutcome
<1>6. ASSUME Restart PROVE OutcomeInv' /\ Typed'
  BY <1>6, RestartKeepsOutcome
<1>7. ASSUME Settle PROVE OutcomeInv' /\ Typed'
  <2>1. UNCHANGED <<window, admitted, thread, crowded, call>> /\ accepted' \subseteq Callers
    BY <1>7 DEF Settle, gateVars, Typed
  <2>2. steady' \in BOOLEAN BY <1>7 DEF Settle
  <2>3. QED BY <2>1, <2>2, OthersKeepOutcome
<1>8. ASSUME Tick, UNCHANGED <<call, steady>> PROVE OutcomeInv' /\ Typed'
  BY <1>8, TickKeepsOutcome
<1>9. ASSUME UNCHANGED vars PROVE OutcomeInv' /\ Typed'
  <2>1. /\ UNCHANGED <<window, admitted, thread, crowded, call>> /\ accepted' \subseteq Callers
        /\ steady' \in BOOLEAN
    BY <1>9 DEF vars, gateVars, Typed
  <2>2. QED BY <2>1, OthersKeepOutcome
<1>10. QED
  BY <1>1, <1>2, <1>3, <1>4, <1>5, <1>6, <1>7, <1>8, <1>9 DEF Next

LEMMA InitRate == Init => RateInv
<1> SUFFICES ASSUME Init PROVE RateInv
  OBVIOUS
<1>1. /\ window = [c \in Callers |-> Empty] /\ admitted = [c \in Callers |-> Empty]
      /\ \A t \in Threads : thread[t].pc = "free"
  BY DEF Init, GateInit, Free
<1>2. NothingAdded BY <1>1, EmptyAgrees DEF NothingAdded, At
<1>3. OverlapSeen /\ Unstarted BY <1>1 DEF OverlapSeen, Unstarted, At, Limiting
<1>4. NothingLost
  <2>1. \A c : Checking(c) = {} BY <1>1 DEF Checking, Limiting
  <2>2. QED BY <1>1, <2>1, EmptyAgrees DEF NothingLost
<1>5. QED BY <1>2, <1>3, <1>4 DEF RateInv

LEMMA StepsKeepRate == Typed /\ OutcomeInv /\ RateInv /\ [Next]_vars => RateInv'
<1> SUFFICES ASSUME Typed, OutcomeInv, RateInv, [Next]_vars PROVE RateInv'
  OBVIOUS
<1>1. Answering BY DEF OutcomeInv
<1>2. ASSUME NEW t \in Threads, ThreadStep(t) PROVE RateInv'
  <2>1. CASE CheckStep(t)
    <3>1. CASE Verify(t)
      <4>1. /\ thread[t].pc = "verify" /\ UNCHANGED <<window, admitted, crowded>>
            /\ AnswerWith(t, "refused") \/ GoTo(t, "handle")
        BY <3>1 DEF Verify, At
      <4>2. \A u \in Threads \ {t} : thread'[u] = thread[u]
        BY <4>1 DEF AnswerWith, GoTo, Becomes, Typed
      <4>3. thread'[t].pc \in {"answer", "handle"}
        <5>1. CASE AnswerWith(t, "refused")
          BY <5>1, AnswerTyped, ThreadBecomes DEF Answers
        <5>2. CASE GoTo(t, "handle") BY <5>2 DEF GoTo, Becomes, Typed, ThreadState
        <5>3. QED BY <4>1, <5>1, <5>2
      <4>4. QED BY <4>1, <4>2, <4>3, RateUntouched DEF Limiting
    <3>2. QED
      BY <1>1, <2>1, <3>1, ReadClockKeepsRate, CopyWindowKeepsRate, StoreWindowKeepsRate,
         CompareKeepsRate, AppendKeepsRate
      DEF CheckStep
  <2>2. CASE HandleRequest(t)
    <3>1. PICK answer \in {"done", "failed"} : Handle(t, answer) BY <2>2 DEF HandleRequest
    <3>2. AnswerWith(t, answer) /\ UNCHANGED <<window, admitted, crowded>>
      BY <3>1 DEF Handle
    <3>3. PICK state \in ThreadState : Becomes(t, state) /\ state.pc = "answer"
      BY <3>2, AnswerTyped DEF Answers
    <3>4. thread'[t] = state /\ \A u \in Threads \ {t} : thread'[u] = thread[u]
      BY <3>3, ThreadBecomes
    <3>5. QED BY <3>2, <3>3, <3>4, RateUntouched DEF Limiting
  <2>3. CASE AnswerRequest(t)
    <3>1. Becomes(t, Free) /\ UNCHANGED <<window, admitted, crowded>>
      BY <2>3 DEF AnswerRequest, Reply
    <3>2. thread'[t] = Free /\ \A u \in Threads \ {t} : thread'[u] = thread[u]
      BY <3>1, FreeTyped, ThreadBecomes
    <3>3. QED BY <3>1, <3>2, RateUntouched DEF Limiting, Free
  <2>4. QED BY <1>2, <2>1, <2>2, <2>3 DEF ThreadStep
<1>3. ASSUME NEW t \in Threads, NEW c \in Callers, Deliver(t, c) PROVE RateInv'
  <2> DEFINE busy == [Free EXCEPT !.pc = "arrived", !.from = c, !.call = "awaited"]
  <2>1. Becomes(t, busy) /\ UNCHANGED <<window, admitted, crowded>>
    BY <1>3 DEF Deliver, ReceiveRequest
  <2>2. busy \in ThreadState /\ busy.pc = "arrived" /\ busy.age = 0
    BY FreeTyped DEF ThreadState, Free
  <2> HIDE DEF busy
  <2>3. thread'[t] = busy /\ \A u \in Threads \ {t} : thread'[u] = thread[u]
    BY <2>1, <2>2, ThreadBecomes
  <2>4. QED BY <2>1, <2>2, <2>3, RateUntouched DEF Limiting
<1>4. ASSUME UNCHANGED <<window, admitted, crowded>>,
             \/ UNCHANGED thread
             \/ \E c \in Callers : thread' = Abandoned(c)
             \/ \E c \in Callers :
                  thread' = [t \in Threads |-> IF thread[t].from = c
                                              THEN [thread[t] EXCEPT !.call = "late"]
                                              ELSE thread[t]]
      PROVE  RateInv'
  <2>1. \A t \in Threads :
          /\ thread'[t].pc = thread[t].pc /\ thread'[t].from = thread[t].from
          /\ thread'[t].age = thread[t].age /\ thread'[t].kept = thread[t].kept
    BY <1>4 DEF Abandoned, Typed, ThreadState
  <2>2. QED BY <1>4, <2>1, RateUntouched
<1>5. ASSUME NEW c \in Callers, ClientStep(c) PROVE RateInv'
  BY <1>4, <1>5 DEF ClientStep, BeginCall, TryAgain, gateVars
<1>6. ASSUME NEW c \in Callers, NoConnection(c) \/ TimeOut(c) \/ BreakConnection(c)
      PROVE  RateInv'
  BY <1>4, <1>6 DEF NoConnection, TimeOut, BreakConnection, gateVars
<1>7. ASSUME NEW c \in Callers, EndCredential(c) PROVE RateInv'
  BY <1>4, <1>7 DEF EndCredential
<1>8. ASSUME Restart PROVE RateInv'
  BY <1>8, ForgettingKeepsRate DEF Restart, ForgetEverything
<1>9. ASSUME Settle PROVE RateInv' BY <1>4, <1>9 DEF Settle, gateVars
<1>10. ASSUME Tick PROVE RateInv' BY <1>1, <1>10, TickKeepsRate
<1>11. ASSUME UNCHANGED vars PROVE RateInv' BY <1>4, <1>11 DEF vars, gateVars
<1>12. QED
  BY <1>2, <1>3, <1>5, <1>6, <1>7, <1>8, <1>9, <1>10, <1>11 DEF Next

LEMMA RateIsKept == Typed /\ Answering /\ RateInv => LimitIsKept
<1> SUFFICES ASSUME Typed, Answering, RateInv PROVE LimitIsKept
  OBVIOUS
<1>1. ASSUME NEW t \in Threads, thread[t].pc = "compare", AtLimit(thread[t].from)
      PROVE  Size(admitted[thread[t].from]) >= RPM
  <2>1. thread[t].from \in Callers BY <1>1 DEF Answering
  <2>2. /\ window[thread[t].from][Oldest] >= RPM
        /\ window[thread[t].from][Oldest] \in Nat
        /\ admitted[thread[t].from][Oldest] \in Nat
    BY <1>1, <2>1, AgesAre DEF AtLimit, Size, Typed, Windows
  <2>3. \/ window[thread[t].from][Oldest] <= admitted[thread[t].from][Oldest]
        \/ admitted[thread[t].from][Oldest] >= RPM
    BY <2>1, AgesAre DEF RateInv, NothingAdded, Within
  <2>4. QED BY <2>2, <2>3, AgesAre DEF Size
<1>2. \A c \in Callers \ crowded : admitted[c][WINDOW - 1] <= RPM
  <2>1. WINDOW - 1 \in Ages /\ WINDOW - 1 < WINDOW
    <3>1. 0 \in 0..SLOW /\ WINDOW + 0 - 1 = WINDOW - 1 BY AgesAre
    <3>2. QED BY <3>1, AgesAre
  <2>2. QED BY <2>1 DEF RateInv, NothingLost
<1>3. QED BY <1>1, <1>2 DEF LimitIsKept, At

\* A call that returns "ok" was done by the master, and one that is refused at its first
\* attempt was not and will not be, though answers get lost, requests outlive the attempt
\* that sent them and are handled twice, and the master restarts.
THEOREM OutcomeTrue == FairSpec => []OutcomeIsTrue
<1>1. OutcomeInv => OutcomeIsTrue BY DEF OutcomeInv
<1>2. QED BY <1>1, InitOutcome, StepsKeepOutcome, PTL DEF FairSpec

\* Windows never count an entry more than was admitted, whatever requests overwrite of each
\* other: nobody is refused who did not get RPM requests through.  Requests of a caller that
\* do not overlap are never more than RPM within WINDOW, for any RPM, WINDOW and slowness.
THEOREM LimitKept == FairSpec => []LimitIsKept
<1>1. Typed /\ OutcomeInv => Answering BY DEF OutcomeInv
<1>2. QED
  BY <1>1, InitOutcome, StepsKeepOutcome, InitRate, StepsKeepRate, RateIsKept, PTL DEF FairSpec

\* The state of the client and of the request gate is well-typed.
THEOREM TypeCorrect == FairSpec => []TypeOK
<1>1. Typed => TypeOK
  BY DEF Typed, TypeOK, GateTypeOK, ThreadState, CallState
<1>2. QED BY <1>1, InitOutcome, StepsKeepOutcome, PTL DEF FairSpec
================================================================================
