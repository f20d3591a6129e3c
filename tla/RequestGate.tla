------------------------------- MODULE RequestGate -------------------------------
(***************************************************************************)
(* What an HTTP request to the master passes before its handler runs, on a *)
(* server thread of its own: the sliding-window rate limit of              *)
(* middleware.py, the check of the API key or token in auth_L.py and       *)
(* api_keys.py, the check of the role in authorization.py.                 *)
(*                                                                         *)
(* The rate limit has no lock: it copies the window without what has       *)
(* expired, stores the copy, compares its length and appends, each a step  *)
(* of its own, with a clock that was read before all of them.              *)
(*                                                                         *)
(* Time is counted in ticks, WINDOW of which make the 60 seconds.  Of a    *)
(* window, a list of times, only how many entries are at most so old       *)
(* matters: it is kept as a function w, where w[a] is the number of        *)
(* entries that are no older than a.  An entry that is older than every    *)
(* age considered is dropped by whoever looks next.                        *)
(***************************************************************************)
EXTENDS Naturals, FiniteSets

CONSTANTS
  Callers,      \* callers by the identifier under which they are counted
  Threads,      \* server threads
  RPM,          \* RATE_LIMIT_DEFAULT_RPM
  WINDOW,       \* the 60 seconds, in ticks
  SLOW          \* ticks that check_rate_limit() takes at most

NoCaller == "none"

ASSUME GateAssumption ==
  /\ NoCaller \notin Callers
  /\ {RPM, WINDOW} \subseteq Nat \ {0} /\ SLOW \in Nat

VARIABLES
  window,     \* _rate_windows
  accepted,   \* _KEY_STORE, _TOKEN_STORE: callers whose key or token would be accepted
  thread,     \* where each server thread is, and its local variables
  admitted,   \* history: the ages of the requests that passed, as in a window; of a
              \* caller who is in crowded, of the last RPM of them
  crowded     \* history: callers who had two requests in check_rate_limit() at once

gateVars == <<window, accepted, thread, admitted, crowded>>

\* Two calls that are as slow as can be may keep an entry for twice that time.
Oldest == WINDOW + 2 * SLOW - 1
Ages == 0..Oldest
Windows == {w \in [Ages -> Nat] : \A a, b \in Ages : a <= b => w[a] <= w[b]}
Empty == [a \in Ages |-> 0]
Size(w) == w[Oldest]
Older(w) == [a \in Ages |-> IF a = 0 THEN 0 ELSE w[a - 1]]
\* The entries that are no older than age.
Recent(w, age) == [a \in Ages |-> w[IF a < age THEN a ELSE age]]

Limiting == {"copy", "store", "compare", "append"}
Free == [pc |-> "free", from |-> NoCaller, call |-> "late", age |-> 0, kept |-> Empty,
         answer |-> "none"]
Answers == {"limited", "refused", "done", "failed"}

GateTypeOK ==
  /\ window \in [Callers -> Windows] /\ admitted \in [Callers -> Windows]
  /\ accepted \subseteq Callers /\ crowded \subseteq Callers
  /\ thread \in [Threads -> [pc : {"free", "arrived", "verify", "handle", "answer"} \cup Limiting,
                             from : Callers \cup {NoCaller},
                             call : {"awaited", "current", "late"},
                             age : 0..SLOW, kept : Windows,
                             answer : Answers \cup {"none"}]]

GateInit ==
  /\ window = [c \in Callers |-> Empty] /\ admitted = [c \in Callers |-> Empty]
  /\ accepted = Callers /\ crowded = {}
  /\ thread = [t \in Threads |-> Free]

At(t, l) == thread[t].pc = l
Becomes(t, state) == thread' = [thread EXCEPT ![t] = state]
GoTo(t, l) == Becomes(t, [thread[t] EXCEPT !.pc = l])
AnswerWith(t, answer) ==
  Becomes(t, [Free EXCEPT !.pc = "answer", !.from = thread[t].from, !.call = thread[t].call,
                          !.answer = answer])
Checking(c) == {t \in Threads : thread[t].from = c /\ thread[t].pc \in Limiting}

--------------------------------------------------------------------------------
\* middleware.check_rate_limit()

\* The request is on its way to a thread, or waits there.
ReceiveRequest(t, c) ==
  /\ At(t, "free")
  /\ Becomes(t, [Free EXCEPT !.pc = "arrived", !.from = c, !.call = "awaited"])
  /\ UNCHANGED <<window, accepted, admitted, crowded>>

ReadClock(t) ==
  /\ At(t, "arrived")
  /\ GoTo(t, "copy")
  /\ crowded' = IF Checking(thread[t].from) # {} THEN crowded \cup {thread[t].from}
                ELSE crowded
  /\ UNCHANGED <<window, accepted, admitted>>

\* What is less than 60 seconds older than this request.
CopyWindow(t) ==
  /\ At(t, "copy")
  /\ Becomes(t, [thread[t] EXCEPT
       !.pc = "store",
       !.kept = Recent(window[thread[t].from], WINDOW + thread[t].age - 1)])
  /\ UNCHANGED <<window, accepted, admitted, crowded>>

StoreWindow(t) ==
  /\ At(t, "store")
  /\ window' = [window EXCEPT ![thread[t].from] = thread[t].kept]
  /\ Becomes(t, [thread[t] EXCEPT !.pc = "compare", !.kept = Empty])
  /\ UNCHANGED <<accepted, admitted, crowded>>

\* Mutant: one request too many passes.
OverLimit(c) == Size(window[c]) > RPM

AtLimit(c) == Size(window[c]) >= RPM

Counted(w, age) == [a \in Ages |-> w[a] + (IF a >= age THEN 1 ELSE 0)]
Latest(w) == [a \in Ages |-> IF w[a] > RPM THEN RPM ELSE w[a]]

\* Mutant: requests that do not pass are counted as well, up to the limit.
CompareAndCount(t) ==
  /\ At(t, "compare")
  /\ IF AtLimit(thread[t].from)
     THEN /\ AnswerWith(t, "limited")
          /\ window' = [window EXCEPT ![thread[t].from] = Latest(Counted(@, thread[t].age))]
     ELSE /\ GoTo(t, "append")
          /\ UNCHANGED window
  /\ UNCHANGED <<accepted, admitted, crowded>>

Compare(t) ==
  /\ At(t, "compare")
  /\ IF AtLimit(thread[t].from) THEN AnswerWith(t, "limited") ELSE GoTo(t, "append")
  /\ UNCHANGED <<window, accepted, admitted, crowded>>

AppendRequest(t) ==
  LET c == thread[t].from
      age == thread[t].age
  IN /\ At(t, "append")
     /\ window' = [window EXCEPT ![c] = Counted(@, age)]
     /\ admitted' = [admitted EXCEPT ![c] = IF c \in crowded THEN Latest(Counted(@, age))
                                                             ELSE Counted(@, age)]
     /\ Becomes(t, [thread[t] EXCEPT !.pc = "verify", !.age = 0])
     /\ UNCHANGED <<accepted, crowded>>

--------------------------------------------------------------------------------
\* authorization.require_permission(), auth.verify()

\* 401 and 403 are one to the caller: neither is tried again.
Verify(t) ==
  /\ At(t, "verify")
  /\ IF thread[t].from \in accepted THEN GoTo(t, "handle") ELSE AnswerWith(t, "refused")
  /\ UNCHANGED <<window, accepted, admitted, crowded>>

\* The handler's work is left to the modules that extend this one.
Handle(t, answer) ==
  /\ At(t, "handle")
  /\ AnswerWith(t, answer)
  /\ UNCHANGED <<window, accepted, admitted, crowded>>

Reply(t) ==
  /\ At(t, "answer")
  /\ Becomes(t, Free)
  /\ UNCHANGED <<window, accepted, admitted, crowded>>

--------------------------------------------------------------------------------
\* Keys, time and restarts

\* revoke_api_key(), revoke_token(), or the end of a token's time.
EndCredential(c) ==
  /\ c \in accepted
  /\ accepted' = accepted \ {c}
  /\ UNCHANGED <<window, thread, admitted, crowded>>

\* Keys and tokens are in memory only, and new ones are random.
ForgetEverything ==
  /\ window' = [c \in Callers |-> Empty]
  /\ admitted' = [c \in Callers |-> Empty]
  /\ accepted' = {}
  /\ thread' = [t \in Threads |-> Free]
  /\ UNCHANGED crowded

Tick ==
  /\ \A t \in Threads : thread[t].pc \in Limiting => thread[t].age < SLOW
  /\ window' = [c \in Callers |-> Older(window[c])]
  /\ admitted' = [c \in Callers |-> Older(admitted[c])]
  /\ thread' = [t \in Threads |->
       IF thread[t].pc \in Limiting
       THEN [thread[t] EXCEPT !.age = @ + 1, !.kept = Older(@)]
       ELSE thread[t]]
  /\ UNCHANGED <<accepted, crowded>>

CheckStep(t) ==
  \/ ReadClock(t) \/ CopyWindow(t) \/ StoreWindow(t) \/ Compare(t) \/ AppendRequest(t)
  \/ Verify(t)

--------------------------------------------------------------------------------
\* Properties

\* The limit is "allowed requests per minute" (check_rate_limit): nobody is refused who
\* did not get RPM requests through within a minute and the time two calls take, however
\* requests overtake each other; and the requests of a caller that do not overlap are
\* never more than RPM within a minute.
LimitIsKept ==
  /\ \A t \in Threads :
       At(t, "compare") /\ AtLimit(thread[t].from) => Size(admitted[thread[t].from]) >= RPM
  /\ \A c \in Callers \ crowded : admitted[c][WINDOW - 1] <= RPM
================================================================================
