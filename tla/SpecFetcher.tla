---- MODULE SpecFetcher ----
(***************************************************************************)
(* The download of one URL with retries (crawler/fetcher.py).              *)
(*                                                                         *)
(* The unit of time is half a second, in which the base of the back-off is *)
(* 2, its jitter 1 and the safety margin of a rate-limit wait 2; "now" is  *)
(* counted from the call.  A response is the class of its status, and for  *)
(* a rate-limited one the two headers that say when to come back.  What a  *)
(* request takes is open: the timeout that httpx is given holds for each   *)
(* connect and each read, and for every redirect anew.                     *)
(***************************************************************************)
EXTENDS Integers, Sequences

CONSTANTS
  MaxRetries,    \* MAX_RETRIES
  MaxBackoff,    \* MAX_BACKOFF
  DefaultWait,   \* the 60 s of _rate_limit_wait
  Durations,     \* how long a request may take
  Resets,        \* X-RateLimit-Reset, as an offset from the answer
  RetryAfters,   \* Retry-After; a negative one is an error to time.sleep
  None           \* a header that is absent or no number; no result yet

ASSUME FetcherConstants ==
  /\ MaxRetries \in Nat \ {0}
  /\ MaxBackoff \in Nat \ {0}
  /\ DefaultWait \in Nat /\ Durations \subseteq Nat
  /\ Resets \cup RetryAfters \subseteq Int
  /\ None \notin Int

VARIABLES
  pc,        \* idle, request, sleep, next or returned
  attempt,   \* the attempt under way, from 1
  now,       \* the time since the call
  wake,      \* when time.sleep() returns
  slept,     \* history variable: the time this call has slept
  result,    \* the FetchResult, or None
  answers,   \* what the requests of this call brought
  resetAt,   \* history variable: the latest reset that an answer named
  lastAnswer \* when the last answer came

fetchVars == <<pc, attempt, now, wake, slept, result, answers, resetAt, lastAnswer>>

Definitive == {"ok", "not_modified", "client_error"}
Transient  == {"rate_limited", "server_error", "unexpected_status", "exception"}

FetchResult == [success : BOOLEAN, not_modified : BOOLEAN, attempts : Nat]

MaxOf(a, b) == IF a >= b THEN a ELSE b
MinOf(a, b) == IF a <= b THEN a ELSE b

(* Suffixed with a double underscore: mutants, see Versioning.             *)
_backoff__WideJitter(n) == {MinOf(2 * 2^(n - 1), MaxBackoff) + j : j \in -3 .. 3}

(* _backoff: doubles from 2, capped, with a jitter of one unit.            *)
_backoff(n) == {MinOf(2 * 2^(n - 1), MaxBackoff) + j : j \in -1 .. 1}

_rate_limit_wait__NoReset(reset, retry_after) ==
  IF retry_after # None THEN retry_after ELSE DefaultWait

_rate_limit_wait__Summed(reset, retry_after) ==
  IF reset # None THEN MaxOf(reset + 2, 2) + DefaultWait
  ELSE IF retry_after # None THEN retry_after
  ELSE DefaultWait

(* _rate_limit_wait: the reset time comes before Retry-After.  A date is   *)
(* no number to float(), and is passed over like a header that is absent.  *)
_rate_limit_wait(reset, retry_after) ==
  IF reset # None THEN MaxOf(reset + 2, 2)
  ELSE IF retry_after # None THEN retry_after
  ELSE DefaultWait

FetchInit ==
  /\ pc = "idle"
  /\ attempt = 0
  /\ now = 0
  /\ wake = 0 /\ slept = 0
  /\ result = None
  /\ answers = <<>>
  /\ resetAt = 0
  /\ lastAnswer = 0

(* fetch(url), and the next call after it has returned.                    *)
Call ==
  /\ pc \in {"idle", "returned"}
  /\ pc' = "request"
  /\ attempt' = 1
  /\ now' = 0
  /\ wake' = 0 /\ slept' = 0
  /\ result' = None
  /\ answers' = <<>>
  /\ resetAt' = 0
  /\ lastAnswer' = 0

(* A request is answered, or fails.                                        *)
Receive(answer, duration) ==
  /\ pc = "request"
  /\ now' = now + duration
  /\ lastAnswer' = now + duration
  /\ answers' = Append(answers, answer)
  /\ UNCHANGED <<attempt, slept>>

ReturnsDefinitive(duration) ==
  \E answer \in Definitive :
    /\ Receive(answer, duration)
    /\ result' = [success      |-> answer \in {"ok", "not_modified"},
                  not_modified |-> answer = "not_modified",
                  attempts     |-> attempt]
    /\ pc' = "returned"
    /\ UNCHANGED <<wake, resetAt>>

(* 5xx, and what is neither success nor error: _attempt returns None.      *)
ReturnsNone(duration) ==
  \E answer \in {"server_error", "unexpected_status"} :
    /\ Receive(answer, duration)
    /\ pc' = "next"
    /\ UNCHANGED <<wake, result, resetAt>>

(* The handler of fetch(): wait before the next attempt, if there is one.  *)
HandleException ==
  /\ IF attempt < MaxRetries
     THEN /\ \E wait \in _backoff(attempt) : wake' = now' + wait
          /\ pc' = "sleep"
     ELSE pc' = "next" /\ UNCHANGED wake
  /\ UNCHANGED result

Raises(duration) ==
  /\ Receive("exception", duration)
  /\ HandleException
  /\ UNCHANGED resetAt

(* 429 and 403: sleep for as long as the headers say, on the last attempt  *)
(* too; time.sleep() of a negative number raises.                          *)
RateLimited(reset, retry_after, duration) ==
  LET wait == _rate_limit_wait(reset, retry_after) IN
  /\ Receive("rate_limited", duration)
  /\ resetAt' = IF reset = None THEN resetAt ELSE MaxOf(resetAt, now' + reset)
  /\ IF wait >= 0
     THEN wake' = now' + wait /\ pc' = "sleep" /\ UNCHANGED result
     ELSE HandleException

Sleep__Rearms ==
  /\ pc = "sleep"
  /\ now' = wake
  /\ UNCHANGED <<pc, attempt, wake, slept, result, answers, resetAt, lastAnswer>>

Sleep ==
  /\ pc = "sleep"
  /\ now' = wake /\ slept' = slept + (wake - now)
  /\ pc' = "next"
  /\ UNCHANGED <<attempt, wake, result, answers, resetAt, lastAnswer>>

Retry__OneMore ==
  /\ pc = "next"
  /\ attempt <= MaxRetries
  /\ attempt' = attempt + 1
  /\ pc' = "request"
  /\ UNCHANGED <<now, wake, slept, result, answers, resetAt, lastAnswer>>

(* The head of the loop, and the failure after it.                         *)
Retry ==
  /\ pc = "next"
  /\ attempt < MaxRetries
  /\ attempt' = attempt + 1
  /\ pc' = "request"
  /\ UNCHANGED <<now, wake, slept, result, answers, resetAt, lastAnswer>>

GiveUp ==
  /\ pc = "next"
  /\ attempt = MaxRetries
  /\ result' = [success |-> FALSE, not_modified |-> FALSE, attempts |-> MaxRetries]
  /\ pc' = "returned"
  /\ UNCHANGED <<attempt, now, wake, slept, answers, resetAt, lastAnswer>>

Attempt ==
  \E duration \in Durations :
    \/ ReturnsDefinitive(duration)
    \/ ReturnsNone(duration)
    \/ Raises(duration)
    \/ \E reset \in Resets \cup {None}, retry_after \in RetryAfters \cup {None} :
         RateLimited(reset, retry_after, duration)

FetchNext == Call \/ Attempt \/ Sleep \/ Retry \/ GiveUp

(* A call under way gets on with it: sleeps end, and so do requests.  The  *)
(* client waits for nothing for ever, and an answer of finite length that  *)
(* keeps coming is read to its end.                                        *)
FetchSpec == /\ FetchInit /\ [][FetchNext]_fetchVars
             /\ WF_fetchVars(Attempt \/ Sleep \/ Retry \/ GiveUp)

FetchTypeOK ==
  /\ pc \in {"idle", "request", "sleep", "next", "returned"}
  /\ attempt \in 0 .. MaxRetries
  /\ {now, wake, slept, resetAt, lastAnswer} \subseteq Nat
  /\ result \in FetchResult \cup {None}
  /\ answers \in Seq(Definitive \cup Transient)

-----------------------------------------------------------------------------
(* What a call returns is a function of what its requests brought: the     *)
(* first definitive answer if there is one among the first MaxRetries, and *)
(* a failure after exactly MaxRetries transient ones (fetcher.py:131-155). *)
Outcome(seq) ==
  LET last == seq[Len(seq)] IN
  [success      |-> last \in {"ok", "not_modified"},
   not_modified |-> last = "not_modified",
   attempts     |-> Len(seq)]

ResultFollowsAnswers ==
  /\ Len(answers) <= MaxRetries
  /\ \A i \in 1 .. Len(answers) - 1 : answers[i] \in Transient
  /\ pc = "returned" => /\ result = Outcome(answers)
                        /\ \/ answers[Len(answers)] \in Definitive
                           \/ Len(answers) = MaxRetries

(* No request of a call goes out before a reset that any answer of the     *)
(* call has named, whatever came between: the reset has precedence, and a  *)
(* later wait is never cut short (fetcher.py:136-148, 206-218, 267-271).   *)
(* Retry-After has no such property: beside a reset it is not looked at.   *)
HonoursReset == pc = "request" => now >= resetAt

(* A call sleeps at most once after each attempt, the last one included,   *)
(* and never longer than a server may ask for (fetcher.py:34-38, 217): the *)
(* waits that servers name are not capped by MAX_BACKOFF.                  *)
LongestWait ==
  LET waits == {DefaultWait, MaxBackoff + 1, 2} \cup RetryAfters
                 \cup {reset + 2 : reset \in Resets}
  IN  CHOOSE w \in waits : \A other \in waits : other <= w

SleepIsBounded == slept <= attempt * LongestWait

(* A call returns (fetcher.py:108-155).                                    *)
CallReturns == pc = "request" ~> pc = "returned"

(* "Exponential backoff with jitter handles transient 5xx errors"          *)
(* (fetcher.py:9): between a 5xx answer and the next request is a pause.   *)
BacksOffBeforeRetry ==
  pc = "request" /\ attempt > 1 /\ answers[attempt - 1] = "server_error"
    => now > lastAnswer
====
