---- MODULE SpecFetcherProofs ----
(***************************************************************************)
(* Proofs about the download with retries, for every number of attempts,   *)
(* every cap and every header that a server may send.                      *)
(***************************************************************************)
EXTENDS SpecFetcher, FiniteSetTheorems, SequenceTheorems, TLAPS

-----------------------------------------------------------------------------
(*                           Numbers and waits                             *)

(* The subsets of an n-element set are finitely many, and there is one.    *)
LEMMA PowersArePositive ==
  ASSUME NEW n \in Nat
  PROVE  2^n \in Nat \ {0}
<1>1. IsFiniteSet(1 .. n) /\ Cardinality(1 .. n) = n
  BY FS_Interval
<1>2. IsFiniteSet(SUBSET (1 .. n)) /\ Cardinality(SUBSET (1 .. n)) = 2^n
  BY <1>1, FS_SUBSET
<1>3. SUBSET (1 .. n) # {}
  OBVIOUS
<1>4. Cardinality(SUBSET (1 .. n)) \in Nat /\ Cardinality(SUBSET (1 .. n)) # 0
  BY <1>2, <1>3, FS_CardinalityType, FS_EmptySet
<1> QED BY <1>2, <1>4

LEMMA LeastNatural ==
  ASSUME NEW T \in SUBSET Nat, T # {}
  PROVE  \E n \in T : \A m \in T : n <= m
<1> DEFINE Less == {pair \in Nat \X Nat : pair[1] < pair[2]}
<1>1. IsWellFoundedOn(Less, Nat)
  BY NatLessThanWellFounded, Zenon DEF OpToRel
<1>2. \A m, n \in Nat : <<m, n>> \in Less <=> m < n
  OBVIOUS
<1> HIDE DEF Less
<1>3. PICK n \in T : \A m \in T : ~(<<m, n>> \in Less)
  <2>1. T \subseteq Nat
    OBVIOUS
  <2> QED BY <1>1, <2>1, WFMin, Zenon
<1>4. ASSUME NEW m \in T PROVE n <= m
  <2>1. m \in Nat /\ n \in Nat
    BY <1>4
  <2>2. ~(<<m, n>> \in Less)
    BY <1>3, <1>4, Zenon
  <2>3. ~(m < n)
    BY <1>2, <2>1, <2>2, Zenon
  <2> QED BY <2>1, <2>3
<1> QED BY <1>4

LEMMA GreatestInteger ==
  ASSUME NEW S \in SUBSET Int, S # {}, NEW b \in Int, \A s \in S : s <= b
  PROVE  \E s \in S : \A t \in S : t <= s
<1> DEFINE Below == {n \in Nat : \E s \in S : n = b - s}
<1>1. Below \in SUBSET Nat
  OBVIOUS
<1>2. \A s \in S : b - s \in Below
  OBVIOUS
<1>3. \A n \in Below : \E s \in S : n = b - s
  OBVIOUS
<1> HIDE DEF Below
<1>4. PICK n \in Below : \A m \in Below : n <= m
  BY <1>1, <1>2, LeastNatural
<1>5. PICK s \in S : n = b - s
  BY <1>3
<1>6. \A t \in S : t <= s
  <2> SUFFICES ASSUME NEW t \in S PROVE t <= s
    OBVIOUS
  <2>1. b - s <= b - t /\ s \in Int /\ t \in Int
    BY <1>2, <1>4, <1>5
  <2> QED BY <2>1
<1> QED BY <1>6

(* A pause after an exception is never negative: time.sleep() accepts it.  *)
LEMMA BackoffIsATime ==
  ASSUME NEW n \in Nat \ {0}, NEW wait \in _backoff(n)
  PROVE  wait \in 0 .. MaxBackoff + 1
<1>1. 2^(n - 1) \in Nat \ {0}
  <2>1. n - 1 \in Nat
    OBVIOUS
  <2> QED BY <2>1, PowersArePositive
<1>2. MaxBackoff \in Nat \ {0}
  BY FetcherConstants
<1>3. PICK j \in -1 .. 1 : wait = MinOf(2 * 2^(n - 1), MaxBackoff) + j
  BY DEF _backoff
<1> DEFINE power == 2^(n - 1)
<1> HIDE DEF power
<1>4. power \in Nat \ {0} /\ wait = MinOf(2 * power, MaxBackoff) + j
  BY <1>1, <1>3 DEF power
<1>5. MinOf(2 * power, MaxBackoff) \in 1 .. MaxBackoff
  BY <1>2, <1>4 DEF MinOf
<1> QED BY <1>2, <1>4, <1>5

LEMMA HeadersAreNumbers ==
  ASSUME NEW reset \in Resets \cup {None}, NEW retry_after \in RetryAfters \cup {None}
  PROVE  /\ _rate_limit_wait(reset, retry_after) \in Int
         /\ reset # None => reset \in Int
         /\ retry_after # None => retry_after \in Int
  BY FetcherConstants DEF _rate_limit_wait, MaxOf

-----------------------------------------------------------------------------
(*                               The types                                 *)

TimeOK ==
  /\ now \in Nat /\ wake \in Nat /\ slept \in Nat /\ lastAnswer \in Nat
  /\ resetAt \in Nat
  /\ pc = "sleep" => wake >= now

ControlOK ==
  /\ pc \in {"idle", "request", "sleep", "next", "returned"}
  /\ attempt \in 0 .. MaxRetries
  /\ pc # "idle" => attempt # 0
  /\ result \in FetchResult \cup {None}
  /\ answers \in Seq(Definitive \cup Transient)

FetchTypeInv == TimeOK /\ ControlOK

(* What an answer does to the clock, and where it leads to.                *)
LEMMA AnswerSteps ==
  ASSUME FetchTypeInv, Attempt
  PROVE  \E duration \in Durations, answer \in Definitive \cup Transient :
           /\ pc = "request" /\ Receive(answer, duration)
           /\ \/ answer \in Definitive /\ ReturnsDefinitive(duration)
              \/ /\ answer \in Transient /\ UNCHANGED result
                 /\ \/ pc' = "next" /\ UNCHANGED wake
                    \/ \E wait \in 0 .. MaxBackoff + 1 : pc' = "sleep" /\ wake' = now' + wait
                    \/ \E reset \in Resets \cup {None}, retry_after \in RetryAfters \cup {None} :
                         /\ _rate_limit_wait(reset, retry_after) >= 0
                         /\ pc' = "sleep"
                         /\ wake' = now' + _rate_limit_wait(reset, retry_after)
<1>1. attempt \in Nat \ {0} \/ pc # "request"
  BY FetcherConstants DEF FetchTypeInv, ControlOK
<1>2. PICK duration \in Durations :
        \/ ReturnsDefinitive(duration)
        \/ ReturnsNone(duration)
        \/ Raises(duration)
        \/ \E reset \in Resets \cup {None}, retry_after \in RetryAfters \cup {None} :
             RateLimited(reset, retry_after, duration)
  BY DEF Attempt
<1>3. ASSUME pc = "request", HandleException
      PROVE  /\ UNCHANGED result
             /\ \/ pc' = "next" /\ UNCHANGED wake
                \/ \E wait \in 0 .. MaxBackoff + 1 : pc' = "sleep" /\ wake' = now' + wait
  BY <1>1, <1>3, BackoffIsATime DEF HandleException
<1>4. CASE ReturnsDefinitive(duration)
  BY <1>4 DEF ReturnsDefinitive, Receive
<1>5. CASE ReturnsNone(duration)
  BY <1>5 DEF ReturnsNone, Receive, Transient
<1>6. CASE Raises(duration)
  BY <1>3, <1>6 DEF Raises, Receive, Transient
<1>7. ASSUME NEW reset \in Resets \cup {None}, NEW retry_after \in RetryAfters \cup {None},
             RateLimited(reset, retry_after, duration)
      PROVE  /\ Receive("rate_limited", duration) /\ pc = "request" /\ UNCHANGED result
             /\ \/ pc' = "next" /\ UNCHANGED wake
                \/ \E wait \in 0 .. MaxBackoff + 1 : pc' = "sleep" /\ wake' = now' + wait
                \/ /\ _rate_limit_wait(reset, retry_after) >= 0
                   /\ pc' = "sleep"
                   /\ wake' = now' + _rate_limit_wait(reset, retry_after)
  BY <1>3, <1>7 DEF RateLimited, Receive
<1>8. "rate_limited" \in Transient
  BY DEF Transient
<1> QED BY <1>2, <1>4, <1>5, <1>6, <1>7, <1>8

(* What the headers do to the reset that has been named.                   *)
LEMMA NamedResets ==
  ASSUME FetchTypeInv, Attempt, now' \in Nat
  PROVE  /\ resetAt' \in Nat
         /\ \/ UNCHANGED resetAt
            \/ \E reset \in Resets : /\ resetAt' = MaxOf(resetAt, now' + reset)
                                    /\ pc' = "sleep"
                                    /\ wake' = now' + MaxOf(reset + 2, 2)
<1>1. resetAt \in Nat
  BY DEF FetchTypeInv, TimeOK
<1>2. ASSUME NEW reset \in Resets \cup {None}, NEW retry_after \in RetryAfters \cup {None},
             NEW duration \in Durations, RateLimited(reset, retry_after, duration)
      PROVE  /\ resetAt' \in Nat
             /\ \/ UNCHANGED resetAt
                \/ \E r \in Resets : /\ resetAt' = MaxOf(resetAt, now' + r)
                                    /\ pc' = "sleep"
                                    /\ wake' = now' + MaxOf(r + 2, 2)
  <2>1. CASE reset = None
    BY <1>1, <1>2, <2>1 DEF RateLimited
  <2>2. CASE reset # None
    <3>1. reset \in Resets /\ reset \in Int
      BY <2>2, FetcherConstants
    <3>2. _rate_limit_wait(reset, retry_after) = MaxOf(reset + 2, 2)
      BY <2>2 DEF _rate_limit_wait
    <3>3. MaxOf(reset + 2, 2) >= 0
      BY <3>1 DEF MaxOf
    <3>4. pc' = "sleep" /\ wake' = now' + MaxOf(reset + 2, 2)
      BY <1>2, <3>2, <3>3 DEF RateLimited
    <3>5. resetAt' = MaxOf(resetAt, now' + reset)
      BY <1>2, <2>2 DEF RateLimited
    <3>6. now' \in Nat /\ now' + reset \in Int
      BY <3>1
    <3>7. MaxOf(resetAt, now' + reset) \in Nat
      BY <1>1, <3>6 DEF MaxOf
    <3> QED BY <3>1, <3>4, <3>5, <3>7
  <2> QED BY <2>1, <2>2
<1>3. \/ UNCHANGED resetAt
      \/ \E duration \in Durations, reset \in Resets \cup {None},
            retry_after \in RetryAfters \cup {None} :
              RateLimited(reset, retry_after, duration)
  BY DEF Attempt, ReturnsDefinitive, ReturnsNone, Raises
<1> QED BY <1>1, <1>2, <1>3

LEMMA AnswerTimes ==
  ASSUME FetchTypeInv, Attempt
  PROVE  /\ pc = "request" /\ UNCHANGED <<attempt, slept>>
         /\ now' >= now
         /\ now' \in Nat /\ wake' \in Nat /\ lastAnswer' \in Nat
         /\ pc' \in {"sleep", "next", "returned"}
         /\ pc' = "sleep" => wake' >= now'
<1>1. PICK duration \in Durations, answer \in Definitive \cup Transient :
           /\ pc = "request" /\ Receive(answer, duration)
           /\ \/ answer \in Definitive /\ ReturnsDefinitive(duration)
              \/ /\ answer \in Transient /\ UNCHANGED result
                 /\ \/ pc' = "next" /\ UNCHANGED wake
                    \/ \E wait \in 0 .. MaxBackoff + 1 : pc' = "sleep" /\ wake' = now' + wait
                    \/ \E reset \in Resets \cup {None}, retry_after \in RetryAfters \cup {None} :
                         /\ _rate_limit_wait(reset, retry_after) >= 0
                         /\ pc' = "sleep"
                         /\ wake' = now' + _rate_limit_wait(reset, retry_after)
  BY AnswerSteps
<1>2. duration \in Nat /\ MaxBackoff \in Nat
  BY FetcherConstants
<1>3. now' = now + duration /\ lastAnswer' = now + duration /\ now' \in Nat
      /\ now' >= now /\ UNCHANGED <<attempt, slept>>
  BY <1>1, <1>2 DEF Receive, FetchTypeInv, TimeOK
<1>4. CASE ReturnsDefinitive(duration)
  BY <1>1, <1>3, <1>4 DEF ReturnsDefinitive, FetchTypeInv, TimeOK
<1>5. CASE pc' = "next" /\ UNCHANGED wake
  BY <1>1, <1>3, <1>5 DEF FetchTypeInv, TimeOK
<1>6. ASSUME NEW wait \in Int, wait >= 0, pc' = "sleep", wake' = now' + wait
      PROVE  wake' \in Nat /\ wake' >= now'
  BY <1>3, <1>6
<1>7. CASE \E wait \in 0 .. MaxBackoff + 1 : pc' = "sleep" /\ wake' = now' + wait
  BY <1>1, <1>2, <1>3, <1>6, <1>7
<1>8. CASE \E reset \in Resets \cup {None}, retry_after \in RetryAfters \cup {None} :
             /\ _rate_limit_wait(reset, retry_after) >= 0
             /\ pc' = "sleep"
             /\ wake' = now' + _rate_limit_wait(reset, retry_after)
  BY <1>1, <1>3, <1>6, <1>8, HeadersAreNumbers
<1> QED BY <1>1, <1>4, <1>5, <1>7, <1>8

LEMMA FetchTypeStep ==
  ASSUME FetchTypeInv, [FetchNext]_fetchVars
  PROVE  FetchTypeInv'
<1> USE DEF FetchTypeInv, TimeOK, ControlOK
<1>1. CASE Call
  <2>1. <<>> \in Seq(Definitive \cup Transient)
    OBVIOUS
  <2>2. 1 \in 0 .. MaxRetries
    BY FetcherConstants
  <2> QED BY <1>1, <2>1, <2>2 DEF Call
<1>2. CASE Attempt
  <2>1. PICK duration \in Durations, answer \in Definitive \cup Transient :
             /\ Receive(answer, duration)
             /\ \/ answer \in Definitive /\ ReturnsDefinitive(duration)
                \/ UNCHANGED result
    BY <1>2, AnswerSteps
  <2>2. answers' \in Seq(Definitive \cup Transient)
    BY <2>1, AppendProperties DEF Receive
  <2>3. attempt \in Nat /\ MaxRetries \in Nat
    BY FetcherConstants
  <2>4. result' \in FetchResult \cup {None}
    <3>1. CASE UNCHANGED result
      BY <3>1
    <3>2. CASE ReturnsDefinitive(duration)
      <4>1. PICK a \in Definitive :
              result' = [success      |-> a \in {"ok", "not_modified"},
                         not_modified |-> a = "not_modified",
                         attempts     |-> attempt]
        BY <3>2 DEF ReturnsDefinitive
      <4> DEFINE success      == a \in {"ok", "not_modified"}
                 not_modified == a = "not_modified"
      <4>2. success \in BOOLEAN /\ not_modified \in BOOLEAN
        BY SMT
      <4>3. result' = [success |-> success, not_modified |-> not_modified,
                       attempts |-> attempt]
        BY <4>1
      <4> HIDE DEF success, not_modified
      <4> QED BY <2>3, <4>2, <4>3 DEF FetchResult
    <3> QED BY <2>1, <3>1, <3>2
  <2>5. resetAt' \in Nat
    BY <1>2, AnswerTimes, NamedResets
  <2> QED BY <1>2, <2>2, <2>4, <2>5, AnswerTimes
<1>3. CASE Sleep
  <2>1. slept' = slept + (wake - now) /\ wake - now \in Nat
    BY <1>3 DEF Sleep
  <2> QED BY <1>3, <2>1 DEF Sleep
<1>4. CASE Retry
  BY <1>4, FetcherConstants DEF Retry
<1>5. CASE GiveUp
  BY <1>5, FetcherConstants DEF GiveUp, FetchResult
<1>6. CASE UNCHANGED fetchVars
  BY <1>6 DEF fetchVars
<1> QED BY <1>1, <1>2, <1>3, <1>4, <1>5, <1>6 DEF FetchNext

LEMMA FetchTypeInvariant == FetchSpec => []FetchTypeInv
<1>1. FetchInit => FetchTypeInv
  BY FetcherConstants DEF FetchInit, FetchTypeInv, TimeOK, ControlOK
<1>2. FetchTypeInv /\ [FetchNext]_fetchVars => FetchTypeInv'
  BY FetchTypeStep
<1> QED BY <1>1, <1>2, PTL DEF FetchSpec

(* Whatever a server answers, the fetcher never sleeps into the past, and  *)
(* its attempts stay within MAX_RETRIES.                                   *)
THEOREM FetchTypeCorrect == FetchSpec => []FetchTypeOK
<1>1. FetchTypeInv => FetchTypeOK
  BY DEF FetchTypeInv, TimeOK, ControlOK, FetchTypeOK
<1> QED BY <1>1, FetchTypeInvariant, PTL

-----------------------------------------------------------------------------
(*                   What a call makes of the answers                      *)

(* One answer for every attempt that is over; only the last is definitive. *)
AnswersInv ==
  /\ Len(answers) = IF pc = "request" THEN attempt - 1 ELSE attempt
  /\ pc # "returned" => \A i \in 1 .. Len(answers) : answers[i] \in Transient
  /\ pc = "returned" => /\ \A i \in 1 .. Len(answers) - 1 : answers[i] \in Transient
                        /\ result = Outcome(answers)
                        /\ \/ answers[Len(answers)] \in Definitive
                           \/ Len(answers) = MaxRetries

LEMMA OneMoreAnswer ==
  ASSUME FetchTypeInv, AnswersInv, NEW answer \in Definitive \cup Transient,
         NEW duration, Receive(answer, duration)
  PROVE  /\ Len(answers') = attempt /\ attempt' = attempt /\ attempt \in Nat
         /\ answers'[Len(answers')] = answer
         /\ \A i \in 1 .. Len(answers') - 1 : answers'[i] \in Transient
<1> DEFINE n == Len(answers)
<1>1. answers \in Seq(Definitive \cup Transient) /\ n \in Nat /\ n = attempt - 1
      /\ attempt \in Nat
  BY LenProperties, FetcherConstants DEF FetchTypeInv, ControlOK, AnswersInv, Receive
<1>2. answers' = Append(answers, answer) /\ attempt' = attempt /\ pc = "request"
  BY DEF Receive
<1>3. /\ Len(answers') = n + 1 /\ answers'[n + 1] = answer
      /\ \A i \in 1 .. n : answers'[i] = answers[i]
  BY <1>1, <1>2, AppendProperties
<1>4. \A i \in 1 .. n : answers[i] \in Transient
  BY <1>2 DEF AnswersInv
<1> HIDE DEF n
<1> QED BY <1>1, <1>2, <1>3, <1>4

LEMMA AnswersInvStep ==
  ASSUME FetchTypeInv, AnswersInv, [FetchNext]_fetchVars
  PROVE  AnswersInv'
<1>1. CASE Call
  <2>1. Len(<<>>) = 0
    OBVIOUS
  <2> QED BY <1>1, <2>1 DEF Call, AnswersInv
<1>2. CASE Attempt
  <2>1. PICK duration \in Durations, answer \in Definitive \cup Transient :
             /\ pc = "request" /\ Receive(answer, duration)
             /\ \/ answer \in Definitive /\ ReturnsDefinitive(duration)
                \/ answer \in Transient /\ pc' \in {"next", "sleep"}
    BY <1>2, AnswerSteps
  <2>2. /\ Len(answers') = attempt /\ attempt' = attempt /\ attempt \in Nat
        /\ answers'[Len(answers')] = answer
        /\ \A i \in 1 .. Len(answers') - 1 : answers'[i] \in Transient
    BY <2>1, OneMoreAnswer
  <2>3. CASE answer \in Definitive /\ ReturnsDefinitive(duration)
    <3>1. PICK a \in Definitive :
            /\ Receive(a, duration)
            /\ result' = [success      |-> a \in {"ok", "not_modified"},
                          not_modified |-> a = "not_modified",
                          attempts     |-> attempt]
            /\ pc' = "returned"
      BY <2>3 DEF ReturnsDefinitive
    <3>2. answers'[Len(answers')] = a
      BY <3>1, OneMoreAnswer
    <3>3. result' = Outcome(answers')
      BY <2>2, <3>1, <3>2 DEF Outcome
    <3> QED BY <2>2, <3>1, <3>2, <3>3 DEF AnswersInv, Outcome
  <2>4. CASE answer \in Transient /\ pc' \in {"next", "sleep"}
    <3>1. \A i \in 1 .. Len(answers') : answers'[i] \in Transient
      BY <2>2, <2>4
    <3> QED BY <2>2, <2>4, <3>1 DEF AnswersInv
  <2> QED BY <2>1, <2>3, <2>4
<1>3. CASE Sleep
  BY <1>3 DEF Sleep, AnswersInv
<1>4. CASE Retry
  <2>1. attempt \in Nat
    BY FetcherConstants DEF FetchTypeInv, ControlOK
  <2> QED BY <1>4, <2>1 DEF Retry, AnswersInv
<1>5. CASE GiveUp
  <2>1. /\ pc = "next" /\ pc' = "returned" /\ UNCHANGED <<answers, attempt>>
        /\ result' = [success |-> FALSE, not_modified |-> FALSE, attempts |-> MaxRetries]
        /\ attempt = MaxRetries /\ MaxRetries \in Nat \ {0}
    BY <1>5, FetcherConstants DEF GiveUp
  <2>2. Len(answers) = MaxRetries /\ \A i \in 1 .. Len(answers) : answers[i] \in Transient
    BY <2>1 DEF AnswersInv
  <2>3. answers[Len(answers)] \notin {"ok", "not_modified"}
    BY <2>1, <2>2 DEF Transient
  <2>4. result' = Outcome(answers)
    <3> DEFINE last == answers[Len(answers)]
    <3>1. (last \in {"ok", "not_modified"}) = FALSE /\ (last = "not_modified") = FALSE
      BY <2>3, SMT
    <3>2. Outcome(answers) = [success |-> FALSE, not_modified |-> FALSE,
                              attempts |-> Len(answers)]
      BY <3>1, Zenon DEF Outcome
    <3> QED BY <2>1, <2>2, <3>2
  <2>5. \A i \in 1 .. Len(answers) - 1 : answers[i] \in Transient
    BY <2>1, <2>2
  <2> QED BY <2>1, <2>2, <2>4, <2>5 DEF AnswersInv, Outcome
<1>6. CASE UNCHANGED fetchVars
  BY <1>6 DEF fetchVars, AnswersInv, Outcome
<1> QED BY <1>1, <1>2, <1>3, <1>4, <1>5, <1>6 DEF FetchNext

(* A call returns the first definitive answer, or a failure after exactly  *)
(* MAX_RETRIES transient ones.                                             *)
THEOREM ResultsFollow == FetchSpec => []ResultFollowsAnswers
<1>1. FetchInit => AnswersInv
  <2>1. Len(<<>>) = 0
    OBVIOUS
  <2> QED BY <2>1 DEF FetchInit, AnswersInv
<1>2. FetchTypeInv /\ AnswersInv /\ [FetchNext]_fetchVars => AnswersInv'
  BY AnswersInvStep
<1>3. ASSUME FetchTypeInv, AnswersInv
      PROVE  ResultFollowsAnswers
  <2>1. attempt \in 0 .. MaxRetries /\ MaxRetries \in Nat
    BY <1>3, FetcherConstants DEF FetchTypeInv, ControlOK
  <2>2. Len(answers) \in Nat /\ Len(answers) <= MaxRetries
    BY <1>3, <2>1, LenProperties DEF AnswersInv, FetchTypeInv, ControlOK
  <2>3. \A i \in 1 .. Len(answers) - 1 : answers[i] \in Transient
    BY <1>3, <2>2 DEF AnswersInv
  <2> QED BY <1>3, <2>2, <2>3 DEF AnswersInv, ResultFollowsAnswers
<1>4. FetchTypeInv /\ AnswersInv => ResultFollowsAnswers
  BY <1>3
<1> QED BY <1>1, <1>2, <1>4, FetchTypeInvariant, PTL DEF FetchSpec

-----------------------------------------------------------------------------
(*                   No request before a named reset                       *)

(* While the fetcher sleeps it has a named reset ahead of it, and else     *)
(* behind it: no later answer or exception brings it back.                 *)
HonoursInv == resetAt <= IF pc = "sleep" THEN wake ELSE now

LEMMA HonoursInvStep ==
  ASSUME FetchTypeInv, HonoursInv, [FetchNext]_fetchVars
  PROVE  HonoursInv'
<1>1. CASE Call
  BY <1>1 DEF Call, HonoursInv
<1>2. CASE Attempt
  <2>1. /\ pc = "request" /\ now \in Nat /\ now' \in Nat /\ wake' \in Nat /\ now' >= now
        /\ pc' = "sleep" => wake' >= now'
        /\ resetAt \in Nat /\ resetAt <= now
    BY <1>2, AnswerTimes DEF FetchTypeInv, TimeOK, HonoursInv
  <2>2. CASE UNCHANGED resetAt
    BY <2>1, <2>2 DEF HonoursInv
  <2>3. ASSUME NEW reset \in Resets, pc' = "sleep",
               resetAt' = MaxOf(resetAt, now' + reset), wake' = now' + MaxOf(reset + 2, 2)
        PROVE  HonoursInv'
    <3>1. reset \in Int
      BY FetcherConstants
    <3>2. \A n, t \in Nat : t <= n => MaxOf(t, n + reset) <= n + MaxOf(reset + 2, 2)
      BY <3>1 DEF MaxOf
    <3>3. resetAt <= now'
      BY <2>1
    <3>4. MaxOf(resetAt, now' + reset) <= now' + MaxOf(reset + 2, 2)
      BY <2>1, <3>2, <3>3
    <3> QED BY <2>3, <3>4, Zenon DEF HonoursInv
  <2> QED BY <1>2, <2>1, <2>2, <2>3, NamedResets
<1>3. CASE Sleep
  BY <1>3 DEF Sleep, HonoursInv
<1>4. CASE Retry \/ GiveUp
  BY <1>4 DEF Retry, GiveUp, HonoursInv
<1>5. CASE UNCHANGED fetchVars
  BY <1>5 DEF fetchVars, HonoursInv
<1> QED BY <1>1, <1>2, <1>3, <1>4, <1>5 DEF FetchNext

(* No request of a call goes out before a reset time that an answer of the *)
(* call has named in X-RateLimit-Reset, however far in the future.         *)
THEOREM ResetsAreHonoured == FetchSpec => []HonoursReset
<1>1. FetchInit => HonoursInv
  BY DEF FetchInit, HonoursInv
<1>2. FetchTypeInv /\ HonoursInv /\ [FetchNext]_fetchVars => HonoursInv'
  BY HonoursInvStep
<1>3. ASSUME FetchTypeInv, HonoursInv
      PROVE  HonoursReset
  BY <1>3 DEF FetchTypeInv, TimeOK, HonoursInv, HonoursReset
<1>4. FetchTypeInv /\ HonoursInv => HonoursReset
  BY <1>3
<1> QED BY <1>1, <1>2, <1>4, FetchTypeInvariant, PTL DEF FetchSpec

-----------------------------------------------------------------------------
(*                       How long a call may sleep                         *)

(* There is a longest wait only if servers do not name ever longer ones.   *)
HeadersAreBounded == \E bound \in Int : \A wait \in Resets \cup RetryAfters : wait <= bound

LEMMA LongestWaitIsLongest ==
  ASSUME HeadersAreBounded
  PROVE  /\ LongestWait \in Nat
         /\ DefaultWait <= LongestWait /\ MaxBackoff + 1 <= LongestWait
         /\ \A wait \in RetryAfters : wait <= LongestWait
         /\ \A reset \in Resets : MaxOf(reset + 2, 2) <= LongestWait
<1> DEFINE waits == {DefaultWait, MaxBackoff + 1, 2} \cup RetryAfters
                      \cup {reset + 2 : reset \in Resets}
<1>1. DefaultWait \in Nat /\ MaxBackoff \in Nat
  BY FetcherConstants
<1>2. waits \in SUBSET Int /\ waits # {}
  <2> SUFFICES \A wait \in waits : wait \in Int
    OBVIOUS
  <2>1. \A reset \in Resets : reset + 2 \in Int
    BY FetcherConstants
  <2> QED BY <1>1, <2>1, FetcherConstants
<1>3. PICK bound \in Int : \A wait \in Resets \cup RetryAfters : wait <= bound
  BY DEF HeadersAreBounded
<1>4. \E b \in Int : \A wait \in waits : wait <= b
  <2> DEFINE b == MaxOf(MaxOf(bound + 2, 2), MaxOf(DefaultWait, MaxBackoff + 1))
  <2>1. /\ b \in Int /\ bound + 2 <= b /\ 2 <= b /\ DefaultWait <= b /\ MaxBackoff + 1 <= b
    BY <1>1, <1>3 DEF MaxOf
  <2> HIDE DEF b
  <2>2. \A wait \in RetryAfters : wait <= b
    <3> SUFFICES ASSUME NEW wait \in RetryAfters PROVE wait <= b
      OBVIOUS
    <3>1. wait \in Int /\ wait <= bound
      BY <1>3, FetcherConstants
    <3> QED BY <1>3, <2>1, <3>1
  <2>3. \A reset \in Resets : reset + 2 <= b
    <3> SUFFICES ASSUME NEW reset \in Resets PROVE reset + 2 <= b
      OBVIOUS
    <3>1. reset \in Int /\ reset <= bound
      BY <1>3, FetcherConstants
    <3> QED BY <1>3, <2>1, <3>1
  <2> QED BY <2>1, <2>2, <2>3
<1>5. \E w \in waits : \A other \in waits : other <= w
  <2> HIDE DEF waits
  <2> QED BY <1>2, <1>4, GreatestInteger
<1>6. LongestWait \in waits /\ \A other \in waits : other <= LongestWait
  <2>1. LongestWait = CHOOSE w \in waits : \A other \in waits : other <= w
    BY DEF LongestWait
  <2> HIDE DEF waits
  <2> QED BY <1>5, <2>1
<1>7. /\ 2 <= LongestWait /\ DefaultWait <= LongestWait /\ MaxBackoff + 1 <= LongestWait
      /\ \A wait \in RetryAfters : wait <= LongestWait
      /\ \A reset \in Resets : reset + 2 <= LongestWait
  BY <1>6
<1>8. LongestWait \in Int
  <2> HIDE DEF waits
  <2> QED BY <1>2, <1>6
<1>9. \A reset \in Resets : MaxOf(reset + 2, 2) <= LongestWait
  BY <1>7 DEF MaxOf
<1> QED BY <1>7, <1>8, <1>9

LEMMA NoWaitIsLonger ==
  ASSUME HeadersAreBounded,
         NEW reset \in Resets \cup {None}, NEW retry_after \in RetryAfters \cup {None}
  PROVE  _rate_limit_wait(reset, retry_after) <= LongestWait
  BY LongestWaitIsLongest DEF _rate_limit_wait

(* What as many attempts may have slept.                                   *)
Budget(n) == n * LongestWait

LEMMA BudgetGrows ==
  ASSUME HeadersAreBounded, NEW n \in Nat \ {0}
  PROVE  /\ Budget(n) \in Nat /\ Budget(n - 1) \in Nat /\ Budget(0) = 0
         /\ Budget(n) = Budget(n - 1) + LongestWait
<1>1. LongestWait \in Nat
  BY LongestWaitIsLongest
<1>2. \A s \in Nat : /\ n * s \in Nat /\ (n - 1) * s \in Nat /\ 0 * s = 0
                     /\ n * s = (n - 1) * s + s
  OBVIOUS
<1>3. /\ n * LongestWait \in Nat /\ (n - 1) * LongestWait \in Nat /\ 0 * LongestWait = 0
      /\ n * LongestWait = (n - 1) * LongestWait + LongestWait
  BY <1>1, <1>2
<1> QED BY <1>3 DEF Budget

(* Before a request, the attempts that are over have used their share at   *)
(* most, and a sleep under way is within that of its attempt.              *)
SleepInv ==
  /\ pc = "idle" => slept = 0
  /\ pc = "request" => slept <= Budget(attempt - 1)
  /\ pc = "sleep" => slept <= Budget(attempt - 1) /\ wake - now <= LongestWait
  /\ pc \in {"next", "returned"} => slept <= Budget(attempt)

LEMMA SleepInvStep ==
  ASSUME HeadersAreBounded, FetchTypeInv, SleepInv, [FetchNext]_fetchVars
  PROVE  SleepInv'
<1>1. CASE Call
  <2>1. Budget(0) = 0
    BY BudgetGrows
  <2> QED BY <1>1, <2>1 DEF Call, SleepInv
<1>2. CASE Attempt
  <2>1. PICK duration \in Durations, answer \in Definitive \cup Transient :
           /\ pc = "request" /\ Receive(answer, duration)
           /\ \/ answer \in Definitive /\ ReturnsDefinitive(duration)
              \/ /\ answer \in Transient /\ UNCHANGED result
                 /\ \/ pc' = "next" /\ UNCHANGED wake
                    \/ \E wait \in 0 .. MaxBackoff + 1 : pc' = "sleep" /\ wake' = now' + wait
                    \/ \E reset \in Resets \cup {None}, retry_after \in RetryAfters \cup {None} :
                         /\ _rate_limit_wait(reset, retry_after) >= 0
                         /\ pc' = "sleep"
                         /\ wake' = now' + _rate_limit_wait(reset, retry_after)
    BY <1>2, AnswerSteps
  <2>2. /\ UNCHANGED <<attempt, slept>> /\ now' \in Nat /\ slept \in Nat
        /\ attempt \in Nat \ {0}
    BY <1>2, <2>1, AnswerTimes, FetcherConstants DEF FetchTypeInv, TimeOK, ControlOK
  <2>3. /\ LongestWait \in Nat /\ MaxBackoff + 1 <= LongestWait /\ MaxBackoff \in Nat
    BY LongestWaitIsLongest, FetcherConstants
  <2>4. slept <= Budget(attempt - 1) /\ slept <= Budget(attempt)
    BY <2>1, <2>2, <2>3, BudgetGrows DEF SleepInv
  <2>5. ASSUME NEW wait \in Int, wait <= LongestWait, pc' = "sleep", wake' = now' + wait
        PROVE  SleepInv'
    <3>1. \A t \in Nat : (t + wait) - t <= LongestWait
      BY <2>3, <2>5
    <3>2. wake' - now' <= LongestWait
      BY <2>2, <2>5, <3>1, Zenon
    <3> QED BY <2>2, <2>4, <2>5, <3>2 DEF SleepInv
  <2>6. CASE ReturnsDefinitive(duration) \/ pc' = "next"
    <3>1. pc' \in {"returned", "next"}
      BY <2>6 DEF ReturnsDefinitive
    <3> QED BY <2>2, <2>4, <3>1 DEF SleepInv
  <2>7. CASE \E wait \in 0 .. MaxBackoff + 1 : pc' = "sleep" /\ wake' = now' + wait
    <3>1. PICK wait \in 0 .. MaxBackoff + 1 : pc' = "sleep" /\ wake' = now' + wait
      BY <2>7
    <3>2. wait \in Int /\ wait <= LongestWait
      BY <2>3, <3>1
    <3> QED BY <2>5, <3>1, <3>2
  <2>8. CASE \E reset \in Resets \cup {None}, retry_after \in RetryAfters \cup {None} :
               /\ pc' = "sleep"
               /\ wake' = now' + _rate_limit_wait(reset, retry_after)
    BY <2>5, <2>8, HeadersAreNumbers, NoWaitIsLonger
  <2> QED BY <2>1, <2>6, <2>7, <2>8
<1>3. CASE Sleep
  <2>1. /\ pc = "sleep" /\ pc' = "next" /\ attempt' = attempt /\ slept' = slept + (wake - now)
        /\ slept \in Nat /\ wake - now \in Nat /\ attempt \in Nat \ {0}
    BY <1>3, FetcherConstants DEF Sleep, FetchTypeInv, TimeOK, ControlOK
  <2>2. /\ slept <= Budget(attempt - 1) /\ wake - now <= LongestWait /\ LongestWait \in Nat
        /\ Budget(attempt - 1) \in Nat /\ Budget(attempt) = Budget(attempt - 1) + LongestWait
    BY <2>1, BudgetGrows, LongestWaitIsLongest DEF SleepInv
  <2>3. \A a, b, c, d \in Nat : a <= c /\ b <= d => a + b <= c + d
    OBVIOUS
  <2>4. slept + (wake - now) <= Budget(attempt - 1) + LongestWait
    BY <2>1, <2>2, <2>3
  <2>5. slept' <= Budget(attempt)
    BY <2>1, <2>2, <2>4
  <2> QED BY <2>1, <2>5 DEF SleepInv
<1>4. CASE Retry
  <2>1. attempt \in Nat /\ attempt' = attempt + 1
    BY <1>4, FetcherConstants DEF Retry, FetchTypeInv, ControlOK
  <2>2. attempt' - 1 = attempt
    BY <2>1
  <2> QED BY <1>4, <2>2 DEF Retry, SleepInv
<1>5. CASE GiveUp
  BY <1>5 DEF GiveUp, SleepInv
<1>6. CASE UNCHANGED fetchVars
  BY <1>6 DEF fetchVars, SleepInv
<1> QED BY <1>1, <1>2, <1>3, <1>4, <1>5, <1>6 DEF FetchNext

(* However long its requests take, a call sleeps no longer than once after *)
(* each attempt: how long that is, the servers decide, who name the waits. *)
THEOREM SleepsAreBounded ==
  ASSUME HeadersAreBounded
  PROVE  FetchSpec => []SleepIsBounded
<1>1. FetchInit => SleepInv
  BY DEF FetchInit, SleepInv
<1>2. FetchTypeInv /\ SleepInv /\ [FetchNext]_fetchVars => SleepInv'
  BY SleepInvStep
<1>3. ASSUME FetchTypeInv, SleepInv
      PROVE  SleepIsBounded
  <2>1. slept \in Nat /\ attempt \in Nat /\ (attempt = 0 => pc = "idle")
    BY <1>3, FetcherConstants DEF FetchTypeInv, TimeOK, ControlOK
  <2>2. CASE attempt = 0
    <3>1. slept = 0 /\ Budget(attempt) = 0
      BY <1>3, <2>1, <2>2, BudgetGrows DEF SleepInv
    <3> QED BY <3>1 DEF SleepIsBounded, Budget
  <2>3. CASE attempt # 0
    <3>1. /\ Budget(attempt) \in Nat /\ Budget(attempt - 1) \in Nat
          /\ Budget(attempt) = Budget(attempt - 1) + LongestWait
          /\ LongestWait \in Nat
      BY <2>1, <2>3, BudgetGrows, LongestWaitIsLongest
    <3>2. slept <= Budget(attempt) \/ slept <= Budget(attempt - 1) \/ slept = 0
      BY <1>3 DEF SleepInv, FetchTypeInv, ControlOK
    <3>3. slept <= Budget(attempt)
      BY <2>1, <3>1, <3>2
    <3> QED BY <3>3 DEF SleepIsBounded, Budget
  <2> QED BY <2>2, <2>3
<1>4. FetchTypeInv /\ SleepInv => SleepIsBounded
  BY <1>3
<1> QED BY <1>1, <1>2, <1>4, FetchTypeInvariant, PTL DEF FetchSpec
====
