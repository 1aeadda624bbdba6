---- MODULE DiscoveredCrawlProofs ----
(***************************************************************************)
(* The crawl that is fed by the code search is one that RunCrawler         *)
(* describes, whatever the queries, pages, caps and failures: what is      *)
(* proved of RunCrawler holds for it.  What the search yields is what its  *)
(* answers owe it, and what a run that ends has crawled is that.           *)
(***************************************************************************)
EXTENDS DiscoveredCrawl, CrawlHistoryProofs

(* What the loop has seen are the raw URLs of what the search has yielded. *)
SeenAgree ==
  /\ _seen_urls \subseteq HtmlUrls
  /\ seen = {to_raw_github_url(u) : u \in _seen_urls}

(* The search forgets nothing and adds nothing on its own.                 *)
LEMMA AdvanceKeepsSeen ==
  ASSUME Advance
  PROVE  UNCHANGED _seen_urls
<1> USE DEF EndQuery, NextItem
<1>1. CASE Receive \/ Refused \/ RequestRaises \/ CapReached
  BY <1>1 DEF Receive, Refused, RequestRaises, CapReached
<1>2. CASE SkipMalformed \/ ItemRaises \/ SkipSeen
  BY <1>2 DEF SkipMalformed, ItemRaises, SkipSeen
<1>3. CASE Resume \/ PageEnds
  BY <1>3 DEF Resume, PageEnds
<1> QED BY <1>1, <1>2, <1>3 DEF Advance

LEMMA SeenAgreeStep ==
  ASSUME SeenAgree, [DiscoveredNext]_discoveredVars
  PROVE  SeenAgree'
<1> USE DEF SeenAgree
<1>1. CASE DiscoveredStart
  BY <1>1 DEF DiscoveredStart, Start, Begin
<1>2. ASSUME NEW u \in HtmlUrls, Yield(u), Discover(to_raw_github_url(u))
      PROVE  SeenAgree'
  BY <1>2 DEF Yield, Discover
<1>3. CASE Searching
  BY <1>3, AdvanceKeepsSeen DEF Searching, vars
<1>4. CASE Crawling
  BY <1>4 DEF Crawling, searchVars, Process, Save, Saved
<1>5. CASE DiscoveredFinish
  BY <1>5 DEF DiscoveredFinish, Finish, searchVars
<1>6. CASE UNCHANGED discoveredVars
  BY <1>6 DEF discoveredVars, vars, searchVars
<1> QED BY <1>1, <1>2, <1>3, <1>4, <1>5, <1>6
     DEF DiscoveredNext, DiscoveredStep, NextResult

(* A step of the composition is a step of the crawl alone: a result that   *)
(* the search has not yielded before has a raw URL that the loop has not   *)
(* seen.                                                                   *)
LEMMA StepImplementsStep ==
  ASSUME SeenAgree, [DiscoveredNext]_discoveredVars
  PROVE  [Next]_vars
<1>1. CASE DiscoveredStart
  BY <1>1 DEF DiscoveredStart, Next
<1>2. ASSUME NEW u \in HtmlUrls, Yield(u), Discover(to_raw_github_url(u))
      PROVE  Next
  <2>1. to_raw_github_url(u) \in Urls
    BY <1>2, RawUrlsAreUrls
  <2>2. to_raw_github_url(u) \notin seen
    BY <1>2, RawUrlsAreDistinct DEF SeenAgree, Yield
  <2> QED BY <1>2, <2>1, <2>2 DEF Next, Step
<1>3. CASE Searching
  BY <1>3 DEF Searching
<1>4. CASE Crawling
  BY <1>4 DEF Crawling, Next, Step
<1>5. CASE DiscoveredFinish
  BY <1>5 DEF DiscoveredFinish, Next, Step
<1>6. CASE UNCHANGED discoveredVars
  BY <1>6 DEF discoveredVars
<1> QED BY <1>1, <1>2, <1>3, <1>4, <1>5, <1>6
     DEF DiscoveredNext, DiscoveredStep, NextResult

(* "callers never process the same file twice even when it appears in      *)
(* multiple queries" (github_search.py:10-11): the composition implements  *)
(* the crawl with freely chosen, distinct URLs.                            *)
THEOREM SearchFeedsTheCrawl == DiscoveredSpec => ImplementsRunCrawler
<1>1. DiscoveredInit => Init /\ SeenAgree
  BY DEF DiscoveredInit, Init, SearchInit, SeenAgree
<1>2. SeenAgree /\ [DiscoveredNext]_discoveredVars => SeenAgree'
  BY SeenAgreeStep
<1>3. SeenAgree /\ [DiscoveredNext]_discoveredVars => [Next]_vars
  BY StepImplementsStep
<1> QED BY <1>1, <1>2, <1>3, PTL DEF DiscoveredSpec, ImplementsRunCrawler, Spec

-----------------------------------------------------------------------------
(*                          Counting results                               *)

LEMMA ResultsAreCounted ==
  ASSUME NEW items, NEW k \in Nat
  PROVE  /\ IsFiniteSet({j \in 1 .. k : items[j] \in HtmlUrls})
         /\ ResultsUpTo(items, k) \in Nat
<1> DEFINE R == {j \in 1 .. k : items[j] \in HtmlUrls}
<1>1. IsFiniteSet(1 .. k)
  BY FS_Interval
<1>2. IsFiniteSet(R)
  BY <1>1, FS_Subset
<1>3. Cardinality(R) \in Nat
  BY <1>2, FS_CardinalityType
<1> QED BY <1>2, <1>3 DEF ResultsUpTo

LEMMA NoResultsYet == \A items : ResultsUpTo(items, 0) = 0
<1> SUFFICES ASSUME NEW items PROVE ResultsUpTo(items, 0) = 0
  OBVIOUS
<1>1. {j \in 1 .. 0 : items[j] \in HtmlUrls} = {}
  OBVIOUS
<1> QED BY <1>1, FS_EmptySet DEF ResultsUpTo

(* One item further.                                                       *)
LEMMA NextResultCounts ==
  ASSUME NEW items, NEW k \in Nat
  PROVE  ResultsUpTo(items, k + 1) =
           IF items[k + 1] \in HtmlUrls THEN ResultsUpTo(items, k) + 1
                                        ELSE ResultsUpTo(items, k)
<1> DEFINE R(n) == {j \in 1 .. n : items[j] \in HtmlUrls}
<1>1. IsFiniteSet(R(k)) /\ k + 1 \notin R(k)
  BY ResultsAreCounted
<1>2. CASE items[k + 1] \in HtmlUrls
  <2>1. R(k + 1) = R(k) \cup {k + 1}
    BY <1>2
  <2>2. Cardinality(R(k + 1)) = Cardinality(R(k)) + 1
    <3> HIDE DEF R
    <3> QED BY <1>1, <2>1, FS_AddElement
  <2> QED BY <1>2, <2>2 DEF ResultsUpTo
<1>3. CASE items[k + 1] \notin HtmlUrls
  <2>1. R(k + 1) = R(k)
    BY <1>3
  <2> QED BY <1>3, <2>1 DEF ResultsUpTo
<1> QED BY <1>2, <1>3

(* The count does not go back.                                             *)
LEMMA ResultsAddUp ==
  ASSUME NEW items, NEW k \in Nat, NEW m \in Nat, k <= m
  PROVE  ResultsUpTo(items, k) <= ResultsUpTo(items, m)
<1> DEFINE R(n) == {j \in 1 .. n : items[j] \in HtmlUrls}
<1>1. IsFiniteSet(R(m))
  BY ResultsAreCounted
<1>2. R(k) \subseteq R(m)
  OBVIOUS
<1>3. Cardinality(R(k)) <= Cardinality(R(m))
  <2> HIDE DEF R
  <2> QED BY <1>1, <1>2, FS_Subset
<1> QED BY <1>3 DEF ResultsUpTo

-----------------------------------------------------------------------------
(*                      What the search has in hand                        *)

LEMMA OwedType ==
  ASSUME NEW retry_after \in RetryAfters \cup {0}, Limited(retry_after)
  PROVE  owed' \in Nat
<1>1. retry_after \in Nat
  BY HeadersAreTimes
<1>2. PICK few \in BOOLEAN, reset \in Resets \cup {NoReset} :
        LET slept == _handle_rate_limit(few, reset)
            named == IF few /\ reset # NoReset /\ reset > retry_after
                     THEN reset ELSE retry_after
        IN  owed' = IF named > slept THEN named - slept ELSE 0
  BY DEF Limited
<1> DEFINE slept == _handle_rate_limit(few, reset)
           named == IF few /\ reset # NoReset /\ reset > retry_after
                    THEN reset ELSE retry_after
<1>3. reset = NoReset \/ reset \in Int
  BY HeadersAreTimes
<1>4. slept \in Nat /\ named \in Int
  BY <1>1, <1>3 DEF _handle_rate_limit
<1>5. owed' = IF named > slept THEN named - slept ELSE 0
  BY <1>2
<1> HIDE DEF slept, named
<1> QED BY <1>4, <1>5

LEMMA SearchTypeInit == SearchInit => SearchTypeOK
<1> SUFFICES ASSUME SearchInit PROVE SearchTypeOK
  OBVIOUS
<1>1. <<>> \in Seq(Items)
  OBVIOUS
<1>2. Queries \in 1 .. Queries
  BY QueriesArePositive
<1>3. {pages, collected, brought} \subseteq Nat
  BY DEF SearchInit
<1>4. more \in BOOLEAN
  BY Zenon DEF SearchInit
<1> QED BY <1>1, <1>2, <1>3, <1>4 DEF SearchInit, SearchTypeOK

LEMMA EndOfQueryTypes ==
  ASSUME SearchTypeOK, EndQuery, owed' \in Nat, UNCHANGED due
  PROVE  SearchTypeOK'
<1>1. <<>> \in Seq(Items)
  OBVIOUS
<1>2. query' \in 1 .. Queries
  BY QueriesArePositive DEF SearchTypeOK, EndQuery
<1>3. more' \in BOOLEAN
  BY Zenon DEF EndQuery
<1> QED BY <1>1, <1>2, <1>3 DEF SearchTypeOK, EndQuery

LEMMA AdvanceTypes ==
  ASSUME SearchTypeOK, Advance
  PROVE  SearchTypeOK'
<1>1. CASE Receive
  <2>1. page' \in Seq(Items) /\ Len(page') \in Nat
    BY <1>1, PagesListItems, LenProperties DEF Receive
  <2>2. ResultsUpTo(page', Len(page')) \in Nat
    BY <2>1, ResultsAreCounted
  <2>3. DueFrom(page') \subseteq HtmlUrls
    BY DEF DueFrom
  <2>4. owed' \in Nat
    BY <1>1, OwedType DEF Receive
  <2>5. more' \in BOOLEAN
    <3>1. more' = FALSE \/ more' = (pages' < MaxPages)
      BY <1>1 DEF Receive, _extract_next_link
    <3>2. (pages' < MaxPages) = TRUE \/ (pages' < MaxPages) = FALSE
      OBVIOUS
    <3> QED BY <3>1, <3>2, Zenon
  <2>6. pages' \in Nat
    BY <1>1 DEF Receive, SearchTypeOK
  <2> QED BY <1>1, <2>1, <2>2, <2>3, <2>4, <2>5, <2>6 DEF Receive, SearchTypeOK
<1>2. CASE Refused
  <2>1. owed' \in Nat
    BY <1>2, OwedType DEF Refused
  <2> QED BY <1>2, <2>1, EndOfQueryTypes DEF Refused
<1>3. CASE RequestRaises \/ CapReached \/ ItemRaises
  BY <1>3, EndOfQueryTypes DEF RequestRaises, CapReached, ItemRaises, SearchTypeOK
<1>4. CASE SkipMalformed \/ SkipSeen
  BY <1>4 DEF SkipMalformed, SkipSeen, NextItem, SearchTypeOK
<1>5. CASE Resume
  BY <1>5 DEF Resume, SearchTypeOK
<1>6. CASE PageEnds
  BY <1>6, EndOfQueryTypes DEF PageEnds, SearchTypeOK
<1> QED BY <1>1, <1>2, <1>3, <1>4, <1>5, <1>6 DEF Advance

LEMMA SearchTypeStep ==
  ASSUME SearchTypeOK, [DiscoveredNext]_discoveredVars
  PROVE  SearchTypeOK'
<1>1. CASE DiscoveredStart
  <2>1. <<>> \in Seq(Items) /\ 1 \in 1 .. Queries
    BY QueriesArePositive
  <2>2. more' \in BOOLEAN
    BY <1>1, Zenon DEF DiscoveredStart, Begin
  <2> QED BY <1>1, <2>1, <2>2 DEF DiscoveredStart, Begin, SearchTypeOK
<1>2. ASSUME NEW u \in HtmlUrls, Yield(u)
      PROVE  SearchTypeOK'
  BY <1>2 DEF Yield, NextItem, SearchTypeOK
<1>3. CASE Searching
  BY <1>3, AdvanceTypes DEF Searching
<1>4. CASE UNCHANGED searchVars
  BY <1>4 DEF searchVars, SearchTypeOK
<1> QED BY <1>1, <1>2, <1>3, <1>4
     DEF DiscoveredNext, DiscoveredStep, NextResult, Crawling, DiscoveredFinish,
         discoveredVars

LEMMA SearchTypeInvariant == DiscoveredSpec => []SearchTypeOK
<1>1. DiscoveredInit => SearchTypeOK
  BY SearchTypeInit DEF DiscoveredInit
<1>2. SearchTypeOK /\ [DiscoveredNext]_discoveredVars => SearchTypeOK'
  BY SearchTypeStep
<1> QED BY <1>1, <1>2, PTL DEF DiscoveredSpec

(* Both halves keep their types.                                           *)
THEOREM DiscoveredTypeCorrect == DiscoveredSpec => []DiscoveredTypeOK
<1>1. DiscoveredSpec => Spec
  BY SearchFeedsTheCrawl DEF ImplementsRunCrawler
<1>2. TypeOK /\ SearchTypeOK => DiscoveredTypeOK
  BY DEF DiscoveredTypeOK
<1> QED BY <1>1, <1>2, TypeCorrect, SearchTypeInvariant, PTL

-----------------------------------------------------------------------------
(*                 What is yielded is what the answers owe                 *)

(* The results of the page at hand that are within the cap: the page is    *)
(* counted in brought, so what came before it is brought less its results. *)
WithinCap(i) ==
  /\ page[i] \in HtmlUrls
  /\ \A j \in 1 .. i : page[j] # NullRepository
  /\ brought + ResultsUpTo(page, i) <= MaxResults + ResultsUpTo(page, Len(page))

(* Up to the next item, every result has been counted and none has raised; *)
(* and what is due has been yielded or is still to come on the page.       *)
PageInv ==
  /\ at = "request" => collected = brought
  /\ at \in {"page", "yielded"} =>
       /\ pos <= Len(page) + 1
       /\ \A j \in 1 .. pos - 1 : page[j] # NullRepository
       /\ collected + ResultsUpTo(page, Len(page)) = brought + ResultsUpTo(page, pos - 1)
       /\ \A i \in 1 .. Len(page) : WithinCap(i) => page[i] \in due

DueInv ==
  \A u \in due : \/ u \in _seen_urls
                 \/ /\ at \in {"page", "yielded"}
                    /\ \E i \in pos .. Len(page) : page[i] = u /\ WithinCap(i)

SearchInv == SearchTypeOK /\ PageInv /\ DueInv /\ YieldsOnlyWhatIsDue

(* At the cap, nothing on the rest of the page is due.                     *)
LEMMA NothingBehindTheCap ==
  ASSUME SearchTypeOK, PageInv, at = "page", Capped, NEW i \in pos .. Len(page)
  PROVE  ~WithinCap(i)
<1> SUFFICES ASSUME WithinCap(i) PROVE FALSE
  OBVIOUS
<1> DEFINE R(k) == ResultsUpTo(page, k)
<1>1. /\ pos \in Nat \ {0} /\ page \in Seq(Items) /\ Len(page) \in Nat
      /\ collected \in Nat /\ brought \in Nat
  BY LenProperties DEF SearchTypeOK
<1>2. i \in Nat /\ i - 1 \in Nat /\ pos - 1 \in Nat /\ pos - 1 <= i - 1
  BY <1>1
<1>3. R(i) = R(i - 1) + 1
  <2>1. i - 1 + 1 = i
    BY <1>2
  <2> QED BY <1>2, <2>1, NextResultCounts DEF WithinCap
<1>4. R(pos - 1) <= R(i - 1)
  BY <1>2, ResultsAddUp
<1>5. R(i) \in Nat /\ R(i - 1) \in Nat /\ R(pos - 1) \in Nat /\ R(Len(page)) \in Nat
  BY <1>1, <1>2, ResultsAreCounted
<1>6. brought + R(i) <= MaxResults + R(Len(page))
  BY DEF WithinCap
<1>7. collected + R(Len(page)) = brought + R(pos - 1)
  BY DEF PageInv
<1> HIDE DEF R
<1> QED BY <1>1, <1>3, <1>4, <1>5, <1>6, <1>7, LimitsAreNat DEF Capped

(* When a query ends, its results have been yielded.                       *)
LEMMA EndOfQueryOwesNothing ==
  ASSUME SearchInv, EndQuery, UNCHANGED due, SearchTypeOK',
         \/ at = "request"
         \/ at = "page" /\ \A i \in pos .. Len(page) : ~WithinCap(i)
  PROVE  SearchInv'
<1>1. due' \subseteq _seen_urls'
  BY DEF SearchInv, DueInv, EndQuery
<1>2. at' \in {"request", "done"} /\ collected' = 0 /\ brought' = 0
      /\ UNCHANGED _seen_urls
  BY DEF EndQuery
<1> QED BY <1>1, <1>2 DEF SearchInv, PageInv, DueInv, YieldsOnlyWhatIsDue

(* The next item is looked at, and counted if it is a result.              *)
LEMMA NextItemKeepsCount ==
  ASSUME SearchInv, Looking, NEW n \in {0, 1}, NextItem(n), SearchTypeOK',
         at' \in {"page", "yielded"},
         page[pos] # NullRepository,
         n = IF page[pos] \in HtmlUrls THEN 1 ELSE 0,
         page[pos] \in HtmlUrls => page[pos] \in _seen_urls',
         _seen_urls \subseteq _seen_urls'
  PROVE  PageInv' /\ DueInv'
<1>1. /\ pos \in Nat \ {0} /\ page \in Seq(Items) /\ Len(page) \in Nat
      /\ collected \in Nat /\ brought \in Nat /\ pos <= Len(page) /\ at = "page"
  BY LenProperties DEF SearchInv, SearchTypeOK, Looking
<1>2. pos - 1 \in Nat /\ pos - 1 + 1 = pos /\ pos' = pos + 1 /\ pos' - 1 = pos
      /\ collected' = collected + n /\ UNCHANGED <<page, brought, due>>
  BY <1>1 DEF NextItem
<1>3. ResultsUpTo(page, pos) = ResultsUpTo(page, pos - 1) + n
  <2>1. ResultsUpTo(page, pos - 1) \in Nat
    BY <1>2, ResultsAreCounted
  <2> QED BY <1>2, <2>1, NextResultCounts
<1>4. \A k \in Nat : ResultsUpTo(page, k)' = ResultsUpTo(page, k)
  BY <1>2
<1>5. \A i : WithinCap(i)' <=> WithinCap(i)
  BY <1>2 DEF WithinCap
<1>6. PageInv'
  <2>1. \A j \in 1 .. pos' - 1 : page'[j] # NullRepository
    <3>1. \A j \in 1 .. pos - 1 : page[j] # NullRepository
      BY <1>1 DEF SearchInv, PageInv
    <3> QED BY <1>1, <1>2, <3>1
  <2>2. collected + ResultsUpTo(page, Len(page)) = brought + ResultsUpTo(page, pos - 1)
    BY <1>1 DEF SearchInv, PageInv
  <2>3. /\ ResultsUpTo(page, Len(page)) \in Nat /\ ResultsUpTo(page, pos - 1) \in Nat
        /\ ResultsUpTo(page, pos) \in Nat
    BY <1>1, <1>2, ResultsAreCounted
  <2>4. collected' + ResultsUpTo(page, Len(page)) = brought + ResultsUpTo(page, pos)
    BY <1>1, <1>2, <1>3, <2>2, <2>3
  <2>5. \A i \in 1 .. Len(page) : WithinCap(i) => page[i] \in due
    BY <1>1 DEF SearchInv, PageInv
  <2> QED BY <1>1, <1>2, <1>5, <2>1, <2>4, <2>5 DEF PageInv
<1>7. DueInv'
  <2> SUFFICES ASSUME NEW u \in due, u \notin _seen_urls'
               PROVE  \E i \in pos' .. Len(page) : page[i] = u /\ WithinCap(i)
    BY <1>2, <1>5 DEF DueInv
  <2>1. PICK i \in pos .. Len(page) : page[i] = u /\ WithinCap(i)
    BY DEF SearchInv, DueInv
  <2>2. i # pos
    BY <2>1 DEF WithinCap
  <2>3. i \in pos' .. Len(page)
    BY <1>1, <1>2, <2>2
  <2> QED BY <2>1, <2>3
<1> QED BY <1>6, <1>7

LEMMA AdvanceKeepsDue ==
  ASSUME SearchInv, Advance, SearchTypeOK'
  PROVE  SearchInv'
<1>1. CASE Receive
  <2>1. /\ page' \in Seq(Items) /\ Len(page') \in Nat /\ DOMAIN page' = 1 .. Len(page')
        /\ brought \in Nat /\ collected = brought
    BY <1>1, LenProperties DEF SearchInv, SearchTypeOK, PageInv, Receive, Requesting
  <2>2. /\ pos' = 1 /\ at' = "page" /\ UNCHANGED <<collected, _seen_urls>>
        /\ brought' = brought + ResultsUpTo(page', Len(page'))
        /\ due' = due \cup DueFrom(page')
    BY <1>1 DEF Receive
  <2>3. ASSUME NEW i \in 1 .. Len(page')
        PROVE  WithinCap(i)' <=> /\ page'[i] \in HtmlUrls
                                 /\ \A j \in 1 .. i : page'[j] # NullRepository
                                 /\ brought + ResultsUpTo(page', i) <= MaxResults
    <3>1. ResultsUpTo(page', i) \in Nat /\ ResultsUpTo(page', Len(page')) \in Nat
      <4>1. i \in Nat
        BY <2>1
      <4> QED BY <2>1, <4>1, ResultsAreCounted
    <3>2. brought' + ResultsUpTo(page', i) <= MaxResults + ResultsUpTo(page', Len(page'))
            <=> brought + ResultsUpTo(page', i) <= MaxResults
      BY <2>1, <2>2, <3>1, LimitsAreNat
    <3> QED BY <3>2 DEF WithinCap
  <2>4. \A u : u \in DueFrom(page') <=> \E i \in 1 .. Len(page') : page'[i] = u /\ WithinCap(i)'
    BY <2>1, <2>3 DEF DueFrom
  <2>5. ResultsUpTo(page', pos' - 1) = 0
    <3>1. pos' - 1 = 0
      BY <2>2
    <3> QED BY <3>1, NoResultsYet
  <2>6. PageInv'
    BY <2>1, <2>2, <2>4, <2>5 DEF PageInv
  <2>7. \A u \in due : u \in _seen_urls
    BY <1>1 DEF SearchInv, DueInv, Receive, Requesting
  <2>8. DueInv'
    BY <2>2, <2>4, <2>7 DEF DueInv
  <2> QED BY <2>2, <2>6, <2>8 DEF SearchInv, YieldsOnlyWhatIsDue
<1>2. CASE Refused \/ RequestRaises
  BY <1>2, EndOfQueryOwesNothing DEF Refused, RequestRaises, Requesting
<1>3. CASE CapReached
  <2>1. \/ at = "request"
        \/ at = "page" /\ \A i \in pos .. Len(page) : ~WithinCap(i)
    BY <1>3, NothingBehindTheCap DEF CapReached, SearchInv
  <2> QED BY <1>3, <2>1, EndOfQueryOwesNothing DEF CapReached
<1>4. CASE SkipMalformed
  <2>1. page[pos] \notin HtmlUrls /\ page[pos] # NullRepository
    BY <1>4, ItemsAreDistinct DEF SkipMalformed
  <2>2. PageInv' /\ DueInv'
    BY <1>4, <2>1, NextItemKeepsCount DEF SkipMalformed, Looking
  <2> QED BY <1>4, <2>2 DEF SkipMalformed, NextItem, SearchInv, YieldsOnlyWhatIsDue
<1>5. CASE ItemRaises
  <2>1. \A i \in pos .. Len(page) : ~WithinCap(i)
    BY <1>5 DEF ItemRaises, WithinCap, SearchInv, SearchTypeOK
  <2> QED BY <1>5, <2>1, EndOfQueryOwesNothing DEF ItemRaises, Looking
<1>6. CASE SkipSeen
  <2>1. page[pos] \in HtmlUrls /\ page[pos] # NullRepository
    BY <1>6, ItemsAreDistinct DEF SkipSeen, SearchInv, SearchTypeOK
  <2>2. PageInv' /\ DueInv'
    BY <1>6, <2>1, NextItemKeepsCount DEF SkipSeen, Looking
  <2> QED BY <1>6, <2>2 DEF SkipSeen, NextItem, SearchInv, YieldsOnlyWhatIsDue
<1>7. CASE Resume
  BY <1>7 DEF Resume, SearchInv, PageInv, DueInv, YieldsOnlyWhatIsDue, WithinCap
<1>8. CASE PageEnds
  <2>1. at = "page" /\ pos > Len(page) /\ UNCHANGED due
    BY <1>8 DEF PageEnds
  <2>2. page \in Seq(Items) /\ Len(page) \in Nat /\ pos \in Nat \ {0}
        /\ collected \in Nat /\ brought \in Nat
    BY LenProperties DEF SearchInv, SearchTypeOK
  <2>3. CASE EndQuery
    BY <2>1, <2>2, <2>3, EndOfQueryOwesNothing
  <2>4. CASE at' = "request" /\ UNCHANGED <<collected, _seen_urls, brought>>
    <3>1. pos - 1 = Len(page)
      BY <2>1, <2>2 DEF SearchInv, PageInv
    <3>2. ResultsUpTo(page, Len(page)) \in Nat
      BY <2>2, ResultsAreCounted
    <3>3. collected + ResultsUpTo(page, Len(page)) = brought + ResultsUpTo(page, Len(page))
      BY <2>1, <3>1 DEF SearchInv, PageInv
    <3>4. collected = brought
      BY <2>2, <3>2, <3>3
    <3>5. \A u \in due : u \in _seen_urls
      BY <2>1, <2>2 DEF SearchInv, DueInv
    <3> QED BY <2>1, <2>4, <3>4, <3>5 DEF SearchInv, PageInv, DueInv, YieldsOnlyWhatIsDue
  <2> QED BY <1>8, <2>3, <2>4 DEF PageEnds
<1> QED BY <1>1, <1>2, <1>3, <1>4, <1>5, <1>6, <1>7, <1>8 DEF Advance

LEMMA YieldKeepsDue ==
  ASSUME SearchInv, NEW u \in HtmlUrls, Yield(u), SearchTypeOK'
  PROVE  SearchInv'
<1> DEFINE R(k) == ResultsUpTo(page, k)
<1>1. /\ Looking /\ page[pos] = u /\ NextItem(1) /\ at' = "yielded"
      /\ _seen_urls' = _seen_urls \cup {u}
  BY DEF Yield
<1>2. u # NullRepository
  BY ItemsAreDistinct
<1>3. PageInv' /\ DueInv'
  BY <1>1, <1>2, NextItemKeepsCount
<1>4. /\ pos \in Nat \ {0} /\ page \in Seq(Items) /\ Len(page) \in Nat
      /\ collected \in Nat /\ brought \in Nat /\ pos <= Len(page) /\ at = "page"
      /\ collected < MaxResults
  BY <1>1, LenProperties, LimitsAreNat DEF SearchInv, SearchTypeOK, Looking, Capped
<1>5. /\ collected + R(Len(page)) = brought + R(pos - 1)
      /\ \A j \in 1 .. pos - 1 : page[j] # NullRepository
      /\ \A i \in 1 .. Len(page) : WithinCap(i) => page[i] \in due
  BY <1>4 DEF SearchInv, PageInv
<1>6. R(pos) = R(pos - 1) + 1
  <2>1. pos - 1 \in Nat /\ pos - 1 + 1 = pos
    BY <1>4
  <2> QED BY <1>1, <2>1, NextResultCounts
<1>7. R(pos - 1) \in Nat /\ R(pos) \in Nat /\ R(Len(page)) \in Nat
  <2>1. pos - 1 \in Nat
    BY <1>4
  <2> QED BY <1>4, <2>1, ResultsAreCounted
<1>8. brought + R(pos) <= MaxResults + R(Len(page))
  <2> HIDE DEF R
  <2> QED BY <1>4, <1>5, <1>6, <1>7, LimitsAreNat
<1>9. \A j \in 1 .. pos : page[j] # NullRepository
  BY <1>1, <1>2, <1>4, <1>5
<1>10. WithinCap(pos)
  BY <1>1, <1>8, <1>9 DEF WithinCap
<1>11. u \in due
  BY <1>1, <1>4, <1>5, <1>10
<1> QED BY <1>1, <1>3, <1>11 DEF SearchInv, YieldsOnlyWhatIsDue, NextItem

LEMMA SearchInvariant == DiscoveredSpec => []SearchInv
<1>1. DiscoveredInit => SearchInv
  BY SearchTypeInit DEF DiscoveredInit, SearchInit, SearchInv, PageInv, DueInv,
     YieldsOnlyWhatIsDue
<1>2. ASSUME SearchInv, SearchTypeOK', [DiscoveredNext]_discoveredVars
      PROVE  SearchInv'
  <2>1. CASE DiscoveredStart
    BY <1>2, <2>1 DEF DiscoveredStart, Begin, SearchInv, PageInv, DueInv,
       YieldsOnlyWhatIsDue
  <2>2. CASE \E u \in HtmlUrls : Yield(u)
    BY <1>2, <2>2, YieldKeepsDue
  <2>3. CASE Advance
    BY <1>2, <2>3, AdvanceKeepsDue
  <2>4. CASE UNCHANGED searchVars
    BY <1>2, <2>4 DEF searchVars, SearchInv, PageInv, DueInv, YieldsOnlyWhatIsDue, WithinCap
  <2> QED BY <1>2, <2>1, <2>2, <2>3, <2>4
          DEF DiscoveredNext, DiscoveredStep, NextResult, Searching, Crawling,
              DiscoveredFinish, discoveredVars
<1>3. SearchInv /\ SearchTypeOK' /\ [DiscoveredNext]_discoveredVars => SearchInv'
  BY <1>2
<1> QED BY <1>1, <1>3, SearchTypeInvariant, PTL DEF DiscoveredSpec

(* Nothing is yielded but results within the first MaxResults of a query,  *)
(* on any sequence of pages.                                               *)
THEOREM YieldsAreDue == DiscoveredSpec => []YieldsOnlyWhatIsDue
<1>1. SearchInv => YieldsOnlyWhatIsDue
  BY DEF SearchInv
<1> QED BY <1>1, SearchInvariant, PTL

-----------------------------------------------------------------------------
(*                  What is yielded is crawled and saved                   *)

CrawledIn(catalog, url) ==
  /\ catalog[MakeSpecId[url]] # None
  /\ catalog[MakeSpecId[url]].fetched_at = clock

(* Of the URLs of this run, all but the one in process have an entry of    *)
(* this run in the file, and all but the one that is being fetched have    *)
(* one in memory.                                                          *)
CrawledInv ==
  /\ pc # "dead" => \A url \in seen :
       (pc \in InProcess /\ url = current) \/ CrawledIn(catalogFile, url)
  /\ Running => \A url \in seen :
       (pc = "fetch" /\ url = current) \/ CrawledIn(entries, url)

LEMMA CrawledInvStep ==
  ASSUME NoUnsolicited304, TypeInv, SavingInv, CrawledInv, Start \/ Step
  PROVE  CrawledInv'
<1> USE DEF Goto
<1>1. CASE Start
  BY <1>1 DEF Start, CrawledInv
<1>2. CASE \E url \in Urls : Discover(url)
  BY <1>2 DEF Discover, storeVars, CrawledInv, CrawledIn, InProcess, Running
<1>3. CASE Process /\ pc = "fetch"
  <2>1. CASE Died
    BY <2>1 DEF Died, CrawledInv, Running
  <2>2. CASE Rewritten
    <3>1. PICK e \in CatalogEntry : /\ Replaces(e)
                                    /\ Failed(existing, e) \/ Accepted(existing, e)
                                    /\ PendingFor(e)
      BY <2>2 DEF Rewritten
    <3>2. e # None /\ e.fetched_at = clock
      <4>1. CASE Failed(existing, e)
        <5>1. CASE existing = None
          BY <4>1, <5>1, NoneIsNoRecord DEF Failed
        <5>2. CASE existing # None
          <6>1. existing \in CatalogEntry
            BY <1>3, <5>2, ExistingType
          <6>2. e = [existing EXCEPT !.status = "error", !.fetched_at = clock]
            BY <4>1, <5>2 DEF Failed
          <6> QED BY <6>1, <6>2, NoneIsNoRecord DEF CatalogEntry
        <5> QED BY <5>1, <5>2
      <4>2. CASE Accepted(existing, e)
        BY <4>2, NoneIsNoRecord DEF Accepted, IsNew, IsUpdated, IsUnchanged
      <4> QED BY <3>1, <4>1, <4>2
    <3>3. /\ entries'[spec_id] = e
          /\ \A id \in SpecIds : id # spec_id => entries'[id] = entries[id]
          /\ UNCHANGED <<catalogFile, current, clock, seen>>
          /\ pc' \in {"append", "save"}
      BY <3>1 DEF Replaces, PendingFor
    <3>4. \A url \in seen : MakeSpecId[url] \in SpecIds
      BY UtilsAreFunctions DEF TypeInv, TypeOK
    <3>5. ASSUME NEW url \in seen
          PROVE  CrawledIn(entries, url)'
      <4>1. CASE MakeSpecId[url] = spec_id
        BY <3>2, <3>3, <4>1 DEF CrawledIn
      <4>2. CASE MakeSpecId[url] # spec_id
        <5>1. CrawledIn(entries, url)
          BY <1>3, <4>2 DEF CrawledInv, Running, spec_id
        <5> QED BY <3>3, <3>4, <4>2, <5>1 DEF CrawledIn
      <4> QED BY <4>1, <4>2
    <3> QED BY <1>3, <3>3, <3>5 DEF CrawledInv, CrawledIn, InProcess
  <2> QED BY <1>3, <2>1, <2>2, FetchStep
<1>4. CASE AppendHistory \/ HistoryAppended \/ Save
  <2>1. UNCHANGED seen
    BY <1>4 DEF AppendHistory, HistoryAppended, Save, Step, Process, Start, Saved, Finish,
       Discover, Goto
  <2>2. pc \in {"append", "appending", "save"}
    BY <1>4 DEF AppendHistory, HistoryAppended, Save
  <2> QED BY <1>4, <2>1, <2>2, BetweenFetchAndSave DEF CrawledInv, CrawledIn, InProcess
<1>5. CASE Saved
  BY <1>5 DEF Saved, Store!ReplaceCatalog, SavingInv, CrawledInv, CrawledIn, InProcess,
     Running
<1>6. CASE Finish
  BY <1>6 DEF Finish, Store!ProcessEnds, Store!diskVars, CrawledInv, CrawledIn, InProcess,
     Running
<1>7. Process => pc = "fetch" \/ AppendHistory \/ HistoryAppended
  BY DEF Process, process, FetchFails, FetchNotModified, ParseRaises, ParseRejects,
     ParseAccepts
<1> QED BY <1>1, <1>2, <1>3, <1>4, <1>5, <1>6, <1>7 DEF Step

(* The loop ends when the search does.                                     *)
FinishedTogether == pc = "exited" => at = "done"

LEMMA DiscoveredStepIsStep ==
  ASSUME SeenAgree, [DiscoveredNext]_discoveredVars
  PROVE  Start \/ Step \/ UNCHANGED vars
<1>1. ASSUME NEW u \in HtmlUrls, Yield(u), Discover(to_raw_github_url(u))
      PROVE  Step
  <2>1. to_raw_github_url(u) \in Urls
    BY RawUrlsAreUrls
  <2>2. to_raw_github_url(u) \notin seen
    BY <1>1, RawUrlsAreDistinct DEF SeenAgree, Yield
  <2> QED BY <1>1, <2>1, <2>2 DEF Step
<1> QED BY <1>1 DEF DiscoveredNext, DiscoveredStep, DiscoveredStart, NextResult, Searching,
        Crawling, DiscoveredFinish, Step, discoveredVars

(* Every run that ends has crawled what its answers owe it, and nothing    *)
(* else, and the saved catalog says so of each.                            *)
THEOREM ResultsAreCrawled ==
  ASSUME NoUnsolicited304
  PROVE  DiscoveredSpec => []EveryResultIsCrawled
<1>1. DiscoveredInit => SeenAgree /\ CrawledInv /\ FinishedTogether
  BY DEF DiscoveredInit, Init, SearchInit, SeenAgree, CrawledInv, FinishedTogether, Running
<1>2. SeenAgree /\ [DiscoveredNext]_discoveredVars => SeenAgree'
  BY SeenAgreeStep
<1>3. ASSUME TypeInv, SavingInv, SeenAgree, CrawledInv, [DiscoveredNext]_discoveredVars
      PROVE  CrawledInv'
  <2>1. CASE UNCHANGED vars
    BY <1>3, <2>1 DEF vars, CrawledInv, CrawledIn, Running
  <2> QED BY <1>3, <2>1, DiscoveredStepIsStep, CrawledInvStep
<1>4. ASSUME FinishedTogether, [DiscoveredNext]_discoveredVars
      PROVE  FinishedTogether'
  <2> USE DEF Goto, FinishedTogether
  <2>1. CASE DiscoveredStart \/ NextResult
    BY <2>1 DEF DiscoveredStart, Start, NextResult, Discover
  <2>2. CASE Searching
    BY <2>2 DEF Searching, vars
  <2>3. CASE Crawling
    BY <2>3 DEF Crawling, Process, process, FetchFails, FetchNotModified, ParseRaises,
       ParseRejects, ParseAccepts, AppendHistory, HistoryAppended, Save, Saved
  <2>4. CASE DiscoveredFinish
    BY <2>4 DEF DiscoveredFinish, searchVars
  <2>5. CASE UNCHANGED discoveredVars
    BY <1>4, <2>5 DEF discoveredVars, vars, searchVars
  <2> QED BY <1>4, <2>1, <2>2, <2>3, <2>4, <2>5 DEF DiscoveredNext, DiscoveredStep
<1>5. ASSUME SearchInv, SeenAgree, CrawledInv, FinishedTogether
      PROVE  EveryResultIsCrawled
  <2> SUFFICES ASSUME pc = "exited"
               PROVE  /\ seen = {to_raw_github_url(u) : u \in due}
                      /\ \A url \in seen : CrawledNow(url)
    BY DEF EveryResultIsCrawled
  <2>1. _seen_urls = due
    BY <1>5 DEF FinishedTogether, SearchInv, DueInv, YieldsOnlyWhatIsDue
  <2>2. \A url \in seen : CrawledIn(catalogFile, url)
    BY <1>5 DEF CrawledInv, InProcess
  <2> QED BY <1>5, <2>1, <2>2 DEF SeenAgree, CrawledNow, CrawledIn
<1>6. DiscoveredSpec => []TypeInv /\ []SavingInv
  BY SearchFeedsTheCrawl, TypeInvariant, SavingInvariant, PTL DEF ImplementsRunCrawler
<1>7. /\ TypeInv /\ SavingInv /\ SeenAgree /\ CrawledInv /\ [DiscoveredNext]_discoveredVars
           => CrawledInv'
      /\ FinishedTogether /\ [DiscoveredNext]_discoveredVars => FinishedTogether'
      /\ SearchInv /\ SeenAgree /\ CrawledInv /\ FinishedTogether => EveryResultIsCrawled
  BY <1>3, <1>4, <1>5
<1> QED BY <1>1, <1>2, <1>6, <1>7, SearchInvariant, PTL DEF DiscoveredSpec

(* The histories that the searched crawl leaves: no record repeats the one *)
(* before it, and the newest is the content of the entry.                  *)
COROLLARY SearchedHistories ==
  ASSUME NothingGoesWrong, DigestsAreDistinct
  PROVE  DiscoveredSpec => [](NoDuplicateRecords /\ HistoryEndsAtCatalog)
<1>1. DiscoveredSpec => Spec
  BY SearchFeedsTheCrawl DEF ImplementsRunCrawler
<1>2. Spec => []NoDuplicateRecords
  BY HistoriesDoNotRepeat
<1>3. Spec => []HistoryEndsAtCatalog
  BY HistoriesEndAtCatalog
<1> QED BY <1>1, <1>2, <1>3, PTL
====
