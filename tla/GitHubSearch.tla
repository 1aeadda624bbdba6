---- MODULE GitHubSearch ----
(***************************************************************************)
(* Discovery (crawler/github_search.py): discover() runs the queries one   *)
(* after another, follows each from page to page and yields the results    *)
(* that no earlier query has brought.  It is a lazy generator: between two *)
(* items the caller works for as long as it likes, and the index that the  *)
(* pages are cut from changes meanwhile.  Therefore every answer is an     *)
(* arbitrary page: it may repeat or leave out what another one had.        *)
(***************************************************************************)
EXTENDS Integers, Sequences, FiniteSets

CONSTANTS
  Queries,         \* the number of queries
  HtmlUrls,        \* html_url of the files that a search can find
  Malformed,       \* an item without html_url: KeyError
  NullRepository,  \* an item whose repository is null: AttributeError
  Pages,           \* what a page may list
  MaxPages,        \* bound on the pages that the server names for a query
  MaxResults,      \* _max_results
  Resets,          \* X-RateLimit-Reset, in seconds from the answer
  NoReset,         \* an answer without that header
  RetryAfters,     \* Retry-After of a refusal, in seconds; 0 stands for none
  SearchFaults     \* what else may happen, a subset of {"refused", "exception"}

Items == HtmlUrls \cup {Malformed, NullRepository}

ASSUME QueriesArePositive == Queries \in Nat \ {0}
ASSUME LimitsAreNat == MaxPages \in Nat /\ MaxResults \in Nat
ASSUME PagesListItems == Pages \subseteq Seq(Items)
ASSUME HeadersAreTimes == /\ Resets \subseteq Int /\ NoReset \notin Resets
                          /\ RetryAfters \subseteq Nat
ASSUME ItemsAreDistinct == /\ {Malformed, NullRepository} \cap HtmlUrls = {}
                           /\ Malformed # NullRepository

VARIABLES
  at,          \* where the generator is
  query,       \* the query under way
  page,        \* the items of the last answer,
  pos,         \*   the one to look at next,
  more,        \*   and whether it named a next page
  pages,       \* the number of pages of this query
  collected,   \* collected
  _seen_urls,  \* _seen_urls
  owed,        \* history variable: what is left, when the client goes on, of
               \*   the time that the last answer told it to stay away
  brought,     \* history variable: the number of results of this query's answers
  due          \* history variable: the results of this run within the caps

searchVars == <<at, query, page, pos, more, pages, collected, _seen_urls, owed,
                brought, due>>

SearchInit ==
  /\ at = "done"
  /\ query = Queries
  /\ page = <<>> /\ pos = 1 /\ more = FALSE /\ pages = 0
  /\ collected = 0
  /\ _seen_urls = {}
  /\ owed = 0
  /\ brought = 0 /\ due = {}

(* A new client, and discover() up to its first request.                   *)
Begin ==
  /\ at' = "request"
  /\ query' = 1
  /\ page' = <<>> /\ pos' = 1 /\ more' = FALSE /\ pages' = 0
  /\ collected' = 0
  /\ _seen_urls' = {}
  /\ owed' = 0
  /\ brought' = 0 /\ due' = {}

(* Suffixed with a double underscore: mutants, see Versioning.             *)
EndQuery__ForgetsSeen ==
  /\ IF query < Queries THEN at' = "request" /\ query' = query + 1
                        ELSE at' = "done" /\ UNCHANGED query
  /\ page' = <<>> /\ pos' = 1 /\ more' = FALSE /\ pages' = 0
  /\ collected' = 0 /\ brought' = 0
  /\ _seen_urls' = {}

EndQuery__OneMore ==
  /\ IF query <= Queries THEN at' = "request" /\ query' = query + 1
                         ELSE at' = "done" /\ UNCHANGED query
  /\ page' = <<>> /\ pos' = 1 /\ more' = FALSE /\ pages' = 0
  /\ collected' = 0 /\ brought' = 0
  /\ UNCHANGED _seen_urls

(* The end of a query, whatever ends it: the next one, or the end of all.  *)
EndQuery ==
  /\ IF query < Queries THEN at' = "request" /\ query' = query + 1
                        ELSE at' = "done" /\ UNCHANGED query
  /\ page' = <<>> /\ pos' = 1 /\ more' = FALSE /\ pages' = 0
  /\ collected' = 0 /\ brought' = 0
  /\ UNCHANGED _seen_urls

(* What a page adds to the results of its query, and to those that are due:*)
(* the items that can be converted, up to the cap, and none behind an item *)
(* that raises.                                                            *)
ResultsUpTo(items, k) == Cardinality({j \in 1 .. k : items[j] \in HtmlUrls})

DueFrom(items) ==
  {items[i] : i \in {k \in DOMAIN items :
     /\ items[k] \in HtmlUrls
     /\ \A j \in 1 .. k : items[j] # NullRepository
     /\ brought + ResultsUpTo(items, k) <= MaxResults}}

(* The seconds that _handle_rate_limit sleeps: up to the reset and one     *)
(* more if fewer than 5 requests remain, by default for a minute.  Enough  *)
(* requests, no header and one that is no number are the same to it.       *)
_handle_rate_limit(few, reset) ==
  IF ~few THEN 0
  ELSE IF reset = NoReset THEN 61
  ELSE IF reset + 1 > 1 THEN reset + 1 ELSE 1

(* An answer tells the client to stay away: until the reset if hardly any  *)
(* request remains, and for as long as Retry-After says.                   *)
Limited(retry_after) ==
  \E few \in BOOLEAN, reset \in Resets \cup {NoReset} :
    LET slept == _handle_rate_limit(few, reset)
        named == IF few /\ reset # NoReset /\ reset > retry_after
                 THEN reset ELSE retry_after
    IN  owed' = IF named > slept THEN named - slept ELSE 0

Capped__OneLate == collected > MaxResults

Capped == collected >= MaxResults

-----------------------------------------------------------------------------
(* The head of the loop over pages, and its request.                       *)

Requesting == at = "request" /\ ~Capped

(* Whether the Link header of the n-th answer names a next page.           *)
_extract_next_link(n) == {FALSE} \cup {n < MaxPages}

(* A page, and the wait of _handle_rate_limit before it is read.  Only a   *)
(* refusal has a Retry-After header.                                       *)
Receive ==
  /\ Requesting
  /\ page' \in Pages
  /\ pages' = pages + 1
  /\ more' \in _extract_next_link(pages')
  /\ Limited(0)
  /\ pos' = 1
  /\ brought' = brought + ResultsUpTo(page', Len(page'))
  /\ due' = due \cup DueFrom(page')
  /\ at' = "page"
  /\ UNCHANGED <<query, collected, _seen_urls>>

(* A status other than 200, the rate limits' 403 and 429 included: the     *)
(* query is given up, after the wait.                                      *)
Refused ==
  /\ "refused" \in SearchFaults
  /\ Requesting
  /\ \E retry_after \in RetryAfters \cup {0} : Limited(retry_after)
  /\ EndQuery
  /\ UNCHANGED due

(* The request, or reading its answer, raises; discover() goes on with the *)
(* next query.                                                             *)
RequestRaises ==
  /\ "exception" \in SearchFaults
  /\ Requesting
  /\ EndQuery
  /\ UNCHANGED <<owed, due>>

(* The cap ends a query before a request, and before an item.              *)
CapReached ==
  /\ Capped
  /\ at = "request" \/ (at = "page" /\ pos <= Len(page))
  /\ EndQuery
  /\ UNCHANGED <<owed, due>>

-----------------------------------------------------------------------------
(* The loop over the items of a page.                                      *)

Looking == at = "page" /\ pos <= Len(page) /\ ~Capped

NextItem(n) ==
  /\ pos' = pos + 1
  /\ collected' = collected + n
  /\ UNCHANGED <<query, page, more, pages, owed, brought, due>>

SkipMalformed__EndsQuery ==
  /\ Looking
  /\ page[pos] = Malformed
  /\ EndQuery
  /\ UNCHANGED <<owed, due>>

SkipMalformed ==
  /\ Looking
  /\ page[pos] = Malformed
  /\ NextItem(0)
  /\ UNCHANGED <<at, _seen_urls>>

ItemRaises ==
  /\ Looking
  /\ page[pos] = NullRepository
  /\ EndQuery
  /\ UNCHANGED <<owed, due>>

(* A result of an earlier page or query: it counts for the cap all the     *)
(* same.                                                                   *)
SkipSeen ==
  /\ Looking
  /\ page[pos] \in _seen_urls
  /\ NextItem(1)
  /\ UNCHANGED <<at, _seen_urls>>

Yield(html_url) ==
  /\ Looking
  /\ page[pos] = html_url
  /\ html_url \notin _seen_urls
  /\ _seen_urls' = _seen_urls \cup {html_url}
  /\ NextItem(1)
  /\ at' = "yielded"

(* The caller asks for the next result.                                    *)
Resume ==
  /\ at = "yielded"
  /\ at' = "page"
  /\ UNCHANGED <<query, page, pos, more, pages, collected, _seen_urls, owed, brought, due>>

PageEnds__ReadsItAgain ==
  /\ at = "page" /\ pos > Len(page)
  /\ IF more THEN /\ pos' = 1
                  /\ UNCHANGED <<at, query, page, more, pages, collected, _seen_urls, brought>>
             ELSE EndQuery
  /\ UNCHANGED <<owed, due>>

(* The page is read: on to the page that its Link header names, if any.    *)
PageEnds ==
  /\ at = "page" /\ pos > Len(page)
  /\ IF more THEN /\ at' = "request"
                  /\ UNCHANGED <<query, page, pos, more, pages, collected, _seen_urls, brought>>
             ELSE EndQuery
  /\ UNCHANGED <<owed, due>>

(* What discover() does between two results.                               *)
Advance ==
  \/ Receive \/ Refused \/ RequestRaises \/ CapReached
  \/ SkipMalformed \/ ItemRaises \/ SkipSeen \/ Resume \/ PageEnds

SearchTypeOK ==
  /\ at \in {"request", "page", "yielded", "done"}
  /\ query \in 1 .. Queries
  /\ page \in Seq(Items)
  /\ pos \in Nat \ {0}
  /\ more \in BOOLEAN
  /\ {pages, collected, brought} \subseteq Nat
  /\ _seen_urls \subseteq HtmlUrls
  /\ owed \in Nat
  /\ due \subseteq HtmlUrls

-----------------------------------------------------------------------------
(* The cap holds for what is asked of the crawler, not for what it finds:  *)
(* discover() yields nothing but results within the first MaxResults of a  *)
(* query, counted over all its pages (github_search.py:171, 190).          *)
YieldsOnlyWhatIsDue == _seen_urls \subseteq due

(* "handling pagination and rate limits transparently. Stops when          *)
(* max_results is reached for a query or no more pages exist"              *)
(* (github_search.py:109-111): a query ends only there.                    *)
QueryEnds == at # "done" /\ (query' # query \/ at' = "done")

StopsOnlyWhenExhausted ==
  [][QueryEnds => \/ Capped
                  \/ at = "page" /\ pos > Len(page) /\ ~more]_searchVars

(* "The secondary rate limit (POST 429 with Retry-After) is handled here"  *)
(* (github_search.py:12): after an answer that says for how long to stay   *)
(* away, no request of this query or of the next is sent any sooner.       *)
WaitsOutRefusals == at = "request" => owed = 0
====
