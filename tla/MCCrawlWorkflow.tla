---- MODULE MCCrawlWorkflow ----
(***************************************************************************)
(* A small instance of CrawlWorkflow, with documents of MCRunCrawler.      *)
(***************************************************************************)
EXTENDS CrawlWorkflow, MCRunCrawler

(* Two documents to change between, and one on which the crawl breaks.  A  *)
(* document that is rejected leaves what a failing fetch leaves.           *)
JobContents == {"one", "bare", "poison"}
====
