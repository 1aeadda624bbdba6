---- MODULE MCSpecFetcher ----
(***************************************************************************)
(* A small instance of the fetcher: three attempts, requests of no and of  *)
(* some length, moments to come back in the past and in the future.        *)
(***************************************************************************)
EXTENDS SpecFetcher

MCResets      == {-3, 0, 7}
MCRetryAfters == {-1, 0, 5}
====
