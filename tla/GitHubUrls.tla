---- MODULE GitHubUrls ----
(***************************************************************************)
(* The URL conversion of crawler/utils.py.  A URL is a record: the site it *)
(* is on ("github", "raw" or another), the repository, the view of it (the *)
(* word between repository and revision) and the rest, revision and path.  *)
(***************************************************************************)
CONSTANTS Sites, Repositories, Views, Rests

Url == [site : Sites, repository : Repositories, view : Views, rest : Rests]

(* A blob page becomes the raw file; any other URL stays as it is.         *)
to_raw_github_url(html_url) ==
  IF html_url.site = "github" /\ html_url.view = "blob"
  THEN [html_url EXCEPT !.site = "raw", !.view = "none"]
  ELSE html_url
====
