------------------------------ MODULE MCFetcher ------------------------------
(* Fetcher on a small web: chains of two redirects and a loop, over a limit of  *)
(* two.                                                                         *)
EXTENDS Fetcher

CONSTANTS home, moved, far, v1, v2

Doc(v) == [kind |-> "doc", version |-> v]
To(u, permanent) == [kind |-> "redirect", permanent |-> permanent, to |-> u]
MCAnswers ==
  [u \in Urls |->
    CASE u = home -> {Doc(v1), To(moved, TRUE), To(moved, FALSE)}
      [] u = moved -> {Doc(v2), To(far, TRUE), To(far, FALSE), [kind |-> "page"]}
      [] u = far -> {Doc(v2), To(home, TRUE), [kind |-> "error"]}]
=============================================================================
