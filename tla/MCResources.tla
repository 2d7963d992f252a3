---------------------------- MODULE MCResources ----------------------------
(***************************************************************************)
(* An instance of Resources for TLC: a bound and an unbound way to create  *)
(* a crawl under one idempotency key, one without, and their status.       *)
(***************************************************************************)
EXTENDS Resources, TLC

MCOffered == V2CrawlCreate \cup V2CrawlStatus \cup V1Crawl \cup Plain

KeySymmetry == Permutations(Keys) \cup Permutations(Requests)

=============================================================================
