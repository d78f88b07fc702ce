----------------------------- MODULE Pagination -----------------------------
(***************************************************************************)
(* Following the pages of a JSON API, src/sdetkit/netclient.py:            *)
(* get_json_list_paginated (by Link header, the same in the sync and the   *)
(* async client) and the two get_json_list_paginated_envelope, which       *)
(* differ.  Each walks the same site.                                      *)
(*                                                                         *)
(* A URL is a page and the form it is written in: the code compares URLs   *)
(* as strings, and a page is reached by its relative and its absolute one. *)
(***************************************************************************)
EXTENDS Naturals, Sequences, SequencesExt

CONSTANTS Page,
          Start,    \* the page of the caller's URL
          Root,     \* the page at the client's base_url
          Walker,   \* subset of {"link", "envelope", "async_envelope"}
          MaxPages  \* bound: values of max_pages

ConstantsOK ==
  /\ Start \in Page /\ Root \in Page
  /\ Walker \subseteq {"link", "envelope", "async_envelope"}
  /\ MaxPages \in Nat \ {0}

VARIABLES link,      \* the site: what each page says comes next
          malformed, \* pages whose body has not the shape the walker expects
          form,      \* how the caller and the site write URLs
          max_pages,
          cur,       \* per walker, the URL to fetch next
          seen,
          out,       \* per walker, the pages whose items it has
          result     \* per walker: walking, returned or what was raised

site == <<link, malformed, form, max_pages>>
vars == <<site, cur, seen, out, result>>

NoLink == "null"  \* no Link header, or null
Blank == "blank"  \* an empty URL
NotString == "number"

NoNext == <<NoLink, "end">>
BadNext == <<NotString, "end">>

Links == Page \cup {NoLink, Blank, NotString}

URL == Page \X {"relative", "absolute"}

Init ==
  /\ link \in [Page -> Links]
  /\ malformed \in SUBSET Page
  /\ form \in {"relative", "absolute"}
  /\ max_pages \in 1..MaxPages
  /\ cur = [w \in Walker |-> <<Start, form>>]
  /\ seen = [w \in Walker |-> {<<Start, form>>}]
  /\ out = [w \in Walker |-> <<>>]
  /\ result = [w \in Walker |-> "walking"]

(* Where a page leads: a URL, NoNext to stop, BadNext to raise.            *)
(* _link_next_url: always a string, and always joined to the page's URL.   *)
LinkNext(p) ==
  CASE link[p] \in Page -> <<link[p], "absolute">>
    [] link[p] = Blank -> <<p, "absolute">>
    [] OTHER -> NoNext

(* The sync envelope stops at an empty URL and joins the others.           *)
EnvelopeNext(p) ==
  CASE link[p] \in Page -> <<link[p], "absolute">>
    [] link[p] = NotString -> BadNext
    [] OTHER -> NoNext

(* The async envelope takes the URL as it is, an empty one being base_url. *)
AsyncEnvelopeNext(p) ==
  CASE link[p] \in Page -> <<link[p], form>>
    [] link[p] = Blank -> <<Root, "blank">>
    [] OTHER -> <<link[p], "end">>

NextOf(w, p) ==
  CASE w = "link" -> LinkNext(p)
    [] w = "envelope" -> EnvelopeNext(p)
    [] w = "async_envelope" -> AsyncEnvelopeNext(p)

Finish(w, how) == result' = [result EXCEPT ![w] = how]

(* The request fails, or the page has not the expected shape: what was     *)
(* collected is lost.                                                      *)
FetchFails(w) ==
  /\ result[w] = "walking"
  /\ Finish(w, "failed")
  /\ UNCHANGED <<site, cur, seen, out>>

(* Mutant: the URLs seen are not extended. *)
NotSeen(w, next) == UNCHANGED seen

(* Mutant: one set of URLs for all walks. *)
SharedSeen(w, next) == seen' = [v \in Walker |-> seen[v] \cup {next}]

MarkSeen(w, next) == seen' = [seen EXCEPT ![w] = @ \cup {next}]

(* Mutant: one page more than max_pages. *)
OneMore(w) == Len(out[w]) + 1 > max_pages

LastAllowed(w) == Len(out[w]) + 1 = max_pages

(* Mutant: what there is at the limit is returned. *)
ReturnSome(w) == Finish(w, "returned")

LimitExceeded(w) == Finish(w, "limit")

(* One pass through the loop.                                              *)
Fetch(w) ==
  LET page == cur[w][1]
      next == NextOf(w, page)
  IN  /\ result[w] = "walking"
      /\ UNCHANGED site
      /\ IF page \in malformed THEN Finish(w, "failed") /\ UNCHANGED <<cur, seen, out>>
         ELSE
         /\ out' = [out EXCEPT ![w] = Append(@, page)]
         /\ IF next = NoNext THEN Finish(w, "returned") /\ UNCHANGED <<cur, seen>>
            ELSE IF next = BadNext THEN Finish(w, "failed") /\ UNCHANGED <<cur, seen>>
            ELSE IF next \in seen[w] THEN Finish(w, "cycle") /\ UNCHANGED <<cur, seen>>
            ELSE /\ MarkSeen(w, next)
                 /\ cur' = [cur EXCEPT ![w] = next]
                 /\ IF LastAllowed(w) THEN LimitExceeded(w) ELSE UNCHANGED result

Finished ==
  /\ \A w \in Walker : result[w] # "walking"
  /\ UNCHANGED vars

Next == (\E w \in Walker : Fetch(w) \/ FetchFails(w)) \/ Finished

Spec == Init /\ [][Next]_vars

-----------------------------------------------------------------------------
TypeOK ==
  /\ \A w \in Walker :
       /\ cur[w] \in URL \cup {<<Root, "blank">>} /\ cur[w] \in seen[w]
       /\ out[w] \in Seq(Page) /\ Len(out[w]) <= max_pages
       /\ result[w] \in {"walking", "returned", "failed", "cycle", "limit"}

(* Where the site leads a walker from a page, in pages.                    *)
PageAfter(w, p) == NextOf(w, p)[1]

(* What is returned is the site's chain of pages from the first to the one *)
(* that ends it: none missing, none twice, in order.  A walk is given up   *)
(* for a cycle only when the site has one, which the walker went through.  *)
EndsAsTheSite ==
  \A w \in Walker :
    /\ result[w] = "returned" =>
         /\ out[w][1] = Start
         /\ \A i \in 1..(Len(out[w]) - 1) : PageAfter(w, out[w][i]) = out[w][i + 1]
         /\ PageAfter(w, Last(out[w])) = NoLink
         /\ IsInjective(out[w])
    /\ result[w] = "cycle" =>
         \E i, j \in 1..Len(out[w]) : i <= j /\ PageAfter(w, out[w][j]) = out[w][i]

(* No page is fetched more often than it has spellings, and never more     *)
(* than twice, whatever max_pages is.                                      *)
FewRefetches ==
  \A w \in Walker, p \in Page :
    Len(SelectSeq(out[w], LAMBDA q : q = p)) <= 2

(* tests/test_netclient_envelope_parity.py:10: the async envelope matches  *)
(* the sync result.                                                        *)
AsyncMatchesSync ==
  {"envelope", "async_envelope"} \subseteq Walker =>
    (result["envelope"] = "returned" /\ result["async_envelope"] \notin {"walking", "failed"} =>
       out["async_envelope"] = out["envelope"])
=============================================================================
