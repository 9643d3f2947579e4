------------------------------- MODULE PagedList -------------------------------
(* How a recipe reads a list page by page, and when it may call it complete      *)
(* (plugins/runtime.py). Only a complete catalog may become the trusted one, so  *)
(* a list that was cut, failed or looped must not be called that. The site may   *)
(* publish an entry at the head of the list between two pages.                   *)
EXTENDS Integers, Sequences, SequencesExt

CONSTANTS
  SiteLists,      \* the lists a site may show
  Unusable,       \* an entry that lacks a required field
  NewEntry,         \* the entry published meanwhile
  NoReason,
  NoPage,
  PageSizes,      \* how many entries a page of the site holds
  PageCap,        \* MAX_ITEMS_PER_PAGE
  TotalCap,       \* MAX_TOTAL_ITEMS
  MaxPages        \* pagination.max_pages

CompleteReasons == {"single_response", "empty_page", "total_reached", "last_page", "no_more_pages"}
OtherReasons == {"repeated_page", "item_cap_reached", "total_not_reached", "page_cap_reached", "page_failed",
                 "raised", "pagination_loop"}

ASSUME PagesAssumption ==
  /\ \A list \in SiteLists : list \in Seq(Range(list)) /\ NewEntry \notin Range(list)
  /\ PageSizes \subseteq Nat \ {0} /\ {PageCap, TotalCap} \subseteq Nat /\ MaxPages \in Nat \ {0}
  /\ NoReason \notin CompleteReasons \cup OtherReasons

VARIABLES
  recipe,     \* what is read: [mode, stop, strict], and the window's first page
  site,       \* [list, size, past]: its list, and what it shows past the last page
  atFirst,    \* the list when the run began
  run         \* the run: see Started

pagedVars == <<recipe, site, atFirst, run>>

Recipes == [mode : {"none", "page_number", "next_link"}, stop : {"empty_items", "total_count", "not_found", "no_next"},
            strict : BOOLEAN, from : 0..1]

(* A list that only links forward is read from its start.                        *)
Windows(r) == r.mode = "page_number" \/ r.from = 0

Started(r) ==
  [index |-> r.from, pages |-> 0, seenPages |-> {}, entries |-> <<>>, previous |-> NoPage, expected |-> -1,
   invalid |-> FALSE, truncated |-> FALSE, complete |-> FALSE, reason |-> NoReason]

Sites == [list : SiteLists, size : PageSizes, past : {"empty", "last", "not_found", "first"}]

PagedInit ==
  /\ recipe \in {r \in Recipes : Windows(r)}
  /\ site \in Sites
  /\ atFirst = site.list /\ run = Started(recipe)

PagedTypeOK ==
  /\ run.pages \in 0..MaxPages /\ Len(run.entries) <= TotalCap + PageCap
  /\ run.complete => run.reason \in CompleteReasons
  /\ ~(run.complete /\ run.truncated)

-----------------------------------------------------------------------------
(* The site.                                                                     *)

LastPage == IF site.list = <<>> THEN 0 ELSE (Len(site.list) - 1) \div site.size
Slice(list, from, to) == SubSeq(list, from, IF to < Len(list) THEN to ELSE Len(list))
PageOf(n) == Slice(site.list, n * site.size + 1, (n + 1) * site.size)

(* The entries shown for page n, also when it is past the last one; a list       *)
(* without pages is shown whole.                                                 *)
Shown(n) ==
  IF recipe.mode = "none" THEN site.list
  ELSE IF n <= LastPage THEN PageOf(n)
  ELSE CASE site.past = "last" -> PageOf(LastPage) [] site.past = "first" -> PageOf(0) [] OTHER -> <<>>

(* Where the next link leads: nowhere, or back.                                  *)
NextLink(n) == IF n < LastPage THEN n + 1 ELSE IF site.past = "first" THEN 0 ELSE -1

PublishesEntry ==
  /\ run.reason = NoReason /\ site.list = atFirst
  /\ site' = [site EXCEPT !.list = <<NewEntry>> \o @]
  /\ UNCHANGED <<recipe, atFirst, run>>

-----------------------------------------------------------------------------
(* The run.                                                                      *)

IsLast == run.pages + 1 = IF recipe.mode = "none" THEN 1 ELSE MaxPages
Nodes == Slice(Shown(run.index), 1, PageCap)
IsUsable(e) == e # Unusable
Fields == SelectSeq(Nodes, IsUsable)

AddAgain(entries, e) == IF IsUsable(e) THEN Append(entries, e) ELSE entries     \* mutant: also when it was seen before
AddUnseen(entries, e) == IF IsUsable(e) /\ ~Contains(entries, e) THEN Append(entries, e) ELSE entries

(* The entries once those of the first n nodes are taken.                        *)
EntriesAfter[n \in 0..Len(Nodes)] ==
  IF n = 0 THEN run.entries ELSE AddUnseen(EntriesAfter[n - 1], Nodes[n])

CutIgnored == run.truncated      \* mutant: entries beyond the cap of a page are forgotten
Cut == run.truncated \/ Len(Shown(run.index)) > PageCap

Invalid == run.invalid \/ Cut \/ \E n \in DOMAIN Nodes : ~IsUsable(Nodes[n])

(* What reading a page leaves, whatever it ends with.                            *)
Read == [run EXCEPT !.pages = @ + 1, !.seenPages = @ \cup {run.index}, !.truncated = Cut, !.invalid = Invalid]
Taken == [Read EXCEPT !.entries = EntriesAfter[Len(Nodes)], !.previous = Fields,
                      !.expected = IF recipe.stop = "total_count" /\ @ = -1 THEN Len(site.list) ELSE @]

(* complete, after the caps: a strict list with an invalid entry is not, and a   *)
(* cut list never is.                                                            *)
Ended(r, reason, complete) ==
  [r EXCEPT !.reason = reason, !.complete = complete /\ ~(recipe.strict /\ r.invalid) /\ ~r.truncated]

Repeated == Fields # <<>> /\ Fields = run.previous

TotalReached == Len(Taken.entries) >= Taken.expected

(* The reason to stop after a page whose entries are taken, in the code's order. *)
StopsWith ==
  IF Len(Taken.entries) > TotalCap THEN "item_cap_reached"
  ELSE IF recipe.mode = "none" THEN "single_response"
  ELSE IF recipe.stop = "empty_items" /\ Nodes = <<>> THEN "empty_page"
  ELSE IF recipe.stop = "total_count" /\ TotalReached THEN "total_reached"
  ELSE IF recipe.stop = "total_count" /\ Nodes = <<>> THEN "total_not_reached"
  ELSE IF recipe.mode = "next_link" /\ NextLink(run.index) = -1 THEN "last_page"
  ELSE IF IsLast THEN "page_cap_reached" ELSE NoReason

IsEnd(reason) == reason \in {"single_response", "empty_page", "total_reached", "last_page"}

NextIndex == IF recipe.mode = "next_link" THEN NextLink(run.index) ELSE run.index + 1

Answers == ~(run.index > LastPage /\ site.past = "not_found")
Continues == run.reason = NoReason /\ ~(recipe.mode = "next_link" /\ run.index \in run.seenPages)

ReadPage ==
  /\ Continues /\ Answers
  /\ run' = IF Repeated THEN Ended(Read, "repeated_page", FALSE)
            ELSE IF StopsWith = NoReason THEN [Taken EXCEPT !.index = NextIndex]
            ELSE Ended(Taken, StopsWith, IsEnd(StopsWith))
  /\ UNCHANGED <<recipe, site, atFirst>>

IsPastTheEnd == recipe.stop = "not_found" /\ run.pages > 0

NotFound ==
  /\ Continues /\ ~Answers
  /\ run' = IF IsPastTheEnd THEN Ended(run, "no_more_pages", TRUE) ELSE Ended(run, "page_failed", FALSE)
  /\ UNCHANGED <<recipe, site, atFirst>>

(* Another failure of a page; or one that leaves no result at all (a rate limit, *)
(* a login).                                                                     *)
PageFails ==
  /\ Continues
  /\ \E reason \in {"page_failed", "raised"} : run' = Ended(run, reason, FALSE)
  /\ UNCHANGED <<recipe, site, atFirst>>

Loops ==
  /\ run.reason = NoReason /\ ~Continues
  /\ run' = Ended(run, "pagination_loop", FALSE)
  /\ UNCHANGED <<recipe, site, atFirst>>

PagedNext == PublishesEntry \/ ReadPage \/ NotFound \/ PageFails \/ Loops

PagedSpec == PagedInit /\ [][PagedNext]_pagedVars

-----------------------------------------------------------------------------
(* Properties.                                                                   *)

(* A list called complete has every usable entry the site listed when the run    *)
(* began, from the window's first page on, whatever was published meanwhile; and *)
(* when a reader needs every entry, none was unusable ("a cut list reported      *)
(* complete would replace a trusted catalog with a shorter one", runtime.py).    *)
Wanted == {atFirst[i] : i \in (recipe.from * site.size + 1)..Len(atFirst)}
CompleteIsWhole ==
  run.complete => /\ \A e \in Wanted \ {Unusable} : Contains(run.entries, e)
                  /\ recipe.strict => Unusable \notin Wanted

(* The entries of a complete list that were there at first keep their order,     *)
(* each taken once: wherever one is listed, an entry taken before it is listed   *)
(* before, although the pages shift while they are read (a window may find a     *)
(* repetition first).                                                            *)
InListOrder ==
  run.complete /\ recipe.from = 0 =>
    \A k, l \in DOMAIN run.entries : k < l /\ run.entries[k] # NewEntry =>
      \A q \in DOMAIN atFirst : atFirst[q] = run.entries[l] => \E p \in 1..(q - 1) : atFirst[p] = run.entries[k]
=============================================================================
