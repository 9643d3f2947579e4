----------------------------- MODULE PageRetrieval -----------------------------
(* A download job fetches a unit page by page and packages the pages             *)
(* (downloads/engine.py, _download_pages): each checked page is put in place and *)
(* then recorded in the job's manifest, so that the next attempt skips it, while *)
(* the site lists the unit's pages anew for every attempt.                       *)
EXTENDS Naturals, Sequences, FiniteSets

CONSTANTS
  PageUrls,         \* the pages the site can list
  PageLists,        \* the lists of pages it may give for the unit
  NoImage,           \* no page, no record of one
  MaxPageFaults     \* bound: failures of the connection and the site, and stops

ASSUME PageListsAssumption ==
  /\ PageLists \subseteq Seq(PageUrls) /\ \E longest \in PageLists : \A l \in PageLists : Len(l) <= Len(longest)
  /\ NoImage \notin PageUrls /\ NoImage \notin [url : PageUrls, image : PageUrls] /\ MaxPageFaults \in Nat

VARIABLES
  pageListed,       \* the site's list of the unit's pages
  pageFiles,        \* NNNN.img: whose image is at each place, or NoImage
  pageRecords,      \* manifest "pages" as saved: the url and the image that was checked, or NoImage
  fetching,         \* the attempt under way: the list it got, the place it is at
  packaged,         \* the pages of the archive, once there is one
  pageFaults

pageVars == <<pageListed, pageFiles, pageRecords, fetching, packaged, pageFaults>>

PagePlaces == 1 .. CHOOSE n \in {Len(l) : l \in PageLists} : \A l \in PageLists : Len(l) <= n
NoFetch == [pc |-> "queued", list |-> <<>>, at |-> 0]
PageRecord(url, image) == [url |-> url, image |-> image]

PagesOfUnitInit ==
  /\ pageListed \in PageLists
  /\ pageFiles = [n \in PagePlaces |-> NoImage] /\ pageRecords = [n \in PagePlaces |-> NoImage]
  /\ fetching = NoFetch /\ packaged = <<>> /\ pageFaults = 0

PageRetrievalTypeOK ==
  /\ pageListed \in PageLists
  /\ \A n \in PagePlaces : /\ pageFiles[n] # NoImage => pageFiles[n] \in PageUrls
                       /\ pageRecords[n] # NoImage => pageRecords[n] \in [url : PageUrls, image : PageUrls]
  /\ fetching.pc \in {"queued", "page", "record", "package", "done"} /\ fetching.at \in 0 .. Len(fetching.list) + 1
  /\ DOMAIN packaged \subseteq PagePlaces

-----------------------------------------------------------------------------
(* The attempt gets the list and forgets the pages that are past its end.        *)
StaleKept(list) == pageRecords                               \* mutant: a longer list's pages stay recorded
WithoutStale(list) == [n \in PagePlaces |-> IF n > Len(list) THEN NoImage ELSE pageRecords[n]]

BeginPages ==
  /\ fetching.pc = "queued"
  /\ fetching' = [pc |-> "page", list |-> pageListed, at |-> 1]
  /\ pageRecords' = WithoutStale(pageListed)
  /\ UNCHANGED <<pageListed, pageFiles, packaged, pageFaults>>

(* A page is skipped when the list has it where it was and its file is as it was *)
(* checked.                                                                      *)
StillListed(n) == pageRecords[n] # NoImage /\ pageRecords[n].url = fetching.list[n]  \* mutant: whatever the file is
Skipped(n) == pageRecords[n] # NoImage /\ pageRecords[n].url = fetching.list[n] /\ pageFiles[n] = pageRecords[n].image

SkipPage ==
  /\ fetching.pc = "page" /\ fetching.at <= Len(fetching.list) /\ Skipped(fetching.at)
  /\ fetching' = [fetching EXCEPT !.at = @ + 1]
  /\ UNCHANGED <<pageListed, pageFiles, pageRecords, packaged, pageFaults>>

(* A page that arrives and is an image replaces what is at its place.            *)
PageArrives ==
  /\ fetching.pc = "page" /\ fetching.at <= Len(fetching.list) /\ ~Skipped(fetching.at)
  /\ pageFiles' = [pageFiles EXCEPT ![fetching.at] = fetching.list[fetching.at]]
  /\ fetching' = [fetching EXCEPT !.pc = "record"]
  /\ UNCHANGED <<pageListed, pageRecords, packaged, pageFaults>>

RecordPage ==
  /\ fetching.pc = "record"
  /\ pageRecords' = [pageRecords EXCEPT ![fetching.at] = PageRecord(fetching.list[fetching.at], pageFiles[fetching.at])]
  /\ fetching' = [fetching EXCEPT !.pc = "page", !.at = @ + 1]
  /\ UNCHANGED <<pageListed, pageFiles, packaged, pageFaults>>

(* After the last page: as many records as pages, or the job fails.              *)
RecordedPages == {n \in PagePlaces : pageRecords[n] # NoImage}
Covered == Cardinality(RecordedPages) = Len(fetching.list)
AllFetched == fetching.pc = "page" /\ fetching.at > Len(fetching.list)

Archive == [n \in 1 .. Len(fetching.list) |-> pageFiles[n]]

PackagePages ==
  /\ AllFetched /\ Covered
  /\ packaged' = Archive
  /\ fetching' = [fetching EXCEPT !.pc = "done"]
  /\ UNCHANGED <<pageListed, pageFiles, pageRecords, pageFaults>>

-----------------------------------------------------------------------------
(* A page that is refused, or no image, fails the attempt, and so does a commit; *)
(* a stop ends it. The job is queued again; files and records stay.              *)
FetchBreaks ==
  /\ fetching.pc # "queued" /\ pageFaults < MaxPageFaults
  /\ fetching' = NoFetch /\ packaged' = <<>> /\ pageFaults' = pageFaults + 1
  /\ UNCHANGED <<pageListed, pageFiles, pageRecords>>

(* cancel_job() deletes the staging area, unless it is to be kept; retry_job()   *)
(* leaves the records of the pages.                                              *)
CancelAndRetry ==
  /\ pageFaults < MaxPageFaults
  /\ fetching' = NoFetch /\ packaged' = <<>> /\ pageFaults' = pageFaults + 1
  /\ pageFiles' \in {pageFiles, [n \in PagePlaces |-> NoImage]}
  /\ UNCHANGED <<pageListed, pageRecords>>

SiteRelists ==
  /\ fetching.pc = "queued" /\ pageListed' \in PageLists \ {pageListed}
  /\ UNCHANGED <<pageFiles, pageRecords, fetching, packaged, pageFaults>>

PagesOfUnitNext ==
  \/ BeginPages \/ SkipPage \/ PageArrives \/ RecordPage \/ PackagePages
  \/ FetchBreaks \/ CancelAndRetry \/ SiteRelists

-----------------------------------------------------------------------------
(* What is packaged is the list of the attempt that packages it, page by page,   *)
(* although earlier attempts fetched some of its pages from other lists.         *)
PackagedAsListed == packaged # <<>> => packaged = fetching.list

(* "page coverage does not match the source resource list" never happens: a      *)
(* list that got shorter does not fail the job for ever.                         *)
CoverageMatches == AllFetched => Covered
=============================================================================
