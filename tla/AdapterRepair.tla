----------------------------- MODULE AdapterRepair -----------------------------
(* The adapter generator (generator/service.py, discovery.py, draft.py,          *)
(* repair.py): it walks a site page by page, drafts an adapter from what it      *)
(* recognised, and repairs an installed one by drafting it anew, trying the      *)
(* draft against the site and offering it as the next version.  The site may     *)
(* change and the source may be updated while pages are awaited; a crash may cut *)
(* a package that is being written.                                              *)
EXTENDS Naturals, FiniteSets

CONSTANTS
  Layouts,                            \* how a page of the site may be laid out
  Gone,                               \* a page that is not there, or in which nothing is recognised
  MaxSiteChanges, MaxVersion, MaxDrafts, MaxRestarts   \* bounds

ASSUME RepairAssumption ==
  Gone \notin Layouts /\ Layouts # {} /\ MaxVersion \in Nat \ {0} /\ MaxSiteChanges \in Nat /\ MaxRestarts \in Nat

Capabilities == <<"search", "work", "catalog", "reader">>     \* in the order they are mapped and probed
Caps == {Capabilities[n] : n \in 1..4}
SiteRecipes == [Caps -> Layouts \cup {Gone}]                      \* what a recipe fits; Gone: no recipe

VARIABLES
  pages,       \* the site: the layout of the page each capability needs
  adapter,     \* the installed adapter: [version, recipes], version 0 when there is none
  walk,        \* the walk over the site that is under way, and what follows it
  drafts,      \* rows of generator_drafts with their files: [recipes, state, file]
  repairs,     \* repairs shown to the owner, whose files are kept: [version, recipes, answered]
  siteChanges, restarts,
  touched,     \* history: the site changed since the job began
  refusal      \* history: the last repair refused: what it repaired, and the site if it had not changed

generatorBoundVars == <<siteChanges, restarts>>
repairVars == <<pages, adapter, walk, drafts, repairs, generatorBoundVars, touched, refusal>>

Nowhere == [c \in Caps |-> Gone]
NoSource == [version |-> 0, recipes |-> Nowhere]
NoJob == [does |-> "nothing", at |-> "idle", step |-> 1, base |-> NoSource, found |-> Nowhere,
          answered |-> {}, broken |-> {}]
NoRefusal == [made |-> FALSE, steady |-> FALSE, base |-> Nowhere, site |-> Nowhere]
Has(recipes) == {c \in Caps : recipes[c] # Gone}

RepairTypeOK ==
  /\ pages \in SiteRecipes /\ adapter.version \in 0..MaxVersion /\ adapter.recipes \in SiteRecipes
  /\ walk.does \in {"nothing", "draft", "repair"} /\ walk.at \in {"idle", "mapping", "probing"}
  /\ walk.step \in 1..5
  /\ walk.found \in SiteRecipes /\ walk.answered \subseteq Caps /\ walk.broken \subseteq Caps
  /\ \A d \in drafts : d.recipes \in SiteRecipes /\ d.state \in {"discovered", "generated"} /\ d.file \in {"none", "torn", "whole"}
  /\ \A r \in repairs : r.version \in 2..MaxVersion /\ r.recipes \in SiteRecipes /\ r.answered \subseteq Caps
  /\ siteChanges \in 0..MaxSiteChanges /\ restarts \in 0..MaxRestarts /\ touched \in BOOLEAN /\ refusal.made \in BOOLEAN

(* A site that shows everything, and no adapter, or one with or without search   *)
(* that may have been made for another layout.                                   *)
RepairInit ==
  /\ pages = [c \in Caps |-> CHOOSE l \in Layouts : TRUE]
  /\ adapter \in {NoSource} \cup {[version |-> 1, recipes |-> [c \in Caps |-> IF c = "search" /\ ~s THEN Gone ELSE l]] :
                                 l \in Layouts, s \in BOOLEAN}
  /\ walk = NoJob /\ drafts = {} /\ repairs = {} /\ siteChanges = 0 /\ restarts = 0
  /\ touched = FALSE /\ refusal = NoRefusal

-----------------------------------------------------------------------------
(* Around the generator.                                                         *)

SiteChanges ==
  /\ siteChanges < MaxSiteChanges /\ siteChanges' = siteChanges + 1
  /\ \E c \in Caps, l \in Layouts \cup {Gone} : pages[c] # l /\ pages' = [pages EXCEPT ![c] = l]
  /\ touched' = TRUE
  /\ UNCHANGED <<adapter, walk, drafts, repairs, restarts, refusal>>

(* install_file() of another package of the adapter: uploaded or of the Registry.*)
OtherUpdate ==
  /\ adapter.version \in 1..(MaxVersion - 1)
  /\ adapter' = [version |-> adapter.version + 1, recipes |-> pages] /\ Has(pages) # {}
  /\ UNCHANGED <<pages, walk, drafts, repairs, generatorBoundVars, touched, refusal>>

(* A restart ends the request; a package that was being tried stays unnamed.     *)
RestartGenerator ==
  /\ restarts < MaxRestarts /\ restarts' = restarts + 1 /\ walk # NoJob
  /\ walk' = NoJob
  /\ UNCHANGED <<pages, adapter, drafts, repairs, siteChanges, touched, refusal>>

-----------------------------------------------------------------------------
(* discover(): a page is fetched for each capability; units are looked for on a  *)
(* work's page, and the reader behind a unit.                                    *)

StartJob(does) ==
  /\ walk = NoJob
  /\ does = "repair" => adapter.version \in 1..(MaxVersion - 1)
  /\ does = "draft" => Cardinality(drafts) < MaxDrafts
  /\ walk' = [NoJob EXCEPT !.does = does, !.at = "mapping", !.base = IF does = "repair" THEN adapter ELSE NoSource]
  /\ touched' = FALSE
  /\ UNCHANGED <<pages, adapter, drafts, repairs, generatorBoundVars, refusal>>

(* A page that shows no work may still list units.                               *)
Mapped(c, found) == CASE c = "catalog" /\ found["work"] = Gone -> {pages[c], Gone}
                      [] c = "reader" /\ found["catalog"] = Gone -> {Gone}
                      [] OTHER -> {pages[c]}

MapPage ==
  /\ walk.at = "mapping" /\ walk.step <= 4
  /\ LET c == Capabilities[walk.step]
     IN \E seen \in Mapped(c, walk.found) : walk' = [walk EXCEPT !.step = @ + 1, !.found[c] = seen]
  /\ UNCHANGED <<pages, adapter, drafts, repairs, generatorBoundVars, touched, refusal>>

(* start(): the draft of what was recognised, and of nothing else.               *)
SaveDraft ==
  /\ walk.does = "draft" /\ walk.step = 5 /\ walk' = NoJob
  /\ drafts' = drafts \cup {[recipes |-> walk.found, state |-> "discovered", file |-> "none"]}
  /\ UNCHANGED <<pages, adapter, repairs, generatorBoundVars, touched, refusal>>

-----------------------------------------------------------------------------
(* Drafts.  run_tests() and generate() write the package over the last one; it   *)
(* must load, and a package without a capability does not.                       *)

Rewritten(d, with) == drafts' = (drafts \ {d}) \cup {with}

WriteDraft(d, state) ==
  /\ Has(d.recipes) # {}
  /\ Rewritten(d, [d EXCEPT !.file = "whole", !.state = state])
  /\ UNCHANGED <<pages, adapter, walk, repairs, generatorBoundVars, touched, refusal>>

TestDraft(d) == WriteDraft(d, d.state)
GenerateDraft(d) == WriteDraft(d, "generated")

CrashWritingDraft(d) ==
  /\ restarts < MaxRestarts /\ restarts' = restarts + 1
  /\ Rewritten(d, [d EXCEPT !.file = "torn"]) /\ walk' = NoJob
  /\ UNCHANGED <<pages, adapter, repairs, siteChanges, touched, refusal>>

(* install_file() refuses what is not newer than the installed version.          *)
Installable(version) == version > adapter.version

InstallDraft(d) ==
  /\ d.state = "generated" /\ d.file = "whole" /\ Installable(1)
  /\ adapter' = [version |-> 1, recipes |-> d.recipes]
  /\ UNCHANGED <<pages, walk, drafts, repairs, generatorBoundVars, touched, refusal>>

-----------------------------------------------------------------------------
(* repair(): a draft that lost a capability replaces nothing; another is written *)
(* as the next version and tried against the site.                               *)

RefuseJob ==
  /\ walk' = NoJob
  /\ refusal' = [made |-> TRUE, steady |-> ~touched, base |-> walk.base.recipes, site |-> pages]
  /\ UNCHANGED <<pages, adapter, drafts, repairs, generatorBoundVars, touched>>

LostNone == TRUE                                                 \* mutant: missing is not looked at
NothingMissing == Has(walk.base.recipes) \subseteq Has(walk.found)

RefuseDraft == walk.does = "repair" /\ walk.at = "mapping" /\ walk.step = 5 /\ ~NothingMissing /\ RefuseJob

WriteRepair ==
  /\ walk.does = "repair" /\ walk.at = "mapping" /\ walk.step = 5 /\ NothingMissing
  /\ walk' = [walk EXCEPT !.at = "probing", !.step = 1]
  /\ UNCHANGED <<pages, adapter, drafts, repairs, generatorBoundVars, touched, refusal>>

(* _probe(): a work and its units are asked for only once search has answered    *)
(* with a listing, a reader only once the catalog has answered with a unit.      *)
ProbesInstalled(c) == walk.base.recipes[c]                        \* mutant: the adapter being repaired is tried
Probed(c) == walk.found[c]
Asks(c) == /\ Has(walk.found) # {} /\ walk.found[c] # Gone
           /\ c \in {"work", "catalog"} => "search" \in walk.answered
           /\ c = "reader" => "catalog" \in walk.answered

Probe ==
  /\ walk.at = "probing" /\ walk.step <= 4
  /\ LET c == Capabilities[walk.step]
         works == Probed(c) = pages[c]
     IN walk' = [walk EXCEPT !.step = @ + 1,
                           !.answered = IF Asks(c) /\ works THEN @ \cup {c} ELSE @,
                           !.broken = IF Asks(c) /\ ~works THEN @ \cup {c} ELSE @]
  /\ UNCHANGED <<pages, adapter, drafts, repairs, generatorBoundVars, touched, refusal>>

SearchWorks == "search" \notin walk.broken                        \* mutant: only the first capability counts
NothingBroken == walk.broken = {}

RefuseRepair == walk.at = "probing" /\ walk.step = 5 /\ ~NothingBroken /\ RefuseJob

OfferRepair ==
  /\ walk.at = "probing" /\ walk.step = 5 /\ NothingBroken
  /\ repairs' = repairs \cup {[version |-> walk.base.version + 1, recipes |-> walk.found, answered |-> walk.answered]}
  /\ walk' = NoJob
  /\ UNCHANGED <<pages, adapter, drafts, generatorBoundVars, touched, refusal>>

(* activate_repair(): whenever the owner likes.                                  *)
ActivateRepair(r) ==
  /\ Installable(r.version) /\ adapter' = [version |-> r.version, recipes |-> r.recipes]
  /\ UNCHANGED <<pages, walk, drafts, repairs, generatorBoundVars, touched, refusal>>

GeneratorActs ==
  \/ \E does \in {"draft", "repair"} : StartJob(does)
  \/ MapPage \/ SaveDraft \/ RefuseDraft \/ WriteRepair \/ Probe \/ RefuseRepair \/ OfferRepair
  \/ \E d \in drafts : TestDraft(d) \/ GenerateDraft(d) \/ InstallDraft(d)
  \/ \E r \in repairs : ActivateRepair(r)

RepairNext ==
  \/ GeneratorActs \/ SiteChanges \/ OtherUpdate \/ RestartGenerator
  \/ \E d \in drafts : CrashWritingDraft(d)

RepairSpec == RepairInit /\ [][RepairNext]_repairVars

-----------------------------------------------------------------------------
(* A source loses no capability to the generator: neither a repair that waited   *)
(* while it was updated nor a draft of the same site takes one away              *)
(* (repair.repair, manager.install_file).                                        *)
RepairLosesNothing ==
  [][GeneratorActs => Has(adapter.recipes) \subseteq Has(adapter'.recipes)]_repairVars

(* A repair of an adapter with search is offered only when each of its           *)
(* capabilities has answered, though the site may have changed between the page  *)
(* it was drafted from and the probe (repair._probe).                            *)
OfferedAnswered == \A r \in repairs : "search" \in Has(r.recipes) => r.answered = Has(r.recipes)

(* A source is repaired when the site kept still and shows each capability where *)
(* it can be recognised: the repair is not refused (repair.repair).              *)
Recognisable(c, site) ==
  /\ site[c] # Gone
  /\ c \in {"catalog", "reader"} => site["work"] # Gone
  /\ c = "reader" => site["catalog"] # Gone
SteadySiteIsRepaired ==
  refusal.made /\ refusal.steady => \E c \in Has(refusal.base) : ~Recognisable(c, refusal.site)
=============================================================================
