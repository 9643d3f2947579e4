------------------------------ MODULE Corrections ------------------------------
(* What the user corrects stays corrected: a correction is a row of              *)
(* user_overrides and also the column that everything reads                      *)
(* (library/overrides.py). Catalog refreshes, the classification repair and the  *)
(* restore of a backup write the same columns and rows.                          *)
EXTENDS Naturals, FiniteSets

CONSTANTS
  Unit, Twin,         \* reading units with the same key: the twin's track is "und"
  NotCorrected,
  Types,              \* content types and unit types, as a source may state them
  Default,            \* the content type that the plugin's defaults state
  Chosen,             \* what the user corrects a field to
  MaxRefreshes        \* bound: catalogs of the source

Unknown == "unknown"

(* What the user chose can be told from what the source says.                    *)
ASSUME CorrectionsAssumption ==
  /\ Unit # Twin /\ Default \in Types /\ MaxRefreshes \in Nat
  /\ Chosen \notin Types \cup {Unknown, NotCorrected}

Units2 == {Unit, Twin}
UnitFields == {"title", "type"}

VARIABLES
  units,      \* the reading units that exist
  source,     \* of each unit: what the source says (of its title, its type), and whether the trusted catalog lists it
  shown,      \* of each unit: the columns everything reads
  overrides,  \* of each unit: user_overrides
  work,       \* [type, by, override, replaced]: content_type, content_type_source, and its two overrides
  archive,    \* what the backup holds of the above
  refreshes

correctionVars == <<units, source, shown, overrides, work, archive, refreshes>>

NoOverrides == [f \in UnitFields |-> NotCorrected]
NoWord == [type |-> Unknown, by |-> Unknown]
AllSay(t) == [f \in UnitFields |-> t]

CorrectionsInit ==
  /\ units = Units2
  /\ source = [u \in Units2 |-> [says |-> CHOOSE t \in Types : TRUE, listed |-> TRUE]]
  /\ shown = [u \in Units2 |-> AllSay(source[u].says)]
  /\ overrides = [u \in Units2 |-> NoOverrides]
  /\ \E word \in {NoWord, [type |-> Chosen, by |-> "user"]} :      \* or an import classified it
       work = [type |-> word.type, by |-> word.by, override |-> NotCorrected, replaced |-> NotCorrected]
  /\ archive = NotCorrected /\ refreshes = 0

Values == Types \cup {Unknown, Chosen}
CorrectionsTypeOK ==
  /\ units \in SUBSET Units2 /\ Unit \in units
  /\ \A u \in Units2 : \A f \in UnitFields : shown[u][f] \in Values /\ overrides[u][f] \in {NotCorrected, Chosen}
  /\ work.type \in Values /\ work.by \in {Unknown, "plugin_default", "user"}
  /\ (work.replaced # NotCorrected) => (work.replaced \in [type : Values, by : {Unknown, "plugin_default"}])

-----------------------------------------------------------------------------
(* The user.                                                                     *)

(* set_unit(): a field is corrected, or its correction cleared, which puts back  *)
(* the raw title, or the type the trusted catalog states.                        *)
StaysAsItWas(u, f) == shown[u][f]      \* mutant: only the row goes
PutBack(u, f) ==
  IF f = "title" \/ source[u].listed THEN source[u].says ELSE Unknown

Correct(u, f) ==
  /\ overrides' = [overrides EXCEPT ![u][f] = Chosen]
  /\ shown' = [shown EXCEPT ![u][f] = Chosen]
  /\ UNCHANGED <<units, source, work, archive, refreshes>>

ClearUnit(u, f) ==
  /\ overrides' = [overrides EXCEPT ![u][f] = NotCorrected]
  /\ shown' = [shown EXCEPT ![u][f] = PutBack(u, f)]
  /\ UNCHANGED <<units, source, work, archive, refreshes>>

(* set_work(): what a correction replaces is remembered the first time.          *)
Word == [type |-> work.type, by |-> work.by]
Remembered == IF work.replaced = NotCorrected /\ work.by # "user" THEN Word ELSE work.replaced

CorrectWork ==
  /\ work' = [type |-> Chosen, by |-> "user", override |-> Chosen, replaced |-> Remembered]
  /\ UNCHANGED <<units, source, shown, overrides, archive, refreshes>>

ReplacedWord == IF work.replaced # NotCorrected THEN work.replaced ELSE IF work.by # "user" THEN Word ELSE NoWord
ClearWork ==
  /\ work' = [type |-> ReplacedWord.type, by |-> ReplacedWord.by, override |-> NotCorrected, replaced |-> NotCorrected]
  /\ UNCHANGED <<units, source, shown, overrides, archive, refreshes>>

-----------------------------------------------------------------------------
(* The source, the repair and the backup.                                        *)

(* What the columns are once the overrides of these units are applied to them.   *)
AsTheSourceSays(columns, rows) == columns      \* mutant: the overrides are not applied again
Applied(columns, rows) ==
  [u \in Units2 |-> [f \in UnitFields |-> IF rows[u][f] # NotCorrected THEN rows[u][f] ELSE columns[u][f]]]

(* _materialize(): the rows of a new trusted catalog of one track.               *)
Refresh(u) ==
  /\ u \in units /\ refreshes < MaxRefreshes /\ refreshes' = refreshes + 1
  /\ \E said \in Types, listed \in BOOLEAN :
       LET now == IF listed THEN [says |-> said, listed |-> TRUE] ELSE [source[u] EXCEPT !.listed = FALSE]
           columns == IF listed THEN [shown EXCEPT ![u] = AllSay(said)] ELSE shown
       IN /\ source' = [source EXCEPT ![u] = now]
          /\ shown' = [shown EXCEPT ![u] = Applied(columns, overrides)[u]]
  /\ UNCHANGED <<units, overrides, work, archive>>

(* apply() of the repair: a Work that nobody classified gets the plugin's type.  *)
Classifies == work.type # "user" /\ work.by # "plugin_default"      \* mutant: the user's word is classified too
Unclassified == work.by = Unknown /\ work.type = Unknown
RepairWork ==
  /\ Unclassified
  /\ work' = [work EXCEPT !.type = Default, !.by = "plugin_default"]
  /\ UNCHANGED <<units, source, shown, overrides, archive, refreshes>>

(* _merge_unit(): the twin goes; its rows of user_overrides move where the       *)
(* unit's own do not stand.                                                      *)
RepairTwin ==
  /\ Twin \in units /\ units' = units \ {Twin}
  /\ overrides' = [u \in Units2 |-> [f \in UnitFields |->
       IF u = Twin THEN NotCorrected ELSE IF overrides[Unit][f] # NotCorrected THEN overrides[Unit][f] ELSE overrides[Twin][f]]]
  /\ shown' = [shown EXCEPT ![Twin] = AllSay(source[Twin].says)]
  /\ UNCHANGED <<source, work, archive, refreshes>>

BackUpCorrections ==
  /\ archive = NotCorrected
  /\ archive' = [units |-> units, source |-> source, shown |-> shown, overrides |-> overrides, work |-> work]
  /\ UNCHANGED <<units, source, shown, overrides, work, refreshes>>

(* _replace(), which applies nothing; and _merge(), which adds the rows that are *)
(* not there and then applies all of them. A twin that is gone comes back.       *)
ReplaceBySaved ==
  /\ archive # NotCorrected
  /\ units' = archive.units /\ source' = archive.source /\ shown' = archive.shown
  /\ overrides' = archive.overrides /\ work' = archive.work /\ UNCHANGED <<archive, refreshes>>

Either(mine, theirs) == IF mine # NotCorrected THEN mine ELSE theirs
MergedWork ==
  LET override == Either(work.override, archive.work.override)
  IN [type |-> IF override # NotCorrected THEN override ELSE work.type,
      by |-> IF override # NotCorrected THEN "user" ELSE work.by,
      override |-> override, replaced |-> Either(work.replaced, archive.work.replaced)]

MergeSaved ==
  /\ archive # NotCorrected
  /\ units' = units \cup archive.units
  /\ \E back \in {archive.units \ units} :
       LET rows == [u \in Units2 |-> [f \in UnitFields |-> Either(overrides[u][f], archive.overrides[u][f])]]
           columns == [u \in Units2 |-> IF u \in back THEN archive.shown[u] ELSE shown[u]]
       IN /\ overrides' = [u \in Units2 |-> IF u \in units' THEN rows[u] ELSE NoOverrides]
          /\ source' = [u \in Units2 |-> IF u \in back THEN archive.source[u] ELSE source[u]]
          /\ shown' = Applied(columns, overrides')
  /\ work' = MergedWork
  /\ UNCHANGED <<archive, refreshes>>

CorrectionsNext ==
  \/ \E u \in units, f \in UnitFields : Correct(u, f) \/ ClearUnit(u, f)
  \/ \E u \in Units2 : Refresh(u)
  \/ CorrectWork \/ ClearWork \/ RepairWork \/ RepairTwin
  \/ BackUpCorrections \/ ReplaceBySaved \/ MergeSaved

CorrectionsSpec == CorrectionsInit /\ [][CorrectionsNext]_correctionVars

-----------------------------------------------------------------------------
(* Properties.                                                                   *)

(* A refresh, or a merge of a backup, leaves no correction of the units it wrote *)
(* unshown ("a correction is never silently overwritten", overrides.py:6).       *)
Shows(u) == \A f \in UnitFields : overrides[u][f] # NotCorrected => shown[u][f] = overrides[u][f]
WritersKeepCorrections ==
  [][/\ \A u \in Units2 : (source'[u] # source[u] /\ u \in units' /\ archive' = archive /\ refreshes' # refreshes) => Shows(u)'
     /\ MergeSaved => (\A u \in units' : Shows(u)')]_correctionVars

(* A field that is not corrected says what the source says, whatever was         *)
(* corrected, cleared, joined and restored before ("Clearing a correction        *)
(* removes the row and puts back what the source said", overrides.py:7).         *)
UncorrectedIsAsSource ==
  \A u \in units : /\ overrides[u]["title"] = NotCorrected => shown[u]["title"] = source[u].says
                   /\ (overrides[u]["type"] = NotCorrected /\ source[u].listed) => shown[u]["type"] = source[u].says

(* The user's classification of a Work stands until the user clears it, and what *)
(* clearing puts back is never the user's own (reclassify.py:7).                 *)
WorkCorrectionStands ==
  work.override # NotCorrected => /\ work.type = work.override /\ work.by = "user"
                                  /\ work.replaced # NotCorrected => work.replaced.type # Chosen

(* "so every reader sees it without knowing about overrides" (overrides.py:5).   *)
UnitCorrectionsShow == \A u \in units : Shows(u)
=============================================================================
