----------------------------- MODULE WorkIdentity -----------------------------
(* Which Work a source's listing belongs to: durable actions bind it             *)
(* (search/grouping.py), the user merges, splits, unlinks and forbids            *)
(* (search/mapping.py), the classification repair joins tracks                   *)
(* (library/reclassify.py), and a backup is merged back (restore/service.py).    *)
EXTENDS Naturals, FiniteSets

CONSTANTS
  MaxWorks,          \* bound: Works ever made
  Listings,          \* by their source's key
  Null,              \* no Work, no listing: NULL
  MaxId,             \* bound: tracks made
  MaxMappings,       \* bound: decisions recorded at a time
  MaxRestores        \* bound: restores

VARIABLES
  works,      \* the Works of the library
  spent,      \* ids of Works ever used
  bound,      \* source_listings.work_id, Null when it is NULL or there is no row
  decided,    \* source_listings.mapping_decided_by
  known,      \* the listings that have a row
  tracks,     \* source_tracks: [id, work, listing, language]; kind local has language "local"
  follows,    \* follows: [work, language, track]
  mappings,   \* work_mappings: [kind, listing, work, made], made for the Work it was made about: its id
  imported,   \* the Works an import names (imports.work_id)
  savedTables,      \* the tables of the backup, Null before one is made
  lastId, restores

ASSUME IdentityAssumption ==
  /\ MaxWorks \in Nat /\ MaxId \in Nat
  /\ Null \notin Nat \cup Listings \cup {"user", "evidence"}

library == <<works, bound, decided, known, tracks, follows, mappings, imported>>
identityVars == <<library, spent, savedTables, lastId, restores>>

Works == 1..MaxWorks
Languages == {"und", "en"}           \* "en" is also what the plugin's defaults say
BlockingKinds == {"never_match", "unlink", "split"}
Nobody == [l \in Listings |-> Null]

IdentityInit ==
  /\ works = {} /\ spent = {} /\ bound = Nobody /\ decided = Nobody /\ known = {}
  /\ tracks = {} /\ follows = {} /\ mappings = {} /\ imported = {}
  /\ savedTables = Null /\ lastId = 0 /\ restores = 0

Ids == 1..MaxId
TrackRows == [id : Ids, work : Works, listing : {Null} \cup Listings, language : Languages \cup {"local"}]
MappingRows == [kind : BlockingKinds, listing : Listings, work : Works, made : Works]
IdentityTypeOK ==
  /\ works \subseteq spent /\ spent \subseteq Works /\ imported \subseteq works
  /\ bound \in [Listings -> {Null} \cup works] /\ decided \in [Listings -> {Null, "user", "evidence"}]
  /\ known \subseteq Listings /\ tracks \subseteq TrackRows /\ mappings \subseteq MappingRows
  /\ \A f \in follows : f.work \in works /\ \E t \in tracks : t.id = f.track
  /\ \A t \in tracks : t.work \in works /\ \A m \in mappings : m.work \in works
  /\ \A t, u \in tracks : t.id = u.id => t = u

-----------------------------------------------------------------------------
(* Binding.                                                                      *)

(* The next new id.                                                              *)
FreshOne == {w \in Works \ spent : \A v \in Works \ spent : w <= v}
(* _blocked_pairs()                                                              *)
Blocked(l, w) == \E m \in mappings : m.listing = l /\ m.work = w

(* What persist_listing() decides: evidence never overrides the user's mapping,  *)
(* and a blocked pair falls back to what is there, if that is not blocked too.   *)
MayBindAnyway(l, w, by) == w # Null /\ w # bound[l]     \* mutant: the user's mapping is not asked
MayBind(l, w, by) == w # Null /\ w # bound[l] /\ ~(bound[l] # Null /\ decided[l] = "user" /\ by # "user")
WantedWork(l, w, by) == IF MayBind(l, w, by) THEN [work |-> w, by |-> by] ELSE [work |-> bound[l], by |-> decided[l]]
DecisionUnchecked(l, w, by) == WantedWork(l, w, by)      \* mutant: what is blocked is bound
Decision(l, w, by) ==
  LET want == WantedWork(l, w, by) IN
  IF want.work = Null \/ ~Blocked(l, want.work) THEN want
  ELSE IF Blocked(l, bound[l]) THEN [work |-> Null, by |-> Null] ELSE [work |-> bound[l], by |-> decided[l]]

(* The live tracks of a listing that leaves its Work stay there, as archives.    *)
NotDetached(l, ts) == ts      \* mutant: they stay with the listing
Detached(l, ts) == {IF t.listing = l THEN [t EXCEPT !.listing = Null] ELSE t : t \in ts}

(* A Follow takes its track's language unless its Work has one in it already.    *)
Relabelled(fs, t, lang) ==
  {IF f.track = t.id /\ ~\E g \in fs : g.work = f.work /\ g.language = lang THEN [f EXCEPT !.language = lang] ELSE f : f \in fs}

(* One listing, one language, one track: an "und" track is upgraded in place.    *)
Siblings(l, ts) == {t \in ts : t.listing = l}
SameOf(l, lang, ts) ==
  {t \in Siblings(l, ts) : t.language = lang \/ (lang = "und" /\ Cardinality(Siblings(l, ts)) = 1)}
NothingUnknown(l, lang, ts) == {}     \* mutant: it is twinned
UnknownOf(l, lang, ts) == {t \in Siblings(l, ts) : t.language = "und" /\ lang # "und"}

NewTrack(l, w, lang) == [id |-> lastId + 1, work |-> w, listing |-> l, language |-> lang]

(* _bind() and persist_listing(): a listing nobody has bound becomes a Work.     *)
Bind(l, lang, given, by) ==
  /\ given # Null \/ bound[l] # Null \/ FreshOne # {}
  /\ LET w == IF given # Null THEN given ELSE IF bound[l] # Null THEN bound[l] ELSE CHOOSE x \in FreshOne : TRUE
         d == Decision(l, w, by)
         ts == IF d.work = bound[l] THEN tracks ELSE Detached(l, tracks)
     IN /\ works' = works \cup {w} /\ spent' = spent \cup {w}
        /\ known' = known \cup {l}
        /\ bound' = [bound EXCEPT ![l] = d.work] /\ decided' = [decided EXCEPT ![l] = d.by]
        /\ \/ d.work = Null /\ tracks' = ts /\ UNCHANGED <<follows, lastId>>
           \/ d.work # Null /\ SameOf(l, lang, ts) # {} /\ tracks' = ts /\ UNCHANGED <<follows, lastId>>
           \/ /\ d.work # Null /\ SameOf(l, lang, ts) = {} /\ UnknownOf(l, lang, ts) # {}
              /\ \E t \in UnknownOf(l, lang, ts) :
                   /\ tracks' = (ts \ {t}) \cup {[t EXCEPT !.language = lang]}
                   /\ follows' = Relabelled(follows, t, lang)
              /\ UNCHANGED lastId
           \/ /\ d.work # Null /\ SameOf(l, lang, ts) = {} /\ UnknownOf(l, lang, ts) = {} /\ lastId < MaxId
              /\ tracks' = ts \cup {NewTrack(l, d.work, lang)} /\ lastId' = lastId + 1 /\ UNCHANGED follows
  /\ UNCHANGED <<mappings, imported, savedTables, restores>>

(* register_local_import(): a new Work with a local track.                       *)
ImportsWork(w) ==
  /\ w \in FreshOne /\ lastId < MaxId
  /\ works' = works \cup {w} /\ spent' = spent \cup {w} /\ imported' = imported \cup {w}
  /\ tracks' = tracks \cup {[id |-> lastId + 1, work |-> w, listing |-> Null, language |-> "local"]}
  /\ lastId' = lastId + 1
  /\ UNCHANGED <<bound, decided, known, follows, mappings, savedTables, restores>>

(* FollowService.follow(): one Follow for a Work and a language.                 *)
Follows(t) ==
  /\ t.language # "local"
  /\ follows' = {f \in follows : f.work # t.work \/ f.language # t.language}
                  \cup {[work |-> t.work, language |-> t.language, track |-> t.id]}
  /\ UNCHANGED <<works, bound, decided, known, tracks, mappings, imported, spent, savedTables, lastId, restores>>

-----------------------------------------------------------------------------
(* The user's mappings.                                                          *)

Row(kind, l, w) == [kind |-> kind, listing |-> l, work |-> w, made |-> w]

HasRoomToRecord == Cardinality(mappings) < MaxMappings

NeverMatch(l, w) ==
  /\ l \in known /\ w \in works /\ HasRoomToRecord
  /\ mappings' = mappings \cup {Row("never_match", l, w)}
  /\ UNCHANGED <<works, bound, decided, known, tracks, follows, imported, spent, savedTables, lastId, restores>>

Unlink(l) ==
  /\ l \in known /\ HasRoomToRecord
  /\ mappings' = mappings \cup {Row("unlink", l, w) : w \in {bound[l]} \ {Null}}
  /\ tracks' = Detached(l, tracks)
  /\ bound' = [bound EXCEPT ![l] = Null] /\ decided' = [decided EXCEPT ![l] = Null]
  /\ UNCHANGED <<works, known, follows, imported, spent, savedTables, lastId, restores>>

Split(l, w) ==
  /\ l \in known /\ w \in FreshOne /\ HasRoomToRecord
  /\ works' = works \cup {w} /\ spent' = spent \cup {w}
  /\ mappings' = mappings \cup {Row("split", l, x) : x \in {bound[l]} \ {Null}}
  /\ tracks' = {IF t.listing = l THEN [t EXCEPT !.work = w] ELSE t : t \in tracks}
  /\ bound' = [bound EXCEPT ![l] = w] /\ decided' = [decided EXCEPT ![l] = "user"]
  /\ UNCHANGED <<known, follows, imported, savedTables, lastId, restores>>

MovedTo(w, v, rows) == {IF r.work = v THEN [r EXCEPT !.work = w] ELSE r : r \in rows}

BothFollows(w, v) == MovedTo(w, v, follows)     \* mutant: both rows of a language stay
(* UPDATE OR IGNORE, then DELETE: where both follow a language, the first's row  *)
(* stands.                                                                       *)
JoinedFollows(w, v) ==
  {f \in follows : f.work # v}
    \cup MovedTo(w, v, {f \in follows : f.work = v /\ ~\E g \in follows : g.work = w /\ g.language = f.language})

(* merge(): everything of v becomes w's, and v is gone. A Work that an import    *)
(* names cannot be deleted (imports.work_id), so the statement fails and with it *)
(* the merge; two local tracks, refused before, are of two such Works.           *)
Merge(w, v) ==
  /\ w # v /\ w \in works /\ v \in works /\ v \notin imported
  /\ bound' = [l \in Listings |-> IF bound[l] = v THEN w ELSE bound[l]]
  /\ tracks' = MovedTo(w, v, tracks)
  /\ follows' = JoinedFollows(w, v)
  /\ mappings' = MovedTo(w, v, mappings)
  /\ works' = works \ {v}
  /\ UNCHANGED <<decided, known, imported, spent, savedTables, lastId, restores>>

(* reclassify.apply() to one track of an unknown language: it is relabelled, or  *)
(* joins its sibling, and its Follow with it.                                    *)
Reclassify(t) ==
  /\ t.language = "und"
  /\ LET twins == {u \in tracks : u.listing = t.listing /\ t.listing # Null /\ u.language = "en"} IN
     \/ /\ twins = {}
        /\ tracks' = (tracks \ {t}) \cup {[t EXCEPT !.language = "en"]}
        /\ follows' = Relabelled(follows, t, "en")
     \/ \E u \in twins :
          /\ tracks' = tracks \ {t}
          /\ follows' = {IF f.track = t.id THEN [f EXCEPT !.track = u.id, !.language = "en"] ELSE f :
                           f \in {g \in follows : g.track = t.id =>
                                    ~\E h \in follows \ {g} : h.work = g.work /\ h.language = "en"}}
  /\ UNCHANGED <<works, bound, decided, known, mappings, imported, spent, savedTables, lastId, restores>>

-----------------------------------------------------------------------------
(* Backup, and restore in Merge mode.                                            *)

Tables == [works |-> works, bound |-> bound, decided |-> decided, known |-> known, tracks |-> tracks,
           follows |-> follows, mappings |-> mappings, imported |-> imported]
BackUp ==
  /\ savedTables = Null /\ works # {}
  /\ savedTables' = Tables
  /\ UNCHANGED <<library, spent, lastId, restores>>

(* A new installation, with new ids.                                             *)
Reinstall ==
  /\ savedTables # Null /\ restores = 0
  /\ works' = {} /\ bound' = Nobody /\ decided' = Nobody /\ known' = {}
  /\ tracks' = {} /\ follows' = {} /\ mappings' = {} /\ imported' = {}
  /\ UNCHANGED <<spent, savedTables, lastId, restores>>

(* Replace mode: the backup's tables, and the Safety Snapshot is the backup that  *)
(* may be restored next.                                                         *)
RestoreReplace ==
  /\ savedTables # Null /\ restores = 0 /\ savedTables' = Tables
  /\ works' = savedTables.works /\ bound' = savedTables.bound /\ decided' = savedTables.decided /\ known' = savedTables.known
  /\ tracks' = savedTables.tracks /\ follows' = savedTables.follows /\ mappings' = savedTables.mappings /\ imported' = savedTables.imported
  /\ restores' = restores + 1
  /\ UNCHANGED <<spent, lastId>>

BoundAfter(l) == IF l \in known THEN bound[l] ELSE savedTables.bound[l]
(* A saved track goes where its listing is now, or is an archive.                *)
Placed(t) == IF t.listing = Null THEN t
             ELSE IF BoundAfter(t.listing) = Null THEN [t EXCEPT !.listing = Null]
             ELSE [t EXCEPT !.work = BoundAfter(t.listing)]
Standing(t) ==
  {u \in tracks : \/ t.listing # Null /\ u.listing = t.listing /\ u.language = t.language
                  \/ t.language = "local" /\ u.language = "local" /\ u.work = t.work
                  \/ u.id = t.id}
AddedTracks == {t \in {Placed(s) : s \in savedTables.tracks} : Standing(t) = {}}
LanguageInBackup(t) ==
  LET saved == {s \in savedTables.tracks : s.id = t.id /\ s.listing = t.listing}
  IN IF saved = {} THEN t ELSE [t EXCEPT !.language = (CHOOSE s \in saved : TRUE).language]
TracksRelabelled == {LanguageInBackup(t) : t \in tracks} \cup AddedTracks     \* mutant: the backup's language wins
TracksAfter == tracks \cup AddedTracks

(* The id a saved track has here: that of the track its keys find, or its own.   *)
IdOf(id) ==
  LET t == Placed(CHOOSE s \in savedTables.tracks : s.id = id)
      found == {u \in Standing(t) : u.listing = t.listing /\ u.language = t.language /\ u.work = t.work}
  IN IF found # {} THEN (CHOOSE u \in found : TRUE).id ELSE id

AddedFollows ==
  {f \in {[g EXCEPT !.track = IdOf(g.track)] : g \in savedTables.follows} :
     /\ \E t \in TracksAfter : t.id = f.track /\ t.work = f.work /\ t.language = f.language
     /\ ~\E g \in follows : g.work = f.work /\ g.language = f.language}

(* A backup's old exclusion must not undo the current library's mapping.         *)
IsWelcome(m) == BoundAfter(m.listing) # m.work
AddedMappings ==
  {m \in savedTables.mappings :
     IsWelcome(m) /\ ~\E n \in mappings : (n.kind = m.kind /\ n.listing = m.listing /\ n.made = m.made) \/ n = [m EXCEPT !.made = n.made]}

(* RestoreService._merge(): what is here stands, and what is missing is added.   *)
RestoreMerge ==
  /\ savedTables # Null /\ restores < MaxRestores
  /\ works' = works \cup savedTables.works
  /\ bound' = [l \in Listings |-> BoundAfter(l)]
  /\ decided' = [l \in Listings |-> IF l \in known THEN decided[l] ELSE savedTables.decided[l]]
  /\ known' = known \cup savedTables.known
  /\ tracks' = TracksAfter
  /\ follows' = follows \cup AddedFollows
  /\ mappings' = mappings \cup AddedMappings
  /\ imported' = imported \cup savedTables.imported
  /\ restores' = restores + 1
  /\ UNCHANGED <<spent, savedTables, lastId>>

Refreshes == \E l \in Listings, lang \in Languages, w \in works \cup {Null} : Bind(l, lang, w, "evidence")
Decides == \/ \E l \in Listings, lang \in Languages, w \in works \cup {Null} : Bind(l, lang, w, "user")
           \/ \E l \in Listings, w \in Works : NeverMatch(l, w) \/ Split(l, w)
           \/ \E l \in Listings : Unlink(l)
           \/ \E w, v \in Works : Merge(w, v)

IdentityNext ==
  \/ Refreshes \/ Decides \/ BackUp \/ Reinstall \/ RestoreReplace \/ RestoreMerge
  \/ \E w \in Works : ImportsWork(w)
  \/ \E t \in tracks : Follows(t) \/ Reclassify(t)

IdentitySpec == IdentityInit /\ [][IdentityNext]_identityVars

-----------------------------------------------------------------------------
(* Properties.                                                                   *)

(* A live track is on the Work its listing belongs to, whatever was merged,      *)
(* split, unlinked, moved or restored: units and progress are never shown under  *)
(* a Work their listing has left.                                                *)
LiveTracksFollowTheirListing ==
  \A t \in tracks : t.listing # Null => t.listing \in known /\ bound[t.listing] = t.work

(* "One listing, one language, one track" (grouping.py, persist_listing): and    *)
(* one Follow for each Work and language, as the unique keys demand, so that no  *)
(* statement of any of these operations is refused.                              *)
OneOfEach ==
  /\ \A t, u \in tracks : t # u /\ t.listing # Null /\ t.listing = u.listing => t.language # u.language
  /\ \A t, u \in tracks : t # u /\ t.language = "local" /\ u.language = "local" => t.work # u.work
  /\ \A f, g \in follows : f # g => f.work # g.work \/ f.language # g.language

(* What is bound is bound to a pair the user has not forbidden: only the user's  *)
(* own merge, which turns two Works into one, binds what was blocked.            *)
BlockedIsNotBound ==
  [][\A l \in Listings : bound'[l] # bound[l] /\ bound'[l] # Null /\ l \in known /\ ~RestoreReplace
       => ~Blocked(l, bound'[l]) \/ bound[l] \notin works']_identityVars

(* Evidence moves no listing to another Work against the user's decision.        *)
EvidenceYields ==
  [][Refreshes => \A l \in Listings : decided[l] = "user" => bound'[l] \in {bound[l], Null}]_identityVars

(* A restore in Merge mode changes no mapping, track or Follow that is here, and *)
(* brings no exclusion that would undo a current mapping later                   *)
(* (docs/operations.md:108, restore/service.py:303).                             *)
RestoreKeepsDecisions ==
  [][RestoreMerge => \A l \in known :
       /\ bound'[l] = bound[l] /\ tracks \subseteq tracks' /\ follows \subseteq follows'
       /\ (\E m \in mappings' : m.listing = l /\ m.work = bound[l]) => Blocked(l, bound[l])]_identityVars

(* An "und" track is upgraded, never twinned (I-94): binding a listing leaves    *)
(* it with an unknown and a known language only if it was so before.             *)
Twinned(l) == \E t, u \in Siblings(l, tracks) : t.language = "und" /\ u.language # "und"
NeverTwinned ==
  [][restores' = restores => \A l \in Listings : Twinned(l)' => Twinned(l)]_identityVars

(* "Durable user decisions about identity; they always win over source           *)
(* refreshes" (docs/api.md:59): a refresh never takes a listing from a Work the  *)
(* user put it in, unless the user unlinked it from there or forbade the match.  *)
DecisionsWin ==
  [][Refreshes => \A l \in Listings :
       (decided[l] = "user" /\ \A m \in mappings : m.listing = l /\ m.work = bound[l] => m.kind = "split")
         => bound'[l] = bound[l]]_identityVars
=============================================================================
