----------------------------- MODULE FileRetrieval -----------------------------
(* A download job fetches one whole file (downloads/engine.py, _download_file;   *)
(* net/http.py, stream_to): attempts that break off leave a part of the file in  *)
(* the staging area, and a later one asks the site only for the rest, while the  *)
(* site replaces the file by new versions and understands ranges in its own way. *)
EXTENDS Naturals, Sequences, SequencesExt

CONSTANTS
  LastVersion,      \* bound: versions of the file at the site, 1 to LastVersion, one after another
  FileLength,       \* chunks of each version
  UnsoundVersions,  \* versions that do not pass validation
  MaxChunks,        \* MAX_RESOURCE_BYTES, in chunks
  FileSites,        \* how a site may answer: [tagged, sized, ranges]
  NoPart,           \* there is no file in the staging area
  MaxFileAttempts,  \* bound: attempts
  MaxFileFaults     \* bound: failures of the connection, of the site and of the commit, and stops

ASSUME FilesAssumption ==
  /\ LastVersion \in Nat \ {0} /\ FileLength \in [1 .. LastVersion -> Nat] /\ MaxChunks \in Nat
  /\ MaxFileAttempts \in Nat /\ MaxFileFaults \in Nat
  /\ FileSites \subseteq [tagged : BOOLEAN, sized : BOOLEAN,
                         ranges : {"none", "honest", "terse", "careless", "silent", "shifted"}]
  /\ NoPart \notin Seq((1 .. LastVersion) \X Nat)

VARIABLES
  fileSite,         \* tagged: sends ETag or Last-Modified; sized: sends the length; ranges: see FileAnswer
  online,           \* the version the site has now
  stagedFile,           \* artifact.bin: the chunks in it, or NoPart
  fileState,        \* manifest "file" as saved: validator and expected, 0 when unknown
  attempt,          \* the attempt under way
  fileAttempts, fileFaults

fileVars == <<fileSite, online, stagedFile, fileState, attempt, fileAttempts, fileFaults>>

FileVersions == 1 .. LastVersion
Chunk(v, n) == <<v, n>>
Body(v) == [n \in 1 .. FileLength[v] |-> Chunk(v, n)]
StagedSize == IF stagedFile = NoPart THEN 0 ELSE Len(stagedFile)
NothingKnown == [validator |-> 0, expected |-> 0]
NoAttempt == [pc |-> "queued", rest |-> FALSE, offset |-> 0, of |-> 0, told |-> NothingKnown]

FileInit ==
  /\ fileSite \in FileSites /\ online = 1
  /\ stagedFile = NoPart /\ fileState = NothingKnown
  /\ attempt = NoAttempt /\ fileAttempts = 0 /\ fileFaults = 0

FileTypeOK ==
  /\ fileSite \in FileSites /\ online \in FileVersions
  /\ stagedFile # NoPart => \A n \in 1 .. Len(stagedFile) : stagedFile[n] \in FileVersions \X (1 .. MaxChunks)
  /\ fileState \in [validator : 0 .. LastVersion, expected : Nat]
  /\ attempt.pc \in {"queued", "ask", "body", "verify", "commit", "done"}

-----------------------------------------------------------------------------
(* Only a part known to be short of its known total is continued.                *)
FileResumable == fileState.validator # 0 /\ fileState.expected # 0 /\ StagedSize > 0 /\ StagedSize < fileState.expected

StartAttempt ==
  /\ attempt.pc = "queued" /\ fileAttempts < MaxFileAttempts
  /\ attempt' = [NoAttempt EXCEPT !.pc = "ask", !.rest = FileResumable]
  /\ fileAttempts' = fileAttempts + 1
  /\ UNCHANGED <<fileSite, online, stagedFile, fileState, fileFaults>>

(* What the site answers when it does not refuse. Asked for the rest of a        *)
(* version, it may know no ranges; keep to the condition, repeating the version  *)
(* or not ("terse"); send a range whatever the version, saying which             *)
(* ("careless") or not ("silent"); or send another range ("shifted").            *)
Answer200 == [status |-> 200, offset |-> 0, tag |-> IF fileSite.tagged THEN online ELSE 0,
              total |-> IF fileSite.sized THEN FileLength[online] ELSE 0]
Answer206(from, tag) == [status |-> 206, offset |-> from, tag |-> tag, total |-> FileLength[online]]
Answer416 == [Answer200 EXCEPT !.status = 416]
Refusal == [Answer200 EXCEPT !.status = 503]

FileAnswer ==
  LET InRange == StagedSize < FileLength[online] IN
  IF ~attempt.rest \/ fileSite.ranges = "none" THEN Answer200
  ELSE IF fileSite.ranges = "shifted" THEN Answer206(0, online)
  ELSE IF fileSite.ranges \in {"honest", "terse"} /\ online # fileState.validator THEN Answer200
  ELSE IF ~InRange THEN Answer416
  ELSE Answer206(StagedSize, IF fileSite.ranges \in {"terse", "silent"} THEN 0 ELSE online)
FileAnswers == {FileAnswer} \cup (IF fileFaults < MaxFileFaults THEN {Refusal} ELSE {})

(* A part is continued only from where it ends and by the version it is of.      *)
ContinuesAnything(a) == attempt.rest /\ a.status = 206 /\ a.offset = StagedSize     \* mutant: of any version
ContinuesPart(a) ==
  /\ attempt.rest /\ a.status = 206
  /\ a.offset = StagedSize /\ a.tag \in {0, fileState.validator}

(* An answer to a request for the rest that is not the rest: ask for the whole.  *)
OnlyOtherRange(a) == attempt.rest /\ ~ContinuesPart(a) /\ a.status = 206       \* mutant: 416 is an error
AsksAnew(a) == attempt.rest /\ ~ContinuesPart(a) /\ a.status \in {206, 416}

(* The headers arrive; the file is opened, emptied unless it is continued.       *)
HeadersArrive ==
  /\ attempt.pc = "ask"
  /\ LET a == FileAnswer IN
     \/ /\ AsksAnew(a)
        /\ attempt' = [attempt EXCEPT !.rest = FALSE]
        /\ UNCHANGED stagedFile
     \/ /\ a.status = 200 \/ ContinuesPart(a)
        /\ attempt' = [attempt EXCEPT !.pc = "body", !.of = online, !.offset = IF ContinuesPart(a) THEN a.offset ELSE 0,
                                      !.told = [validator |-> a.tag, expected |-> a.total]]
        /\ stagedFile' = IF ContinuesPart(a) THEN stagedFile ELSE <<>>
  /\ UNCHANGED <<fileSite, online, fileState, fileAttempts, fileFaults>>

ChunkArrives ==
  /\ attempt.pc = "body" /\ Len(stagedFile) < FileLength[attempt.of] /\ Len(stagedFile) < MaxChunks
  /\ stagedFile' = Append(stagedFile, Chunk(attempt.of, attempt.offset + 1))
  /\ attempt' = [attempt EXCEPT !.offset = @ + 1]
  /\ UNCHANGED <<fileSite, online, fileState, fileAttempts, fileFaults>>

(* The body ends, for a connection without a length also when it is cut off: what*)
(* was told of the file is saved.                                                *)
BodyEnds ==
  /\ attempt.pc = "body"
  /\ attempt.offset = FileLength[attempt.of] \/ ~fileSite.sized
  /\ fileState' = attempt.told
  /\ attempt' = [NoAttempt EXCEPT !.pc = "verify"]
  /\ UNCHANGED <<fileSite, online, stagedFile, fileAttempts, fileFaults>>

(* validate() refuses an unsound version; of an incomplete file it may not.      *)
FileVerified ==
  /\ attempt.pc = "verify" /\ \A v \in UnsoundVersions : stagedFile # Body(v)
  /\ attempt' = [attempt EXCEPT !.pc = "commit"]
  /\ UNCHANGED <<fileSite, online, stagedFile, fileState, fileAttempts, fileFaults>>

(* Bytes known to be bad are not built on.                                       *)
FoundBad ==
  /\ attempt.pc = "verify" /\ \A v \in FileVersions \ UnsoundVersions : stagedFile # Body(v)
  /\ stagedFile' = NoPart /\ fileState' = NothingKnown /\ attempt' = NoAttempt
  /\ UNCHANGED <<fileSite, online, fileAttempts, fileFaults>>

FileCommitted ==
  /\ attempt.pc = "commit"
  /\ attempt' = [attempt EXCEPT !.pc = "done"] /\ stagedFile' = NoPart
  /\ UNCHANGED <<fileSite, online, fileState, fileAttempts, fileFaults>>

-----------------------------------------------------------------------------
(* The answer is no file: the attempt fails, "unexpected_response".              *)
UnexpectedResponse ==
  /\ attempt.pc = "ask"
  /\ \E a \in FileAnswers :
       /\ a.status # 200 /\ ~ContinuesPart(a) /\ ~AsksAnew(a)
       /\ fileFaults' = IF a = Refusal THEN fileFaults + 1 ELSE fileFaults
  /\ attempt' = NoAttempt
  /\ UNCHANGED <<fileSite, online, stagedFile, fileState, fileAttempts>>

(* A body past the limit: what of it fits stays.                                 *)
TooLarge ==
  /\ attempt.pc = "body" /\ Len(stagedFile) = MaxChunks /\ attempt.offset < FileLength[attempt.of]
  /\ attempt' = NoAttempt
  /\ UNCHANGED <<fileSite, online, stagedFile, fileState, fileAttempts, fileFaults>>

(* The connection breaks, the commit fails or the process stops: the job is      *)
(* queued again, the part and the manifest stay.                                 *)
AttemptBreaks ==
  /\ attempt.pc \in {"body", "verify", "commit"} /\ fileFaults < MaxFileFaults
  /\ attempt' = NoAttempt /\ fileFaults' = fileFaults + 1
  /\ UNCHANGED <<fileSite, online, stagedFile, fileState, fileAttempts>>

(* retry_job() forgets what the manifest says of the file; the part stays,       *)
(* unless cancel_job() deleted it before.                                        *)
UserRetries ==
  /\ attempt.pc = "queued" /\ stagedFile # NoPart
  /\ fileState' = NothingKnown /\ stagedFile' \in {stagedFile, NoPart}
  /\ UNCHANGED <<fileSite, online, attempt, fileAttempts, fileFaults>>

SiteReplacesFile ==
  /\ online < LastVersion /\ online' = online + 1
  /\ UNCHANGED <<fileSite, stagedFile, fileState, attempt, fileAttempts, fileFaults>>

AttemptSteps ==
  \/ StartAttempt \/ HeadersArrive \/ ChunkArrives \/ BodyEnds
  \/ FileVerified \/ FoundBad \/ FileCommitted
  \/ UnexpectedResponse \/ TooLarge \/ AttemptBreaks
FileNext == AttemptSteps \/ UserRetries \/ SiteReplacesFile

-----------------------------------------------------------------------------
(* "two versions are never spliced" (stream_to): what is in the staging area is  *)
(* the beginning of one version, whatever attempts, sites and versions it took.  *)
NeverSpliced == stagedFile # NoPart => \E v \in FileVersions : IsPrefix(stagedFile, Body(v))

(* A file that got shorter, or a range answered wrongly, is no failure of the    *)
(* site: an attempt ends at its request only by a refusal.                       *)
RangesNeverFail ==
  [][attempt.pc = "ask" /\ attempt' = NoAttempt => fileFaults' > fileFaults]_fileVars
=============================================================================
