------------------------------ MODULE SampleData ------------------------------
(***************************************************************************)
(* download_nyc_taxi fills a data directory month by month and writes its  *)
(* manifest last, while an ingest may expand the pattern of the source and *)
(* land the files it found. A download may fail or be killed anywhere; it  *)
(* is repeated with --force.                                               *)
(***************************************************************************)
EXTENDS Integers, FiniteSets

CONSTANTS
  Months,        \* months that can be asked for, in their order
  MaxDownloads   \* bound: downloads, which also tells their files apart

ASSUME SampleConstants == Months \subseteq Nat /\ MaxDownloads \in Nat

VARIABLES
  trips,       \* trips[m]: yellow_tripdata_<m>.parquet, by which download and how whole
  partial,     \* months with a .partial beside them
  manifest,    \* the months manifest.json names, with the download it is of
  download,    \* [at, asked, left] of the download under way
  downloads,   \* downloads begun
  matched,     \* the files an ingest has still to read
  landed       \* what it has read

sampleVars == <<trips, partial, manifest, download, downloads, matched, landed>>

NoDownload == 0
Files == [of : 0..MaxDownloads, whole : BOOLEAN]
NoFile == [of |-> NoDownload, whole |-> FALSE]
Present == {m \in Months : trips[m] # NoFile}

SampleTypeOK ==
  /\ trips \in [Months -> Files]
  /\ partial \in SUBSET Months
  /\ manifest \in [of : 0..MaxDownloads, months : SUBSET Months]
  /\ download \in [at : {"none", "clearing", "fetching", "writing", "listing"},
                   asked : SUBSET Months, left : SUBSET Months]
  /\ downloads \in 0..MaxDownloads
  /\ matched \in SUBSET Months
  /\ landed \in SUBSET (Months \X Files)

NoneUnderWay == [at |-> "none", asked |-> {}, left |-> {}]
NoManifest == [of |-> NoDownload, months |-> {}]

SampleInit ==
  /\ trips = [m \in Months |-> NoFile]
  /\ partial = {} /\ manifest = NoManifest
  /\ download = NoneUnderWay /\ downloads = 0
  /\ matched = {} /\ landed = {}

ingesting == <<matched, landed>>
DirectoryEmpty == Present = {} /\ partial = {} /\ manifest = NoManifest

\* _require_replaceable: without --force only into an empty directory.
Replaceable(force) == force \/ DirectoryEmpty

BeginDownload ==
  /\ download.at = "none" /\ downloads < MaxDownloads
  /\ \E force \in BOOLEAN, asked \in (SUBSET Months) \ {{}} :
       /\ Replaceable(force)
       /\ download' = [at |-> "clearing", asked |-> asked, left |-> asked]
  /\ downloads' = downloads + 1
  /\ UNCHANGED <<trips, partial, manifest, ingesting>>

\* shutil.rmtree, entry by entry and in no order of ours.
Removed ==
  \/ \E m \in Present : trips' = [trips EXCEPT ![m] = NoFile] /\ UNCHANGED <<partial, manifest>>
  \/ \E m \in partial : partial' = partial \ {m} /\ UNCHANGED <<trips, manifest>>
  \/ manifest # NoManifest /\ manifest' = NoManifest /\ UNCHANGED <<trips, partial>>

RemoveEntry ==
  /\ download.at = "clearing"
  /\ IF DirectoryEmpty
     THEN download' = [download EXCEPT !.at = "fetching"] /\ UNCHANGED <<trips, partial, manifest>>
     ELSE Removed /\ UNCHANGED download
  /\ UNCHANGED <<downloads, ingesting>>

Earliest(S) == CHOOSE m \in S : \A n \in S : m <= n

OpenInPlace ==   \* a slip: straight into the file
  /\ download.at = "fetching"
  /\ IF download.left = {}
     THEN download' = [download EXCEPT !.at = "listing"] /\ UNCHANGED <<partial, trips>>
     ELSE /\ partial' = partial \cup {Earliest(download.left)}
          /\ trips' = [trips EXCEPT ![Earliest(download.left)] = [of |-> downloads, whole |-> FALSE]]
          /\ download' = [download EXCEPT !.at = "writing"]
  /\ UNCHANGED <<manifest, downloads, ingesting>>

\* _download: into a file whose name the pattern of the source does not match.
OpenPartial ==
  /\ download.at = "fetching"
  /\ IF download.left = {}
     THEN download' = [download EXCEPT !.at = "listing"] /\ UNCHANGED partial
     ELSE /\ partial' = partial \cup {Earliest(download.left)}
          /\ download' = [download EXCEPT !.at = "writing"]
  /\ UNCHANGED <<trips, manifest, downloads, ingesting>>

\* partial.replace(destination)
ReplaceByPartial ==
  /\ download.at = "writing"
  /\ LET m == Earliest(download.left) IN
       /\ trips' = [trips EXCEPT ![m] = [of |-> downloads, whole |-> TRUE]]
       /\ partial' = partial \ {m}
       /\ download' = [download EXCEPT !.at = "fetching", !.left = @ \ {m}]
  /\ UNCHANGED <<manifest, downloads, ingesting>>

\* The lookup and the row counts come before it.
WriteDataManifest ==
  /\ download.at = "listing"
  /\ manifest' = [of |-> downloads, months |-> download.asked]
  /\ download' = NoneUnderWay
  /\ UNCHANGED <<trips, partial, downloads, ingesting>>

\* An OSError removes the .partial; a killed process leaves it.
FailDownload ==
  /\ download.at # "none"
  /\ partial' \in {partial} \cup (IF download.at = "writing" THEN {partial \ {Earliest(download.left)}} ELSE {})
  /\ download' = NoneUnderWay
  /\ UNCHANGED <<trips, manifest, downloads, ingesting>>

\* _source_files, then one statement that reads the files one after another
\* and raises when one of them is gone.
MatchFiles ==
  /\ matched = {} /\ Present # {}
  /\ matched' = Present /\ landed' = {}
  /\ UNCHANGED <<trips, partial, manifest, download, downloads>>

ReadFile ==
  /\ matched # {}
  /\ LET m == Earliest(matched) IN
       IF trips[m] = NoFile
       THEN matched' = {} /\ landed' = {}
       ELSE matched' = matched \ {m} /\ landed' = landed \cup {<<m, trips[m]>>}
  /\ UNCHANGED <<trips, partial, manifest, download, downloads>>

SampleNext ==
  \/ BeginDownload \/ RemoveEntry \/ OpenPartial \/ ReplaceByPartial
  \/ WriteDataManifest \/ FailDownload
  \/ MatchFiles \/ ReadFile

SampleSpec == SampleInit /\ [][SampleNext]_sampleVars

-----------------------------------------------------------------------------
(* As long as no later download has begun, a manifest tells of files that  *)
(* are all there and whole (a later one that is killed while it clears the  *)
(* directory may leave the old manifest and not its files); and whatever an *)
(* ingest lands beside a download, no file of it is half-written.           *)
FilesAreWhole ==
  /\ manifest # NoManifest /\ downloads = manifest.of =>
       \A m \in Months :
         trips[m] = IF m \in manifest.months THEN [of |-> manifest.of, whole |-> TRUE] ELSE NoFile
  /\ \A r \in landed : r[2].whole
=============================================================================
