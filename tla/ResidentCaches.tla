--------------------------- MODULE ResidentCaches ---------------------------
(***************************************************************************)
(* What a resident compiler keeps of its classpath between runs            *)
(* (typer/src/javaclass.rs): archive indexes, evicted least recently used  *)
(* first; the class bytes read from them, class files and listings of      *)
(* directories and parsed classes, which share one budget and are dropped  *)
(* together when it is spent.  Files are rewritten by others at any time;  *)
(* an entry is used while the file's stamp is the one it was kept under.   *)
(*                                                                         *)
(* A file is the number of its last change, which decides its contents and *)
(* its size.  Its stamp (size, inode, mtime and ctime) is the number of the *)
(* change that gave it that stamp: a later change in the same instant of   *)
(* the file system's clock may leave the stamp as it is, if it leaves the  *)
(* size.  One class stands for those of an archive.                        *)
(***************************************************************************)
EXTENDS Integers, Sequences, FiniteSets, SequencesExt, FiniteSetsExt

CONSTANTS
  Archives,       \* archives of the classpath
  ClassFiles,     \* class files in directories of the classpath
  Listings,       \* directories, of which the names are listed
  ArchiveLimit,   \* RESIDENT_ARCHIVE_LIMIT
  ClassLimit,     \* RESIDENT_CLASS_LIMIT
  LargestKept,    \* a sixteenth of it: what is larger is not kept
  MaxRewrites,    \* bound: rewrites of files
  MaxLookups      \* bound: lookups of a behaviour

ASSUME ResidentCachesConstants ==
  /\ ArchiveLimit \in Nat /\ ClassLimit \in Nat /\ LargestKept \in 0..ClassLimit
  /\ MaxRewrites \in Nat /\ MaxLookups \in Nat
  /\ IsFiniteSet(Archives) /\ IsFiniteSet(ClassFiles) /\ IsFiniteSet(Listings)

DirEntries == ClassFiles \cup Listings
OnDisk == Archives \cup DirEntries
None == -1

VARIABLES
  version,    \* each file's last change
  fileStamp,  \* each file's stamp
  justChanged, \* the files changed in this instant of the clock
  byPath,     \* ResidentArchives::by_path, with the order they were used in
  totalBytes, \* ResidentArchives::total_bytes
  kept,       \* ResidentDirectories: files and listings
  parsed,     \* RESIDENT_PARSED: the contents parsed
  classBytes, \* RESIDENT_CLASS_BYTES
  index,      \* the run's BinaryIndex: each archive's stamp and what was opened
  reading,    \* a directory entry that has been stamped, and what was read of it
  answered,   \* the last answer: what it was about and since when it must hold
  lookups     \* lookups so far

filesOnDisk == <<version, fileStamp, justChanged>>
cachesVars ==
  <<filesOnDisk, byPath, totalBytes, kept, parsed, classBytes, index, reading, answered, lookups>>

NoArchive == [stamp |-> None, content |-> None, used |-> 0, class |-> FALSE]
NotOpened == [stamp |-> None, content |-> None, resident |-> FALSE, class |-> FALSE]
NoReading == [file |-> "", stamp |-> None, content |-> None]
NoAnswer == [file |-> "", content |-> None, since |-> None]
NotKept == [stamp |-> None, content |-> None]

\* The size of the contents that a change leaves: every other change leaves it.
SizeOf(content) == 1 + (((content + 1) \div 2) % 2)

CachesInit ==
  /\ version = [f \in OnDisk |-> 0] /\ fileStamp = version /\ justChanged = {}
  /\ byPath = [a \in Archives |-> NoArchive] /\ totalBytes = 0
  /\ kept = [f \in DirEntries |-> NotKept] /\ parsed = {} /\ classBytes = 0
  /\ index = [a \in Archives |-> NotOpened]
  /\ reading = NoReading /\ answered = NoAnswer /\ lookups = 0

Held(c) == {a \in Archives : c[a].stamp # None}

\* from_user_paths: a run lists its classpath and takes the archives' stamps.
\* What the run before had opened goes with it.
ListClasspath ==
  /\ reading = NoReading
  /\ index' = [a \in Archives |-> [NotOpened EXCEPT !.stamp = fileStamp[a]]]
  /\ index' # index
  /\ answered' = NoAnswer
  /\ UNCHANGED <<filesOnDisk, byPath, totalBytes, kept, parsed, classBytes, reading, lookups>>

\* cached_archive finds the archive under the stamp of this run.
ArchiveHit(a) == byPath[a].stamp # None /\ byPath[a].stamp = index[a].stamp

LastTick == Max({byPath[a].used : a \in Archives} \cup {0})

\* A hit is the last use.
TouchArchive(a) == [byPath EXCEPT ![a].used = LastTick + 1]

\* The bytes of the entries of S, one by one, and their number.
ByteSet(S, size) == UNION {{x} \X (1..size[x]) : x \in S}
Bytes(S, size) == Cardinality(ByteSet(S, size))

\* The size of each entry of a cache.
Sizes(cache) == [x \in DOMAIN cache |-> SizeOf(cache[x].content)]

ArchiveBytes(cache, S) == Bytes(S, Sizes(cache))

\* What must go before so many bytes fit: the fewest entries, least recently
\* used first, or all of them.
Evicted(cache, total, bytes) ==
  LET Goes(S) == /\ \A a \in S, b \in Held(cache) \ S : cache[a].used < cache[b].used
                 /\ \/ total - ArchiveBytes(cache, S) + bytes <= ArchiveLimit
                    \/ S = Held(cache)
  IN  CHOOSE S \in SUBSET Held(cache) :
        Goes(S) /\ \A T \in SUBSET Held(cache) : Goes(T) => S \subseteq T

Evict(cache, total, bytes) ==
  LET gone == Evicted(cache, total, bytes) IN
  [cache |-> [a \in Archives |-> IF a \in gone THEN NoArchive ELSE cache[a]],
   total |-> total - ArchiveBytes(cache, gone)]

\* remember_archive
RememberArchive(cache, total, a, stamp, content) ==
  LET room == Evict(cache, total, SizeOf(content)) IN
  IF SizeOf(content) > ArchiveLimit THEN [cache |-> cache, total |-> total]
  ELSE [cache |-> [room.cache EXCEPT ![a] = [stamp |-> stamp, content |-> content,
                                             used |-> LastTick + 1, class |-> FALSE]],
        total |-> room.total + SizeOf(content)]

\* load_zip, when the run needs the archive for the first time.  What it reads
\* is kept under the stamp of the listing.  An entry under another stamp goes.
OpenArchive(a) ==
  /\ reading = NoReading /\ lookups < MaxLookups
  /\ index[a].stamp # None /\ index[a].content = None
  /\ lookups' = lookups + 1
  /\ IF ArchiveHit(a)
     THEN /\ byPath' = TouchArchive(a) /\ UNCHANGED totalBytes
          /\ index' = [index EXCEPT ![a].content = byPath[a].content,
                                    ![a].resident = TRUE, ![a].class = byPath[a].class]
     ELSE LET gone == byPath[a].stamp # None
              left == [byPath EXCEPT ![a] = NoArchive]
              total == totalBytes - (IF gone THEN SizeOf(byPath[a].content) ELSE 0)
              new == RememberArchive(left, total, a, index[a].stamp, version[a])
          IN  /\ byPath' = new.cache /\ totalBytes' = new.total
              /\ index' = [b \in Archives |->
                   IF b = a THEN [index[a] EXCEPT !.content = version[a],
                                    !.resident = new.cache[a].stamp # None]
                   ELSE [index[b] EXCEPT !.resident = @ /\ new.cache[b].stamp # None]]
  /\ answered' = NoAnswer
  /\ UNCHANGED <<filesOnDisk, kept, parsed, classBytes, reading>>

\* reserve_resident_class_bytes: whether so many bytes may be kept, and what is
\* counted then, after everything kept has been dropped if they do not fit.
MayKeep(bytes) == bytes <= LargestKept
Overflows(bytes) == classBytes + bytes > ClassLimit
NewClassBytes(bytes) == IF Overflows(bytes) THEN bytes ELSE classBytes + bytes

\* Mutant: the parsed classes survive.
ClearAllButParsed(bytes, cache, files, classes) ==
  IF ~Overflows(bytes) THEN [cache |-> cache, files |-> files, classes |-> classes]
  ELSE [cache |-> [a \in Archives |-> [cache[a] EXCEPT !.class = FALSE]],
        files |-> [f \in DirEntries |-> NotKept], classes |-> classes]

\* clear_resident_classes
Clear(bytes, cache, files, classes) ==
  IF ~Overflows(bytes) THEN [cache |-> cache, files |-> files, classes |-> classes]
  ELSE [cache |-> [a \in Archives |-> [cache[a] EXCEPT !.class = FALSE]],
        files |-> [f \in DirEntries |-> NotKept], classes |-> {}]

\* The classes of an index are shared with the cache as long as it is in there.
Shared(cache) ==
  [a \in Archives |-> IF index[a].resident THEN [index[a] EXCEPT !.class = cache[a].class]
                      ELSE index[a]]

\* find_class in an archive that is open: from the classes kept with the index,
\* or from the archive's bytes, which are in memory.
FindInArchive(a) ==
  /\ reading = NoReading /\ lookups < MaxLookups /\ index[a].content # None
  /\ lookups' = lookups + 1
  /\ answered' = [file |-> a, content |-> index[a].content, since |-> index[a].stamp]
  /\ IF index[a].class \/ ~MayKeep(SizeOf(index[a].content)) THEN UNCHANGED <<byPath, kept, parsed, classBytes, index>>
     ELSE LET size == SizeOf(index[a].content)
              now == Clear(size, byPath, kept, parsed)
              cache == IF index[a].resident THEN [now.cache EXCEPT ![a].class = TRUE]
                       ELSE now.cache
          IN  /\ byPath' = cache /\ kept' = now.files /\ parsed' = now.classes
              /\ classBytes' = NewClassBytes(size)
              /\ index' = [Shared(cache) EXCEPT ![a].class = TRUE]
  /\ UNCHANGED <<filesOnDisk, totalBytes, reading>>

\* read_directory_class and list_directory: the stamp is taken first.
StampEntry(f) ==
  /\ reading = NoReading /\ lookups < MaxLookups
  /\ lookups' = lookups + 1
  /\ IF kept[f].stamp = fileStamp[f]
     THEN /\ answered' = [file |-> f, content |-> kept[f].content, since |-> fileStamp[f]]
          /\ UNCHANGED reading
     ELSE /\ reading' = [file |-> f, stamp |-> fileStamp[f], content |-> None]
          /\ answered' = NoAnswer
  /\ UNCHANGED <<filesOnDisk, byPath, totalBytes, kept, parsed, classBytes, index>>

\* What was read is the answer, and is kept under a stamp if it has settled and
\* there is room.
KeepEntry(stamp, content, settled) ==
  LET f == reading.file  size == SizeOf(content)  now == Clear(size, byPath, kept, parsed) IN
  /\ answered' = [file |-> f, content |-> content, since |-> reading.stamp]
  /\ IF ~settled \/ ~MayKeep(size)
     THEN UNCHANGED <<byPath, kept, parsed, classBytes, index>>
     ELSE /\ byPath' = now.cache /\ parsed' = now.classes
          /\ kept' = [now.files EXCEPT ![f] = [stamp |-> stamp, content |-> content]]
          /\ classBytes' = NewClassBytes(size) /\ index' = Shared(now.cache)
  /\ reading' = NoReading
  /\ UNCHANGED <<filesOnDisk, totalBytes, lookups>>

\* read_directory_class: what was read must have the size of the stamp.
ReadClassFile ==
  /\ reading # NoReading /\ reading.file \in ClassFiles
  /\ LET content == version[reading.file] IN
     KeepEntry(reading.stamp, content, SizeOf(content) = SizeOf(reading.stamp))

\* list_directory reads the names,
ReadListing ==
  /\ reading # NoReading /\ reading.file \in Listings /\ reading.content = None
  /\ reading' = [reading EXCEPT !.content = version[reading.file]]
  /\ UNCHANGED <<filesOnDisk, byPath, totalBytes, kept, parsed, classBytes, index, answered, lookups>>

\* Mutant: they are kept under the stamp that the directory has by now.
SettleUnderNow ==
  /\ reading # NoReading /\ reading.content # None
  /\ KeepEntry(fileStamp[reading.file], reading.content, TRUE)

\* and keeps them if the directory's stamp is still the same.
SettleListing ==
  /\ reading # NoReading /\ reading.content # None
  /\ KeepEntry(reading.stamp, reading.content, fileStamp[reading.file] = reading.stamp)

\* parse_classfile_resident: by content, and counted twice over.
ParseAnswer ==
  /\ reading = NoReading /\ answered # NoAnswer /\ answered.file \notin Listings
  /\ <<answered.file, answered.content>> \notin parsed
  /\ LET size == 2 * SizeOf(answered.content)  now == Clear(size, byPath, kept, parsed) IN
     /\ MayKeep(size)
     /\ byPath' = now.cache /\ kept' = now.files
     /\ parsed' = now.classes \cup {<<answered.file, answered.content>>}
     /\ classBytes' = NewClassBytes(size) /\ index' = Shared(now.cache)
  /\ UNCHANGED <<filesOnDisk, totalBytes, reading, answered, lookups>>

Rewrites == MapThenSumSet(LAMBDA g : version[g], OnDisk)

\* Someone else changes a file.  It gets a new stamp, unless it has changed in
\* this instant already and keeps its size; a directory's is not that of its names.
Rewrite(f) ==
  /\ Rewrites < MaxRewrites
  /\ version' = [version EXCEPT ![f] = @ + 1]
  /\ justChanged' = justChanged \cup {f}
  /\ \/ fileStamp' = [fileStamp EXCEPT ![f] = version'[f]]
     \/ /\ f \in justChanged
        /\ f \in Listings \/ SizeOf(version'[f]) = SizeOf(version[f])
        /\ UNCHANGED fileStamp
  /\ UNCHANGED <<byPath, totalBytes, kept, parsed, classBytes, index, reading, answered, lookups>>

\* The clock of the file system goes on.
ClockTick ==
  /\ justChanged # {}
  /\ justChanged' = {}
  /\ UNCHANGED <<version, fileStamp, byPath, totalBytes, kept, parsed, classBytes, index, reading,
                 answered, lookups>>

CachesNext ==
  \/ ListClasspath \/ ReadClassFile \/ ReadListing \/ SettleListing \/ ParseAnswer \/ ClockTick
  \/ \E a \in Archives : OpenArchive(a) \/ FindInArchive(a)
  \/ \E f \in DirEntries : StampEntry(f)
  \/ \E f \in OnDisk : Rewrite(f)

CachesSpec == CachesInit /\ [][CachesNext]_cachesVars

-----------------------------------------------------------------------------
(* Properties *)

\* The archives' bytes are counted, and stay within the limit.
ArchivesCounted ==
  /\ totalBytes = ArchiveBytes(byPath, Held(byPath))
  /\ totalBytes <= ArchiveLimit

\* What the four caches of classes hold together: with the archives, of files
\* and listings, and parsed.
Loaded(cache) == {a \in Held(cache) : cache[a].class}
Filed(files) == {f \in DirEntries : files[f] # NotKept}
ParsedSizes(classes) == [p \in classes |-> 2 * SizeOf(p[2])]
ClassesHeld(cache, files, classes) ==
  ArchiveBytes(cache, Loaded(cache)) + Bytes(Filed(files), Sizes(files))
  + Bytes(classes, ParsedSizes(classes))

\* It is counted, rewritten and evicted entries included, and stays within the
\* limit.
ClassesCounted ==
  ClassesHeld(byPath, kept, parsed) <= classBytes /\ classBytes <= ClassLimit

\* No sequence of lookups and rewrites makes a resident process keep more than
\* its two limits allow.
BudgetsKept == ArchivesCounted /\ ClassesCounted

\* No answer is older than the stamp its lookup took, at the listing of the
\* classpath for an archive: it has the change that gave the file this stamp, and
\* all before it.  Changes that left the stamp as it was may be missed.
AnswersFresh == answered # NoAnswer => answered.content >= answered.since
=============================================================================
