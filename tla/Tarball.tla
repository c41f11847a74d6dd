------------------------------ MODULE Tarball ------------------------------
(* lib/tarball.ts: a dropped ODB++ folder is read recursively and packed     *)
(* into a ustar archive before it is uploaded.  The browser hands out the    *)
(* entries of a directory in batches; the recursion of readDirectoryEntry is *)
(* the stack of the directories being read.                                  *)
(* A path is its length and the positions of its slashes; a name is its      *)
(* length.  Contents and the other header fields are left out.               *)
EXTENDS Integers, Sequences, FiniteSets, FiniteSetsExt

CONSTANTS Folders,      \* the directories below the drop, the dropped one too
          DroppedFolder,
          FolderFiles,  \* the regular files below it
          ParentOf,     \* [Folders \cup FolderFiles -> Folders]; the root's is unused
          NameLength,   \* [Folders \cup FolderFiles -> Nat]
          FileSize,     \* [FolderFiles -> Nat]
          MaxFolder,    \* MAX_FOLDER_BYTES
          NameRoom,     \* 99: the name field without its terminating null
          PrefixRoom    \* 154: the prefix field without its null

ASSUME TarballAssumption ==
  /\ DroppedFolder \in Folders
  /\ Folders \cap FolderFiles = {}
  /\ ParentOf \in [Folders \cup FolderFiles -> Folders]
  \* A file system is a tree: every directory is below the dropped one.
  /\ \A T \in SUBSET Folders :
       /\ DroppedFolder \in T
       /\ \A d \in Folders \ {DroppedFolder} : ParentOf[d] \in T => d \in T
       => T = Folders
  /\ NameLength \in [Folders \cup FolderFiles -> Nat \ {0}]
  /\ FileSize \in [FolderFiles -> Nat]
  /\ MaxFolder \in Nat /\ NameRoom \in Nat /\ PrefixRoom \in Nat

VARIABLES
  tarStep,   \* "read", "pack", "buffer", "archive" or "failed"
  reading,   \* stack of [dir, path, unread, batch, found]: the calls of
             \* readDirectoryEntry, the innermost first
  totalRead, \* totals.bytes
  folderList,\* what the outermost call returned: set of [path, file]
  buffering, \* the files whose arrayBuffer() is not settled
  tarball    \* the archive: set of [name, prefix, file]

tarballVars == <<tarStep, reading, totalRead, folderList, buffering, tarball>>

-----------------------------------------------------------------------------
(* Paths: [size |-> its length, slashes |-> the positions of its slashes].   *)

EntryPath(prefix, entry) ==
  [size    |-> prefix.size + 1 + NameLength[entry],
   slashes |-> prefix.slashes \cup {prefix.size}]

EntriesOf(d) == {e \in Folders \cup FolderFiles : e # DroppedFolder /\ ParentOf[e] = d}

PathSet == [size : Nat, slashes : SUBSET Nat]
Listing == [path : PathSet, file : FolderFiles]

NoRoom == [name |-> 0, prefix |-> 0, fits |-> FALSE]

IsLastSlash(s, path, limit) ==
  s \in path.slashes /\ s <= limit /\ \A t \in path.slashes : t <= limit => t <= s

\* lastIndexOf('/', limit): -1 when there is no slash at or before `limit`.
LastSlash(path, limit) ==
  IF \E s \in path.slashes : IsLastSlash(s, path, limit)
    THEN CHOOSE s \in path.slashes : IsLastSlash(s, path, limit)
    ELSE -1

\* splitTarPath: the lengths of the two fields.
splitTarPath(path) ==
  LET split == LastSlash(path, PrefixRoom)
      rest  == path.size - split - 1
  IN IF path.size <= NameRoom THEN [name |-> path.size, prefix |-> 0, fits |-> TRUE]
     ELSE IF split > 0 /\ rest <= NameRoom
            THEN [name |-> rest, prefix |-> split, fits |-> TRUE]
            ELSE NoRoom

-----------------------------------------------------------------------------
(* readDirectoryEntry                                                        *)

FolderCall ==
  [dir : Folders, path : PathSet, unread : SUBSET (Folders \cup FolderFiles),
   batch : SUBSET (Folders \cup FolderFiles), asked : BOOLEAN, found : SUBSET Listing]

Call(d, path) == [dir |-> d, path |-> path, unread |-> EntriesOf(d), batch |-> {},
                  asked |-> FALSE, found |-> {}]

TarballInit ==
  /\ tarStep = "read"
  /\ reading = <<Call(DroppedFolder, [size |-> NameLength[DroppedFolder], slashes |-> {}])>>
  /\ totalRead = 0
  /\ folderList = {}
  /\ buffering = {}
  /\ tarball = {}

Innermost == Head(reading)

FailTarball ==
  /\ tarStep' = "failed"
  /\ reading' = <<>>
  /\ UNCHANGED <<totalRead, folderList, buffering, tarball>>

\* mutant
OneBatch ==
  /\ tarStep = "read"
  /\ Innermost.batch = {}
  /\ ~ Innermost.asked
  /\ \E b \in SUBSET Innermost.unread :
       /\ Innermost.unread # {} => b # {}
       /\ reading' = <<[Innermost EXCEPT !.batch = b, !.asked = TRUE, !.unread = {}]>>
                     \o Tail(reading)
  /\ UNCHANGED <<tarStep, totalRead, folderList, buffering, tarball>>

\* do ... while (batch.length > 0): once a batch is used up, ask for the next
\* one; an empty one ends the directory.
NextBatch ==
  /\ tarStep = "read"
  /\ Innermost.batch = {}
  /\ \E b \in SUBSET Innermost.unread :
       /\ Innermost.unread # {} => b # {}
       /\ reading' = <<[Innermost EXCEPT !.batch = b, !.asked = TRUE, !.unread = @ \ b]>>
                     \o Tail(reading)
  /\ Innermost.asked => Innermost.unread # {}
  /\ UNCHANGED <<tarStep, totalRead, folderList, buffering, tarball>>

\* A directory is over when readEntries returned the empty list.
DirectoryOver == Innermost.asked /\ Innermost.batch = {} /\ Innermost.unread = {}

ReadFile ==
  /\ tarStep = "read"
  /\ \E f \in Innermost.batch \cap FolderFiles :
       /\ totalRead' = totalRead + FileSize[f]
       /\ IF totalRead' > MaxFolder
            THEN tarStep' = "failed" /\ reading' = <<>>
            ELSE /\ reading' = <<[Innermost EXCEPT
                                    !.batch = @ \ {f},
                                    !.found = @ \cup {[path |-> EntryPath(Innermost.path, f),
                                                       file |-> f]}]>> \o Tail(reading)
                 /\ UNCHANGED tarStep
  /\ UNCHANGED <<folderList, buffering, tarball>>

ReadSubfolder ==
  /\ tarStep = "read"
  /\ \E d \in Innermost.batch \cap Folders :
       reading' = <<Call(d, EntryPath(Innermost.path, d)),
                    [Innermost EXCEPT !.batch = @ \ {d}]>> \o Tail(reading)
  /\ UNCHANGED <<tarStep, totalRead, folderList, buffering, tarball>>

\* The call returns its list: the caller appends it to its own.
ReturnFolder ==
  /\ tarStep = "read"
  /\ DirectoryOver
  /\ IF Len(reading) = 1
       THEN /\ reading' = <<>>
            /\ folderList' = Innermost.found
            /\ tarStep' = "pack"
       ELSE /\ reading' = <<[reading[2] EXCEPT !.found = @ \cup Innermost.found]>>
                          \o Tail(Tail(reading))
            /\ UNCHANGED <<folderList, tarStep>>
  /\ UNCHANGED <<totalRead, buffering, tarball>>

\* readEntries or file() is refused by the browser.
ReadRefused == tarStep = "read" /\ FailTarball

-----------------------------------------------------------------------------
(* packageFilesAsTar, createTar, buildHeader                                 *)

\* totalBytes > MAX_FOLDER_BYTES, of files that are listed once each.
TooLarge(files) == MapThenSumSet(LAMBDA f : FileSize[f], files) > MaxFolder

CheckFolder ==
  /\ tarStep = "pack"
  /\ IF \/ TooLarge({e.file : e \in folderList})
        \/ \E e \in folderList : ~ splitTarPath(e.path).fits
       THEN FailTarball
       ELSE /\ tarStep' = "buffer"
            /\ buffering' = {e.file : e \in folderList}
            /\ UNCHANGED <<reading, totalRead, folderList, tarball>>

\* Promise.all over arrayBuffer(): the files are buffered in any order.
BufferFile ==
  /\ tarStep = "buffer"
  /\ \E f \in buffering : buffering' = buffering \ {f}
  /\ UNCHANGED <<tarStep, reading, totalRead, folderList, tarball>>

BufferRefused == tarStep = "buffer" /\ buffering # {} /\ FailTarball

Header(e) == [name   |-> splitTarPath(e.path).name,
              prefix |-> splitTarPath(e.path).prefix,
              file   |-> e.file]

createTar ==
  /\ tarStep = "buffer"
  /\ buffering = {}
  /\ tarball' = {Header(e) : e \in folderList}
  /\ tarStep' = "archive"
  /\ UNCHANGED <<reading, totalRead, folderList, buffering>>

TarballNext ==
  \/ NextBatch \/ ReadFile \/ ReadSubfolder \/ ReturnFolder \/ ReadRefused
  \/ CheckFolder \/ BufferFile \/ BufferRefused \/ createTar

TarballSpec == TarballInit /\ [][TarballNext]_tarballVars

-----------------------------------------------------------------------------
(* What the archive promises.                                                *)

\* The path of an entry below the drop.
PathOf[e \in Folders \cup FolderFiles] ==
  IF e = DroppedFolder THEN [size |-> NameLength[e], slashes |-> {}]
                       ELSE EntryPath(PathOf[ParentOf[e]], e)

\* What a reader of the header joins: the prefix, a slash and the name.
JoinsTo(e, path) ==
  IF e.prefix = 0 THEN e.name = path.size
                  ELSE e.prefix \in path.slashes /\ e.prefix + 1 + e.name = path.size

\* The archive handed to the upload holds every file of the folder, whatever
\* the batches the browser read it in, under a header whose two fields have
\* room for their part of the path and join to the path again
\* (readDirectoryEntry, splitTarPath, packageFilesAsTar).
FolderComplete ==
  tarStep = "archive" =>
    /\ {e.file : e \in tarball} = FolderFiles
    /\ \A e \in tarball : /\ JoinsTo(e, PathOf[e.file])
                          /\ e.name <= NameRoom /\ e.prefix <= PrefixRoom
    /\ ~ TooLarge(FolderFiles)

TarballTypeOK ==
  /\ tarStep \in {"read", "pack", "buffer", "archive", "failed"}
  /\ reading \in Seq(FolderCall)
  /\ totalRead \in Nat
  /\ folderList \subseteq Listing
  /\ buffering \subseteq FolderFiles
  /\ tarball \subseteq [name : Int, prefix : Int, file : FolderFiles]

\* The two fields of a header have room for their part and join to the path that
\* was read for the file.
HeadersJoin ==
  \A e \in tarball :
    /\ e.name <= NameRoom /\ e.prefix <= PrefixRoom
    /\ \E l \in folderList : l.file = e.file /\ JoinsTo(e, l.path)

\* Why the archive is complete.  The calls of readDirectoryEntry that are open:
Calls == {reading[i] : i \in DOMAIN reading}

\* What a call reads is of its directory, and what it found has its path.
CallSound(c) ==
  /\ c.path = PathOf[c.dir]
  /\ c.unread \cup c.batch \subseteq EntriesOf(c.dir)
  /\ \A l \in c.found : l.path = PathOf[l.file]

\* The call has the entry still to read, or has found it.
Tracks(c, e) == e \in c.unread \cup c.batch \/ \E l \in c.found : l.file = e

\* An entry of a directory that was opened was opened too, or some call tracks it.
NothingLost ==
  \E opened \in SUBSET Folders :
    /\ DroppedFolder \in opened
    /\ \A d \in opened : \A e \in EntriesOf(d) : e \in opened \/ \E c \in Calls : Tracks(c, e)

ReadingSound == reading # <<>> /\ (\A c \in Calls : CallSound(c)) /\ NothingLost

ListWhole ==
  /\ {l.file : l \in folderList} = FolderFiles
  /\ \A l \in folderList : l.path = PathOf[l.file]

TarballInv ==
  /\ TarballTypeOK
  /\ tarStep = "read" => ReadingSound
  /\ tarStep \in {"pack", "buffer", "archive"} => ListWhole
  /\ tarStep \in {"buffer", "archive"} =>
        (\A l \in folderList : splitTarPath(l.path).fits) /\ ~ TooLarge(FolderFiles)
  /\ tarball = IF tarStep = "archive" THEN {Header(l) : l \in folderList} ELSE {}
  /\ HeadersJoin
=============================================================================
