------------------------------ MODULE SnapStore ------------------------------
(***************************************************************************)
(* The snapshot store: uploadSnapshot of web/snapshot-store.js against the *)
(* server of crates/snapstore.                                             *)
(*                                                                         *)
(* An uploader asks for each page (HEAD), sends the ones the store lacks   *)
(* (PUT) and sends the manifest last.  Requests are served by tasks on     *)
(* several threads and the store takes no lock, so the system calls of     *)
(* write_atomic interleave: open and truncate the temporary file, write it *)
(* piece by piece, rename it.  A directory maps names to inodes and an     *)
(* inode holds Chunks pieces, so that a file renamed while somebody else   *)
(* has it open is the same file.                                           *)
(***************************************************************************)
EXTENDS Naturals, Sequences

CONSTANTS
  Uploaders,  \* clients that upload a snapshot
  Pages,      \* page hashes
  Ids,        \* manifest ids
  Tmps,       \* names of temporary files
  IdOf,       \* [Uploaders -> Ids], the id it is uploaded under
  TmpOf,      \* [Pages \cup Ids -> Tmps], path.with_extension("tmp")
  Inodes,     \* enough of them for every name and every open file
  Modes,      \* what the clients upload, and how they behave
  Hole, NoFile, CutShort

Mode ==
  [pages     : [Uploaders -> Seq(Pages)], \* the page list of each snapshot
   chunks    : Nat \ {0}, \* pieces in which fs::write fills a file
   exclusive : BOOLEAN,  \* no temporary name is in use twice at the same time
   cut       : BOOLEAN]  \* a client may hang up in the middle of a manifest

ASSUME StoreAssumption ==
  /\ IdOf \in [Uploaders -> Ids]
  /\ TmpOf \in [Pages \cup Ids -> Tmps]
  /\ Modes \subseteq Mode
  /\ Pages \cap Ids = {} /\ Tmps \cap (Pages \cup Ids) = {}
  /\ NoFile \notin Inodes
  /\ {Hole, CutShort} \cap (Pages \cup Uploaders) = {} /\ Hole # CutShort
  /\ Pages \cap Uploaders = {}

VARIABLES
  storeMode, \* never changes
  names,    \* the two directories: which inode a name refers to
  data,     \* what each inode holds, piece by piece
  pc,       \* where an uploader, or the server task of its PUT, stands
  index,    \* position in the page list; past its end: the manifest
  body,     \* the request body of the manifest PUT
  fd,       \* the file a server task has open
  piece     \* pieces it has written

storeVars == <<storeMode, names, data, pc, index, body, fd, piece>>

Names == Pages \cup Ids \cup Tmps
\* The body of a page is the page; a manifest's is the uploader that sent
\* it, or CutShort when the connection ended early.
Bodies == Pages \cup Uploaders \cup {CutShort}
PagesOf == storeMode.pages
Chunks == storeMode.chunks
Empty == [k \in 1..Chunks |-> Hole]
Whole(b) == [k \in 1..Chunks |-> b]

StoreTypeOK ==
  /\ storeMode \in Modes
  /\ names \in [Names -> Inodes \cup {NoFile}]
  /\ data \in [Inodes -> [1..Chunks -> Bodies \cup {Hole}]]
  /\ pc \in [Uploaders -> {"idle", "head", "put", "open", "write", "rename"}]
  /\ index \in [Uploaders -> Nat]
  /\ \A u \in Uploaders : index[u] \in 1..(Len(PagesOf[u]) + 1)
  /\ body \in [Uploaders -> Uploaders \cup {CutShort}]
  /\ fd \in [Uploaders -> Inodes \cup {NoFile}]
  /\ piece \in [Uploaders -> 0..Chunks]

StoreInit ==
  /\ storeMode \in Modes
  /\ names = [n \in Names |-> NoFile]
  /\ data = [i \in Inodes |-> Empty]
  /\ pc = [u \in Uploaders |-> "idle"]
  /\ index = [u \in Uploaders |-> 1]
  /\ body = [u \in Uploaders |-> u]
  /\ fd = [u \in Uploaders |-> NoFile]
  /\ piece = [u \in Uploaders |-> 0]

-----------------------------------------------------------------------------
AtManifest(u) == index[u] > Len(PagesOf[u])
TargetPath(u) == IF AtManifest(u) THEN IdOf[u] ELSE PagesOf[u][index[u]]
Body(u) == IF AtManifest(u) THEN body[u] ELSE PagesOf[u][index[u]]
Exists(n) == names[n] # NoFile
InWrite(u) == pc[u] \in {"write", "rename"}

Goto(u, where) == pc' = [pc EXCEPT ![u] = where]

\* What an inode holds is gone with the last name and the last open file.
Kept(dirs, open) ==
  [i \in Inodes |-> IF i \in {dirs[n] : n \in Names} \cup {open[u] : u \in Uploaders}
                    THEN data[i] ELSE Empty]

SameFiles == UNCHANGED <<storeMode, names, data, fd, piece>>

\* The user starts an upload, the first one or another attempt.
Start(u) ==
  /\ pc[u] = "idle"
  /\ Goto(u, "head")
  /\ UNCHANGED <<index, body>> /\ SameFiles

HasPageAlways(u) ==
  /\ pc[u] = "head" /\ ~AtManifest(u)
  /\ index' = [index EXCEPT ![u] = @ + 1]
  /\ UNCHANGED <<pc, body>> /\ SameFiles

\* hasPage: a page the store has is skipped.
HasPage(u) ==
  /\ pc[u] = "head" /\ ~AtManifest(u)
  /\ IF Exists(TargetPath(u))
       THEN index' = [index EXCEPT ![u] = @ + 1] /\ UNCHANGED pc
       ELSE Goto(u, "put") /\ UNCHANGED index
  /\ UNCHANGED body /\ SameFiles

\* put_page up to write_atomic: the hash matches, a page that has appeared
\* in the meantime is "already present".
PutPage(u) ==
  /\ pc[u] = "put"
  /\ IF Exists(TargetPath(u))
       THEN Goto(u, "head") /\ index' = [index EXCEPT ![u] = @ + 1]
       ELSE Goto(u, "open") /\ UNCHANGED index
  /\ UNCHANGED body /\ SameFiles

\* A page whose body ends early does not match its hash: 400, and the
\* upload throws.
RejectPage(u) ==
  /\ pc[u] = "put"
  /\ Goto(u, "idle")
  /\ index' = [index EXCEPT ![u] = 1]
  /\ UNCHANGED body /\ SameFiles

\* put_manifest up to write_atomic.  serve() routes the request with as
\* much of the body as came before the end of the stream.
PutManifest(u) ==
  /\ pc[u] = "head" /\ AtManifest(u)
  /\ Goto(u, "open")
  /\ \E b \in {u} \cup (IF storeMode.cut THEN {CutShort} ELSE {}) :
       body' = [body EXCEPT ![u] = b]
  /\ UNCHANGED index /\ SameFiles

-----------------------------------------------------------------------------
(* write_atomic.                                                           *)

\* An inode no name and no open file refers to, and the bound of the model:
\* there always is one.
Unused(i) == (\A n \in Names : names[n] # i) /\ (\A u \in Uploaders : fd[u] # i)
FreeInode == CHOOSE i \in Inodes : Unused(i)
DiskNotFull == \E i \in Inodes : Unused(i)

OpenInPlace(u) ==
  /\ pc[u] = "open" /\ DiskNotFull
  /\ LET i == IF Exists(TargetPath(u)) THEN names[TargetPath(u)] ELSE FreeInode
     IN  /\ fd' = [fd EXCEPT ![u] = i]
         /\ names' = [names EXCEPT ![TargetPath(u)] = i]
         /\ data' = [data EXCEPT ![i] = Empty]
  /\ piece' = [piece EXCEPT ![u] = 0]
  /\ Goto(u, "write")
  /\ UNCHANGED <<storeMode, index, body>>

\* fs::write opens with O_CREAT and O_TRUNC: a temporary file that is there
\* is emptied, whoever made it.
Open(u) ==
  /\ pc[u] = "open"
  /\ storeMode.exclusive => \A v \in Uploaders \ {u} :
       InWrite(v) => TmpOf[TargetPath(v)] # TmpOf[TargetPath(u)]
  /\ DiskNotFull
  /\ LET tmp == TmpOf[TargetPath(u)]
         i   == IF Exists(tmp) THEN names[tmp] ELSE FreeInode
     IN  /\ fd' = [fd EXCEPT ![u] = i]
         /\ names' = [names EXCEPT ![tmp] = i]
         /\ data' = [data EXCEPT ![i] = Empty]
  /\ piece' = [piece EXCEPT ![u] = 0]
  /\ Goto(u, "write")
  /\ UNCHANGED <<storeMode, index, body>>

Write(u) ==
  /\ pc[u] = "write"
  /\ piece' = [piece EXCEPT ![u] = @ + 1]
  /\ data' = [data EXCEPT ![fd[u]][piece'[u]] = Body(u)]
  /\ IF piece'[u] = Chunks
       THEN Goto(u, "rename") /\ fd' = [fd EXCEPT ![u] = NoFile]
       ELSE UNCHANGED <<pc, fd>>
  /\ UNCHANGED <<storeMode, names, index, body>>

RenameEarly(u) ==
  /\ pc[u] \in {"write", "rename"}
  /\ names' = [names EXCEPT ![TargetPath(u)] = names[TmpOf[TargetPath(u)]],
                            ![TmpOf[TargetPath(u)]] = NoFile]
  /\ Goto(u, IF AtManifest(u) THEN "idle" ELSE "head")
  /\ index' = [index EXCEPT ![u] = IF AtManifest(u) THEN @ ELSE @ + 1]
  /\ UNCHANGED <<storeMode, data, body, fd, piece>>

\* The rename fails when somebody else has renamed the file: 500, and the
\* upload throws.
Rename(u) ==
  /\ pc[u] = "rename"
  /\ IF Exists(TmpOf[TargetPath(u)])
       THEN /\ names' = [names EXCEPT ![TargetPath(u)] = names[TmpOf[TargetPath(u)]],
                                      ![TmpOf[TargetPath(u)]] = NoFile]
            /\ Goto(u, IF AtManifest(u) THEN "idle" ELSE "head")
            /\ index' = [index EXCEPT ![u] = IF AtManifest(u) THEN 1 ELSE @ + 1]
       ELSE Goto(u, "idle") /\ index' = [index EXCEPT ![u] = 1] /\ UNCHANGED names
  /\ data' = Kept(names', fd)
  /\ piece' = [piece EXCEPT ![u] = 0]
  /\ body' = [body EXCEPT ![u] = u]
  /\ UNCHANGED <<storeMode, fd>>

\* The server process ends and is started again: requests in flight are
\* lost and their uploads throw; the files stay as they are.
Crash ==
  /\ pc' = [u \in Uploaders |-> IF pc[u] = "head" THEN "head" ELSE "idle"]
  /\ fd' = [u \in Uploaders |-> NoFile]
  /\ data' = Kept(names, fd')
  /\ index' = [u \in Uploaders |-> IF pc[u] = "head" THEN index[u] ELSE 1]
  /\ body' = [u \in Uploaders |-> u]
  /\ piece' = [u \in Uploaders |-> 0]
  /\ UNCHANGED <<storeMode, names>>

StoreNext ==
  \/ \E u \in Uploaders :
       \/ Start(u) \/ HasPage(u) \/ PutPage(u) \/ RejectPage(u) \/ PutManifest(u)
       \/ Open(u) \/ Write(u) \/ Rename(u)
  \/ Crash

StoreSpec == StoreInit /\ [][StoreNext]_storeVars

-----------------------------------------------------------------------------
\* What put_page's comment promises: "a concurrent reader never sees a
\* half-written page (and a crash mid-write leaves only a stray .tmp)".
NeverHalfWritten == \A p \in Pages : Exists(p) => data[names[p]] = Whole(p)

\* As long as no temporary name is in use twice at the same time, the promise
\* of put_page holds through crashes and repeated uploads.  If besides no
\* client hangs up in the middle of a manifest, what is stored under an id is,
\* as a whole, a manifest that was uploaded under this id (write_atomic: "via a
\* temp sibling + rename (atomic on the same fs)").
StoredWhole ==
  storeMode.exclusive =>
    /\ NeverHalfWritten
    /\ ~storeMode.cut => \A id \in Ids : Exists(id) =>
         \E u \in Uploaders : IdOf[u] = id /\ data[names[id]] = Whole(u)

\* A manifest that can be read names only pages the store has, so
\* downloadSnapshot never fails with "missing page": uploadSnapshot sends the
\* manifest after its pages and no page is ever removed.
Restorable ==
  \A id \in Ids, u \in Uploaders :
    Exists(id) /\ data[names[id]] = Whole(u) =>
      \A k \in 1..Len(PagesOf[u]) : Exists(PagesOf[u][k])

\* A page that is there stays the same file: reads "are immutable and safe
\* to cache".  A second upload may rename an equal file over it.
PagesImmutable ==
  [][storeMode.exclusive => \A p \in Pages : Exists(p) =>
       names'[p] # NoFile /\ data'[names'[p]] = data[names[p]]]_storeVars
=============================================================================
