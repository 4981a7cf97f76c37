--------------------------- MODULE SnapStoreProofs ---------------------------
(***************************************************************************)
(* The snapshot store keeps what it promises for any number of uploaders,  *)
(* pages, ids and pieces, and any way temporary names coincide: what an    *)
(* uploader may rely on, then what the files hold.                         *)
(***************************************************************************)
EXTENDS SnapStore, TLAPS

Tmp(u) == TmpOf[TargetPath(u)]

\* Where an uploader stands agrees with what it has open.
StoreInv ==
  /\ StoreTypeOK
  /\ \A u \in Uploaders :
       /\ pc[u] = "put" => ~AtManifest(u)
       /\ pc[u] = "write" => fd[u] \in Inodes /\ piece[u] < Chunks
       /\ body[u] \in {u, CutShort}
       /\ ~storeMode.cut => body[u] = u

LEMMA ModeIs ==
  ASSUME storeMode \in Modes
  PROVE  /\ Chunks \in Nat \ {0} /\ PagesOf \in [Uploaders -> Seq(Pages)]
         /\ storeMode.exclusive \in BOOLEAN /\ storeMode.cut \in BOOLEAN
BY StoreAssumption, Zenon DEF Mode, Chunks, PagesOf

LEMMA Paths ==
  ASSUME StoreTypeOK, NEW u \in Uploaders
  PROVE  /\ Len(PagesOf[u]) \in Nat /\ index[u] \in Nat \ {0}
         /\ AtManifest(u) => TargetPath(u) = IdOf[u] /\ Body(u) = body[u]
         /\ ~AtManifest(u) => /\ index[u] \in 1 .. Len(PagesOf[u])
                              /\ TargetPath(u) \in Pages /\ Body(u) = TargetPath(u)
                              /\ TargetPath(u) = PagesOf[u][index[u]]
         /\ TargetPath(u) \in Pages \cup Ids /\ Tmp(u) \in Tmps
         /\ Tmp(u) \in Names /\ TargetPath(u) \in Names /\ Tmp(u) # TargetPath(u)
         /\ Body(u) \in Bodies
<1>1. PagesOf[u] \in Seq(Pages) /\ index[u] \in 1 .. (Len(PagesOf[u]) + 1)
  BY ModeIs, Zenon DEF StoreTypeOK
<1>2. /\ Len(PagesOf[u]) \in Nat /\ index[u] \in Nat \ {0}
      /\ ~AtManifest(u) => index[u] \in 1 .. Len(PagesOf[u])
  BY <1>1 DEF AtManifest
<1>3. ~AtManifest(u) => PagesOf[u][index[u]] \in Pages
  BY <1>1, <1>2
<1>4. body[u] \in Bodies /\ IdOf[u] \in Ids
  BY StoreAssumption, Zenon DEF StoreTypeOK, Bodies
<1>5. TargetPath(u) \in Pages \cup Ids /\ Body(u) \in Bodies
  BY <1>3, <1>4, Zenon DEF TargetPath, Body, Bodies
<1>6. Tmp(u) \in Tmps /\ Tmp(u) # TargetPath(u)
  BY <1>5, StoreAssumption, Zenon DEF Tmp
<1> QED
  BY <1>1, <1>2, <1>3, <1>4, <1>5, <1>6, Zenon DEF TargetPath, Body, Names

LEMMA FreeInodeIs ==
  ASSUME DiskNotFull
  PROVE  FreeInode \in Inodes /\ Unused(FreeInode)
BY Zenon DEF DiskNotFull, FreeInode

\* The file that Open makes or empties.
LEMMA Opened ==
  ASSUME StoreInv, NEW u \in Uploaders, Open(u)
  PROVE  \E i \in Inodes :
           /\ i = names[Tmp(u)] \/ (names[Tmp(u)] = NoFile /\ Unused(i))
           /\ fd' = [fd EXCEPT ![u] = i]
           /\ names' = [names EXCEPT ![Tmp(u)] = i]
           /\ data' = [data EXCEPT ![i] = Empty]
<1>1. Tmp(u) \in Names /\ names[Tmp(u)] \in Inodes \cup {NoFile}
  BY Paths, Zenon DEF StoreInv, StoreTypeOK
<1> DEFINE i == IF Exists(Tmp(u)) THEN names[Tmp(u)] ELSE FreeInode
<1>2. i \in Inodes /\ (i = names[Tmp(u)] \/ (names[Tmp(u)] = NoFile /\ Unused(i)))
  BY <1>1, FreeInodeIs, Zenon DEF Open, Exists
<1> QED
  BY <1>2, Zenon DEF Open, Tmp

-----------------------------------------------------------------------------
LEMMA StoreInitInv == StoreInit => StoreInv
<1> SUFFICES ASSUME StoreInit PROVE StoreInv
  BY Zenon
<1>1. storeMode \in Modes
  BY Zenon DEF StoreInit
<1>2. \A u \in Uploaders : Len(PagesOf[u]) \in Nat
  BY <1>1, ModeIs
<1>3. \A u \in Uploaders : index[u] \in 1 .. (Len(PagesOf[u]) + 1)
  <2>1. \A n \in Nat : 1 \in 1 .. (n + 1)
    OBVIOUS
  <2> QED
    BY <1>2, <2>1, Zenon DEF StoreInit
<1>4. Empty \in [1..Chunks -> Bodies \cup {Hole}]
  BY Zenon DEF Empty
<1>5. names \in [Names -> Inodes \cup {NoFile}] /\ data \in [Inodes -> [1..Chunks -> Bodies \cup {Hole}]]
  BY <1>4, Zenon DEF StoreInit
<1> QED
  BY <1>1, <1>3, <1>5, ModeIs DEF StoreInit, StoreInv, StoreTypeOK

\* Requests that touch no file.
LEMMA AskInv ==
  ASSUME StoreInv, NEW u \in Uploaders,
         Start(u) \/ HasPage(u) \/ PutPage(u) \/ RejectPage(u) \/ PutManifest(u)
  PROVE  StoreInv' /\ UNCHANGED <<storeMode, names, data, fd, piece>>
<1>1. UNCHANGED <<storeMode, names, data, fd, piece>>
  BY Zenon DEF Start, HasPage, PutPage, RejectPage, PutManifest, SameFiles
<1>2. UNCHANGED <<Chunks, PagesOf>>
  BY <1>1, Zenon DEF Chunks, PagesOf
<1>moved. /\ \E n \in {index[u], index[u] + 1, 1} : index' = [index EXCEPT ![u] = n]
      /\ \E at \in {"idle", "head", "put", "open"} : pc' = [pc EXCEPT ![u] = at]
      /\ \E b \in {body[u], u, CutShort} : body' = [body EXCEPT ![u] = b]
  BY DEF Start, HasPage, PutPage, RejectPage, PutManifest, Goto, StoreInv, StoreTypeOK
<1>3. /\ pc' \in [Uploaders -> {"idle", "head", "put", "open", "write", "rename"}]
      /\ \A v \in Uploaders : v # u => pc'[v] = pc[v] /\ index'[v] = index[v] /\ body'[v] = body[v]
      /\ pc'[u] \in {"idle", "head", "put", "open"}
  BY <1>moved DEF StoreInv, StoreTypeOK
<1>4. /\ index'[u] \in 1 .. (Len(PagesOf[u]) + 1) /\ index' \in [Uploaders -> Nat]
      /\ pc'[u] = "put" => ~AtManifest(u) /\ index'[u] = index[u]
  <2>1. Len(PagesOf[u]) \in Nat /\ index[u] \in Nat \ {0} /\ (~AtManifest(u) => index[u] <= Len(PagesOf[u]))
        /\ index[u] <= Len(PagesOf[u]) + 1
    BY Paths DEF StoreInv, StoreTypeOK
  <2>2. index'[u] = index[u] \/ index'[u] = 1 \/ (index'[u] = index[u] + 1 /\ ~AtManifest(u))
    BY Zenon DEF Start, HasPage, PutPage, RejectPage, PutManifest, StoreInv, StoreTypeOK
  <2>3. pc'[u] = "put" => ~AtManifest(u) /\ index'[u] = index[u]
    BY Zenon DEF Start, HasPage, PutPage, RejectPage, PutManifest, Goto, StoreInv, StoreTypeOK
  <2>4. index' \in [Uploaders -> Nat]
    BY <1>moved, <2>1 DEF StoreInv, StoreTypeOK
  <2> QED
    BY <2>1, <2>2, <2>3, <2>4
<1>5. /\ body' \in [Uploaders -> Uploaders \cup {CutShort}] /\ body'[u] \in {u, CutShort}
      /\ ~storeMode.cut => body'[u] = u
  <2>1. \/ body' = body
        \/ body' = [body EXCEPT ![u] = u]
        \/ storeMode.cut /\ body' = [body EXCEPT ![u] = CutShort]
    BY Zenon DEF Start, HasPage, PutPage, RejectPage, PutManifest
  <2>2. /\ body \in [Uploaders -> Uploaders \cup {CutShort}] /\ body[u] \in {u, CutShort}
        /\ ~storeMode.cut => body[u] = u
    BY Zenon DEF StoreInv, StoreTypeOK
  <2> QED
    BY <2>1, <2>2, Zenon
<1>6. StoreTypeOK'
  BY <1>1, <1>2, <1>3, <1>4, <1>5, Zenon DEF StoreInv, StoreTypeOK
<1> QED
  BY <1>1, <1>2, <1>3, <1>4, <1>5, <1>6, Zenon DEF StoreInv, AtManifest

LEMMA OpenInv ==
  ASSUME StoreInv, NEW u \in Uploaders, Open(u)
  PROVE  StoreInv'
<1>1. PICK i \in Inodes :
        /\ fd' = [fd EXCEPT ![u] = i]
        /\ names' = [names EXCEPT ![Tmp(u)] = i]
        /\ data' = [data EXCEPT ![i] = Empty]
  BY Opened, Zenon
<1>2. UNCHANGED <<storeMode, index, body>> /\ piece' = [piece EXCEPT ![u] = 0] /\ pc' = [pc EXCEPT ![u] = "write"]
  BY Zenon DEF Open, Goto
<1>3. UNCHANGED <<Chunks, PagesOf>> /\ Chunks \in Nat \ {0}
  BY <1>2, ModeIs, Zenon DEF Chunks, PagesOf, StoreInv, StoreTypeOK
<1>4. Empty \in [1..Chunks -> Bodies \cup {Hole}]
  BY Zenon DEF Empty
<1>5. names' \in [Names -> Inodes \cup {NoFile}] /\ data' \in [Inodes -> [1..Chunks -> Bodies \cup {Hole}]]
  BY <1>1, <1>4, Zenon DEF StoreInv, StoreTypeOK
<1>6. StoreTypeOK'
  BY <1>1, <1>2, <1>3, <1>5 DEF StoreInv, StoreTypeOK
<1> QED
  BY <1>1, <1>2, <1>3, <1>6 DEF StoreInv, StoreTypeOK, AtManifest

LEMMA WriteInv ==
  ASSUME StoreInv, NEW u \in Uploaders, Write(u)
  PROVE  StoreInv'
<1>1. UNCHANGED <<storeMode, names, index, body>>
  BY Zenon DEF Write
<1>2. UNCHANGED <<Chunks, PagesOf>> /\ Chunks \in Nat \ {0}
  BY <1>1, ModeIs, Zenon DEF Chunks, PagesOf, StoreInv, StoreTypeOK
<1>3. /\ pc[u] = "write" /\ fd[u] \in Inodes /\ piece[u] \in Nat /\ piece[u] < Chunks
      /\ piece' = [piece EXCEPT ![u] = @ + 1] /\ piece'[u] = piece[u] + 1
      /\ piece'[u] \in 1 .. Chunks
  BY <1>2 DEF Write, StoreInv, StoreTypeOK
<1>4. data' = [data EXCEPT ![fd[u]] = [@ EXCEPT ![piece'[u]] = Body(u)]]
  BY Zenon DEF Write
<1>5. data' \in [Inodes -> [1..Chunks -> Bodies \cup {Hole}]]
  <2>1. Body(u) \in Bodies
    BY Paths, Zenon DEF StoreInv
  <2>2. [data[fd[u]] EXCEPT ![piece'[u]] = Body(u)] \in [1..Chunks -> Bodies \cup {Hole}]
    BY <1>3, <2>1, Zenon DEF StoreInv, StoreTypeOK
  <2> QED
    BY <1>3, <1>4, <2>2, Zenon DEF StoreInv, StoreTypeOK
<1>6. /\ pc' \in [Uploaders -> {"idle", "head", "put", "open", "write", "rename"}]
      /\ fd' \in [Uploaders -> Inodes \cup {NoFile}]
      /\ \A v \in Uploaders : v # u => pc'[v] = pc[v] /\ fd'[v] = fd[v] /\ piece'[v] = piece[v]
      /\ pc'[u] \in {"write", "rename"}
      /\ pc'[u] = "write" => fd'[u] = fd[u] /\ piece'[u] # Chunks
  <2>1. \/ piece'[u] = Chunks /\ pc' = [pc EXCEPT ![u] = "rename"] /\ fd' = [fd EXCEPT ![u] = NoFile]
        \/ piece'[u] # Chunks /\ pc' = pc /\ fd' = fd
    BY Zenon DEF Write, Goto
  <2>2. /\ pc \in [Uploaders -> {"idle", "head", "put", "open", "write", "rename"}]
        /\ fd \in [Uploaders -> Inodes \cup {NoFile}] /\ piece \in [Uploaders -> 0 .. Chunks]
    BY Zenon DEF StoreInv, StoreTypeOK
  <2>3. \A v \in Uploaders : v # u => piece'[v] = piece[v]
    BY <1>3, <2>2, Zenon
  <2> QED
    BY <1>3, <2>1, <2>2, <2>3, Zenon
<1>7. piece' \in [Uploaders -> 0 .. Chunks]
  BY <1>2, <1>3 DEF StoreInv, StoreTypeOK
<1>8. StoreTypeOK'
  BY <1>1, <1>2, <1>5, <1>6, <1>7, Zenon DEF StoreInv, StoreTypeOK
<1> QED
  BY <1>1, <1>2, <1>3, <1>6, <1>8 DEF StoreInv, AtManifest

\* What a name of a file, or an open file, refers to is kept.
LEMMA KeptIs ==
  ASSUME StoreTypeOK,
         NEW dirs \in [Names -> Inodes \cup {NoFile}], NEW open \in [Uploaders -> Inodes \cup {NoFile}]
  PROVE  /\ Kept(dirs, open) \in [Inodes -> [1..Chunks -> Bodies \cup {Hole}]]
         /\ \A i \in Inodes : Kept(dirs, open)[i] \in {data[i], Empty}
         /\ \A n \in Names : dirs[n] \in Inodes => Kept(dirs, open)[dirs[n]] = data[dirs[n]]
<1>1. Empty \in [1..Chunks -> Bodies \cup {Hole}]
  BY Zenon DEF Empty
<1>2. \A i \in Inodes : Kept(dirs, open)[i] \in {data[i], Empty}
  BY Zenon DEF Kept
<1>3. \A i \in Inodes : data[i] \in [1..Chunks -> Bodies \cup {Hole}]
  BY Zenon DEF StoreTypeOK
<1>4. Kept(dirs, open) \in [Inodes -> [1..Chunks -> Bodies \cup {Hole}]]
  BY <1>1, <1>2, <1>3, Zenon DEF Kept
<1>5. \A n \in Names : dirs[n] \in Inodes => Kept(dirs, open)[dirs[n]] = data[dirs[n]]
  BY Zenon DEF Kept
<1> QED
  BY <1>2, <1>4, <1>5, Zenon

LEMMA RenameInv ==
  ASSUME StoreInv, NEW u \in Uploaders, Rename(u)
  PROVE  StoreInv'
<1>1. UNCHANGED <<storeMode, fd>> /\ pc[u] = "rename" /\ data' = Kept(names', fd)
      /\ piece' = [piece EXCEPT ![u] = 0] /\ body' = [body EXCEPT ![u] = u]
  BY Zenon DEF Rename
<1>2. UNCHANGED <<Chunks, PagesOf>> /\ Chunks \in Nat \ {0}
  BY <1>1, ModeIs, Zenon DEF Chunks, PagesOf, StoreInv, StoreTypeOK
<1>3. /\ Len(PagesOf[u]) \in Nat /\ index[u] \in Nat \ {0} /\ Tmp(u) \in Names /\ TargetPath(u) \in Names
      /\ ~AtManifest(u) => index[u] <= Len(PagesOf[u])
  BY Paths DEF StoreInv
<1>4. names' \in [Names -> Inodes \cup {NoFile}]
  <2>1. names[Tmp(u)] \in Inodes \cup {NoFile} /\ names \in [Names -> Inodes \cup {NoFile}]
    BY <1>3, Zenon DEF StoreInv, StoreTypeOK
  <2>2. \/ names' = names
        \/ names' = [[names EXCEPT ![TargetPath(u)] = names[Tmp(u)]] EXCEPT ![Tmp(u)] = NoFile]
    BY Zenon DEF Rename, Tmp
  <2> QED
    BY <2>1, <2>2, Zenon
<1>5. data' \in [Inodes -> [1..Chunks -> Bodies \cup {Hole}]]
  BY <1>1, <1>4, KeptIs, Zenon DEF StoreInv, StoreTypeOK
<1>6. \E n \in 1 .. (Len(PagesOf[u]) + 1), at \in {"idle", "head"} :
        index' = [index EXCEPT ![u] = n] /\ pc' = [pc EXCEPT ![u] = at]
  <2>1. 1 \in 1 .. (Len(PagesOf[u]) + 1) /\ (~AtManifest(u) => index[u] + 1 \in 1 .. (Len(PagesOf[u]) + 1))
    BY <1>3
  <2>2. \/ index' = [index EXCEPT ![u] = 1]
        \/ ~AtManifest(u) /\ index' = [index EXCEPT ![u] = index[u] + 1]
    BY Zenon DEF Rename
  <2>3. \E at \in {"idle", "head"} : pc' = [pc EXCEPT ![u] = at]
    BY Zenon DEF Rename, Goto
  <2> QED
    BY <2>1, <2>2, <2>3, Zenon
<1>7. /\ index' \in [Uploaders -> Nat] /\ \A v \in Uploaders : index'[v] \in 1 .. (Len(PagesOf[v]) + 1)
      /\ pc' \in [Uploaders -> {"idle", "head", "put", "open", "write", "rename"}]
  BY <1>3, <1>6 DEF StoreInv, StoreTypeOK
<1>8. StoreTypeOK'
  <2>1. /\ piece' \in [Uploaders -> 0 .. Chunks] /\ body' \in [Uploaders -> Uploaders \cup {CutShort}]
        /\ fd' \in [Uploaders -> Inodes \cup {NoFile}] /\ storeMode' \in Modes
    BY <1>1, <1>2 DEF StoreInv, StoreTypeOK
  <2> QED
    BY <1>2, <1>4, <1>5, <1>7, <2>1, Zenon DEF StoreTypeOK
<1>9. \A v \in Uploaders : pc'[v] \in {"put", "write"} =>
        v # u /\ pc'[v] = pc[v] /\ index'[v] = index[v] /\ piece'[v] = piece[v]
  BY <1>1, <1>6, Zenon DEF StoreInv, StoreTypeOK
<1> QED
  BY <1>1, <1>2, <1>8, <1>9 DEF StoreInv, StoreTypeOK, AtManifest

LEMMA CrashInv ==
  ASSUME StoreInv, Crash
  PROVE  StoreInv'
<1>1. UNCHANGED <<storeMode, names>> /\ UNCHANGED <<Chunks, PagesOf>> /\ Chunks \in Nat \ {0}
  BY ModeIs, Zenon DEF Crash, Chunks, PagesOf, StoreInv, StoreTypeOK
<1>2. fd' \in [Uploaders -> Inodes \cup {NoFile}]
  BY Zenon DEF Crash
<1>3. data' \in [Inodes -> [1..Chunks -> Bodies \cup {Hole}]]
  BY <1>2, KeptIs, Zenon DEF Crash, StoreInv, StoreTypeOK
<1>4. /\ \A u \in Uploaders : index'[u] \in {index[u], 1} /\ pc'[u] \in {"head", "idle"} /\ body'[u] = u
      /\ index' \in [Uploaders -> Nat] /\ piece' \in [Uploaders -> 0 .. Chunks]
      /\ pc' \in [Uploaders -> {"idle", "head", "put", "open", "write", "rename"}]
      /\ body' \in [Uploaders -> Uploaders \cup {CutShort}]
  BY <1>1 DEF Crash, StoreInv, StoreTypeOK
<1>5. \A u \in Uploaders : index'[u] \in 1 .. (Len(PagesOf[u]) + 1)
  BY <1>4, Paths DEF StoreInv, StoreTypeOK
<1>6. StoreTypeOK'
  BY <1>1, <1>2, <1>3, <1>4, <1>5, Zenon DEF StoreInv, StoreTypeOK
<1> QED
  BY <1>4, <1>6, Zenon DEF StoreInv

LEMMA StoreNextInv == StoreInv /\ [StoreNext]_storeVars => StoreInv'
<1> SUFFICES ASSUME StoreInv, [StoreNext]_storeVars PROVE StoreInv'
  BY Zenon
<1>1. CASE UNCHANGED storeVars
  BY <1>1, Zenon DEF StoreInv, StoreTypeOK, storeVars, Chunks, PagesOf, AtManifest
<1> QED
  BY <1>1, AskInv, OpenInv, WriteInv, RenameInv, CrashInv, Zenon DEF StoreNext

-----------------------------------------------------------------------------
(***************************************************************************)
(* Restorable.  No page is ever removed; the strengthening says of the     *)
(* pages before an uploader's position, and of every piece of a manifest   *)
(* in whatever file, that the pages are there.                             *)
(***************************************************************************)
Complete(u) == \A k \in 1..Len(PagesOf[u]) : Exists(PagesOf[u][k])

PagesFirst ==
  /\ \A u \in Uploaders : \A k \in 1 .. (index[u] - 1) : Exists(PagesOf[u][k])
  /\ \A i \in Inodes, k \in 1..Chunks, u \in Uploaders : data[i][k] = u => Complete(u)

LEMMA PagesStay ==
  ASSUME StoreInv, [StoreNext]_storeVars, NEW p \in Pages, Exists(p)
  PROVE  Exists(p)'
<1>1. CASE UNCHANGED names
  BY <1>1, Zenon DEF Exists
<1>2. ASSUME NEW u \in Uploaders, Open(u) PROVE Exists(p)'
  <2>1. PICK i \in Inodes : names' = [names EXCEPT ![Tmp(u)] = i]
    BY <1>2, Opened, Zenon
  <2> QED
    BY <2>1, StoreAssumption DEF StoreInv, StoreTypeOK, Exists
<1>3. ASSUME NEW u \in Uploaders, Rename(u), names' # names PROVE Exists(p)'
  <2>1. Tmp(u) # p /\ Exists(Tmp(u)) /\ p \in Names
    BY <1>3, Paths, StoreAssumption DEF Rename, Tmp, StoreInv, Names
  <2>2. names' = [[names EXCEPT ![TargetPath(u)] = names[Tmp(u)]] EXCEPT ![Tmp(u)] = NoFile]
    BY <1>3, Zenon DEF Rename, Tmp
  <2> QED
    BY <2>1, <2>2, Zenon DEF StoreInv, StoreTypeOK, Exists
<1> QED
  BY <1>1, <1>2, <1>3, AskInv, Zenon DEF StoreNext, Write, Crash, storeVars

LEMMA CompleteStays ==
  ASSUME StoreInv, [StoreNext]_storeVars, NEW u \in Uploaders, Complete(u)
  PROVE  Complete(u)'
<1>1. PagesOf' = PagesOf
  BY Zenon DEF StoreNext, Start, HasPage, PutPage, RejectPage, PutManifest, SameFiles, Open, Write, Rename,
         Crash, storeVars, PagesOf
<1>2. \A k \in 1..Len(PagesOf[u]) : PagesOf[u][k] \in Pages
  BY ModeIs DEF StoreInv, StoreTypeOK
<1> QED
  BY <1>1, <1>2, PagesStay, Zenon DEF Complete

\* An uploader passes a page only when the store has it.
LEMMA Moves ==
  ASSUME StoreInv, StoreNext, NEW u \in Uploaders
  PROVE  \/ index'[u] \in {1, index[u]}
         \/ /\ index'[u] = index[u] + 1 /\ ~AtManifest(u)
            /\ names'[PagesOf[u][index[u]]] # NoFile
<1>1. ASSUME NEW v \in Uploaders, HasPage(v) \/ PutPage(v)
      PROVE  \/ index' = index
             \/ /\ index' = [index EXCEPT ![v] = index[v] + 1] /\ ~AtManifest(v)
                /\ names'[PagesOf[v][index[v]]] # NoFile
  <2>1. \/ index' = index
        \/ /\ index' = [index EXCEPT ![v] = index[v] + 1] /\ ~AtManifest(v)
           /\ Exists(TargetPath(v)) /\ UNCHANGED names
    BY <1>1, Zenon DEF HasPage, PutPage, SameFiles, StoreInv
  <2> QED
    BY <2>1, Paths, Zenon DEF StoreInv, Exists
<1>2. ASSUME NEW v \in Uploaders, Rename(v)
      PROVE  \/ index' = [index EXCEPT ![v] = 1]
             \/ /\ index' = [index EXCEPT ![v] = index[v] + 1] /\ ~AtManifest(v)
                /\ names'[PagesOf[v][index[v]]] # NoFile
  <2>1. \/ index' = [index EXCEPT ![v] = 1]
        \/ /\ index' = [index EXCEPT ![v] = index[v] + 1] /\ ~AtManifest(v) /\ Exists(Tmp(v))
           /\ names' = [[names EXCEPT ![TargetPath(v)] = names[Tmp(v)]] EXCEPT ![Tmp(v)] = NoFile]
    BY <1>2, Zenon DEF Rename, Tmp
  <2>2. /\ Tmp(v) # TargetPath(v) /\ TargetPath(v) \in Names
        /\ ~AtManifest(v) => TargetPath(v) = PagesOf[v][index[v]]
    BY Paths, Zenon DEF StoreInv
  <2> QED
    BY <2>1, <2>2 DEF Exists, StoreInv, StoreTypeOK
<1>3. ASSUME NEW v \in Uploaders, Start(v) \/ RejectPage(v) \/ PutManifest(v) \/ Open(v) \/ Write(v)
      PROVE  index' = index \/ index' = [index EXCEPT ![v] = 1]
  BY <1>3, Zenon DEF Start, RejectPage, PutManifest, Open, Write
<1>4. CASE Crash
  BY <1>4, Zenon DEF Crash
<1>5. index \in [Uploaders -> Nat]
  BY Zenon DEF StoreInv, StoreTypeOK
<1> QED
  BY <1>1, <1>2, <1>3, <1>4, <1>5, Zenon DEF StoreNext

\* What a piece of a file holds was there before, or is the body being written.
LEMMA Pieces ==
  ASSUME StoreInv, StoreNext, NEW i \in Inodes, NEW k \in 1..Chunks
  PROVE  \/ data'[i][k] \in {data[i][k], Hole}
         \/ \E v \in Uploaders : pc[v] = "write" /\ data'[i][k] = Body(v)
<1>1. Empty[k] = Hole
  BY Zenon DEF Empty
<1>2. ASSUME NEW v \in Uploaders, Open(v) PROVE data'[i][k] \in {data[i][k], Hole}
  BY <1>1, <1>2, Opened, Zenon DEF StoreInv, StoreTypeOK
<1>3. ASSUME NEW v \in Uploaders, Write(v) PROVE data'[i][k] \in {data[i][k], Body(v)}
  <2>1. data' = [data EXCEPT ![fd[v]] = [@ EXCEPT ![piece'[v]] = Body(v)]]
    BY <1>3, Zenon DEF Write
  <2>2. data'[i] = data[i] \/ data'[i] = [data[i] EXCEPT ![piece'[v]] = Body(v)]
    BY <2>1, Zenon DEF StoreInv, StoreTypeOK
  <2>3. k \in DOMAIN data[i]
    BY Zenon DEF StoreInv, StoreTypeOK
  <2> QED
    BY <2>2, <2>3, Zenon
<1>4. ASSUME (\E v \in Uploaders : Rename(v)) \/ Crash PROVE data'[i][k] \in {data[i][k], Hole}
  <2>1. data' = Kept(names', fd')
    BY <1>4, Zenon DEF Rename, Crash
  <2> QED
    BY <1>1, <2>1, Zenon DEF Kept
<1> QED
  BY <1>2, <1>3, <1>4, AskInv, Zenon DEF StoreNext, Write

LEMMA ModeStays ==
  ASSUME [StoreNext]_storeVars
  PROVE  UNCHANGED <<storeMode, Chunks, PagesOf>>
BY Zenon DEF StoreNext, Start, HasPage, PutPage, RejectPage, PutManifest, SameFiles, Open, Write, Rename,
       Crash, storeVars, PagesOf, Chunks

LEMMA PagesFirstNext ==
  ASSUME StoreInv, PagesFirst, [StoreNext]_storeVars
  PROVE  PagesFirst'
<1>1. CASE UNCHANGED storeVars
  BY <1>1, ModeStays, Zenon DEF PagesFirst, storeVars, Complete, Exists
<1>2. CASE StoreNext
  <2>1. ASSUME NEW u \in Uploaders, NEW k \in 1 .. (index'[u] - 1) PROVE Exists(PagesOf[u][k])'
    <3>1. PagesOf[u] \in Seq(Pages) /\ index[u] \in 1 .. (Len(PagesOf[u]) + 1) /\ Len(PagesOf[u]) \in Nat
      BY ModeIs DEF StoreInv, StoreTypeOK
    <3>2. CASE k \in 1 .. (index[u] - 1)
      <4>1. Exists(PagesOf[u][k]) /\ PagesOf[u][k] \in Pages
        <5>1. Exists(PagesOf[u][k])
          BY <3>2, Zenon DEF PagesFirst
        <5>2. k \in 1 .. Len(PagesOf[u])
          BY <3>1, <3>2
        <5> QED
          BY <3>1, <5>1, <5>2
      <4> QED
        BY <4>1, PagesStay, ModeStays, Zenon DEF Exists
    <3>3. CASE k \notin 1 .. (index[u] - 1)
      <4>1. k = index[u] /\ names'[PagesOf[u][index[u]]] # NoFile
        BY <1>2, <2>1, <3>1, <3>3, Moves
      <4> QED
        BY <4>1, ModeStays, Zenon DEF Exists
    <3> QED
      BY <3>2, <3>3, Zenon
  <2>2. ASSUME NEW i \in Inodes, NEW k \in 1..Chunks, NEW u \in Uploaders, data'[i][k] = u
        PROVE  Complete(u)
    <3>1. CASE data[i][k] = u
      BY <3>1, Zenon DEF PagesFirst
    <3>2. CASE data[i][k] # u
      <4>1. PICK v \in Uploaders : pc[v] = "write" /\ Body(v) = u
        BY <1>2, <2>2, <3>2, Pieces, StoreAssumption
      <4>2. AtManifest(v) /\ body[v] = u
        BY <4>1, Paths, StoreAssumption DEF StoreInv
      <4>3. v = u
        BY <4>2, StoreAssumption, Zenon DEF StoreInv
      <4>4. \A k1 \in 1..Len(PagesOf[u]) : k1 \in 1 .. (index[u] - 1)
        BY <4>2, <4>3, Paths DEF StoreInv, AtManifest
      <4> QED
        BY <4>4, Zenon DEF PagesFirst, Complete
    <3> QED
      BY <3>1, <3>2, Zenon
  <2>3. \A u \in Uploaders : Complete(u) => Complete(u)'
    BY CompleteStays, Zenon
  <2>4. \A u \in Uploaders : \A k \in 1 .. (index'[u] - 1) : Exists(PagesOf[u][k])'
    BY <2>1, Zenon
  <2> QED
    BY <2>2, <2>3, <2>4, ModeStays, Zenon DEF PagesFirst, Exists
<1> QED
  BY <1>1, <1>2, Zenon

(***************************************************************************)
(* A manifest that can be read names only pages the store has, however     *)
(* uploads interleave, share temporary names, are cut short or crash:      *)
(* uploadSnapshot sends the manifest last and nothing removes a page.      *)
(***************************************************************************)
THEOREM AlwaysRestorable == StoreSpec => []Restorable
<1>1. StoreInit => StoreInv
  BY StoreInitInv, Zenon
<1>2. StoreInit => PagesFirst
  <2> SUFFICES ASSUME StoreInit PROVE PagesFirst
    BY Zenon
  <2>1. \A u \in Uploaders : index[u] = 1
    BY Zenon DEF StoreInit
  <2>2. \A i \in Inodes, k \in 1..Chunks : data[i][k] = Hole
    BY Zenon DEF StoreInit, Empty
  <2>3. ~(\E k \in 1 .. (1 - 1) : TRUE)
    OBVIOUS
  <2> QED
    BY <2>1, <2>2, <2>3, StoreAssumption, Zenon DEF PagesFirst
<1>3. StoreInv /\ PagesFirst => Restorable
  <2> SUFFICES ASSUME StoreInv, PagesFirst, NEW id \in Ids, NEW u \in Uploaders,
                      Exists(id), data[names[id]] = Whole(u)
               PROVE  Complete(u)
    BY Zenon DEF Restorable, Complete
  <2>1. names[id] \in Inodes /\ 1 \in 1..Chunks
    BY ModeIs DEF StoreInv, StoreTypeOK, Exists, Names
  <2>2. data[names[id]][1] = u
    BY <2>1, Zenon DEF Whole
  <2> QED
    BY <2>1, <2>2, Zenon DEF PagesFirst
<1> QED
  BY <1>1, <1>2, <1>3, StoreNextInv, PagesFirstNext, PTL DEF StoreSpec

-----------------------------------------------------------------------------
(***************************************************************************)
(* StoredWhole.  While no temporary name is in use twice, no two names     *)
(* share a file, and the file behind a task's temporary name holds what    *)
(* the task has written of its body, all of it before the rename.          *)
(***************************************************************************)
OneNameEach == \A m, n \in Names : names[m] # NoFile /\ names[m] = names[n] => m = n

OwnTmp == \A u, v \in Uploaders : u # v /\ InWrite(u) /\ InWrite(v) => Tmp(u) # Tmp(v)

Written ==
  \A u \in Uploaders :
    /\ pc[u] = "write" => /\ fd[u] = names[Tmp(u)]
                          /\ \A k \in 1..piece[u] : data[fd[u]][k] = Body(u)
    /\ pc[u] = "rename" => Exists(Tmp(u)) /\ data[names[Tmp(u)]] = Whole(Body(u))

Filed == storeMode.exclusive => OneNameEach /\ OwnTmp /\ Written /\ StoredWhole

\* A task whose request goes on stays with its files and its body.
LEMMA SameTask ==
  ASSUME NEW v \in Uploaders, index'[v] = index[v], body'[v] = body[v], UNCHANGED PagesOf
  PROVE  UNCHANGED <<AtManifest(v), TargetPath(v), Tmp(v), Body(v)>>
BY Zenon DEF AtManifest, TargetPath, Tmp, Body

\* What is stored stays whole while its names keep their files and these what
\* they hold.
LEMMA StoredSame ==
  ASSUME StoreInv, StoredWhole, UNCHANGED <<storeMode, Chunks>>,
         \A n \in Pages \cup Ids : names'[n] = names[n] /\ (Exists(n) => data'[names[n]] = data[names[n]])
  PROVE  StoredWhole'
<1>1. \A b \in Pages \cup Uploaders : Whole(b)' = Whole(b)
  BY Zenon DEF Whole
<1>2. NeverHalfWritten => NeverHalfWritten'
  BY <1>1, Zenon DEF NeverHalfWritten, Exists
<1>3. ASSUME NEW id \in Ids, Exists(id)', NEW u \in Uploaders, IdOf[u] = id, data[names[id]] = Whole(u)
      PROVE  (data[names[id]] = Whole(u))'
  BY <1>1, <1>3, Zenon DEF Exists
<1>4. \A id \in Ids : Exists(id)' = Exists(id)
  BY Zenon DEF Exists
<1> QED
  BY <1>2, <1>3, <1>4 DEF StoredWhole

LEMMA AskFiled ==
  ASSUME StoreInv, storeMode.exclusive, Filed, NEW u \in Uploaders,
         Start(u) \/ HasPage(u) \/ PutPage(u) \/ RejectPage(u) \/ PutManifest(u)
  PROVE  Filed'
<1>1. UNCHANGED <<storeMode, names, data, fd, piece>> /\ UNCHANGED <<Chunks, PagesOf>>
  BY AskInv, Zenon DEF Chunks, PagesOf
<1>2. /\ pc'[u] \in {"idle", "head", "put", "open"}
      /\ \A v \in Uploaders : v # u => pc'[v] = pc[v] /\ index'[v] = index[v] /\ body'[v] = body[v]
  BY DEF Start, HasPage, PutPage, RejectPage, PutManifest, Goto, StoreInv, StoreTypeOK
<1>3. \A v \in Uploaders : v # u => Tmp(v)' = Tmp(v) /\ Body(v)' = Body(v)
  BY <1>1, <1>2, SameTask, Zenon
<1>4. StoredWhole'
  BY <1>1, StoredSame, Zenon DEF Filed
<1>5. OneNameEach'
  BY <1>1, Zenon DEF Filed, OneNameEach
<1>6. OwnTmp'
  BY <1>2, <1>3 DEF Filed, OwnTmp, InWrite
<1>7. Written'
  <2>1. \A v \in Uploaders : v # u => Whole(Body(v))' = Whole(Body(v))
    BY <1>1, <1>3, Zenon DEF Whole
  <2> QED
    BY <1>1, <1>2, <1>3, <2>1 DEF Filed, Written, Exists
<1> QED
  BY <1>4, <1>5, <1>6, <1>7, Zenon DEF Filed

LEMMA OpenFiled ==
  ASSUME StoreInv, storeMode.exclusive, Filed, NEW u \in Uploaders, Open(u)
  PROVE  Filed'
<1>1. PICK i \in Inodes :
        /\ i = names[Tmp(u)] \/ (names[Tmp(u)] = NoFile /\ Unused(i))
        /\ fd' = [fd EXCEPT ![u] = i]
        /\ names' = [names EXCEPT ![Tmp(u)] = i]
        /\ data' = [data EXCEPT ![i] = Empty]
  BY Opened, Zenon
<1>2. /\ UNCHANGED <<storeMode, index, body>> /\ piece' = [piece EXCEPT ![u] = 0] /\ pc' = [pc EXCEPT ![u] = "write"]
      /\ \A v \in Uploaders \ {u} : InWrite(v) => Tmp(v) # Tmp(u)
  BY Zenon DEF Open, Goto, Tmp
<1>3. UNCHANGED <<Chunks, PagesOf>> /\ \A v \in Uploaders : Tmp(v)' = Tmp(v) /\ Body(v)' = Body(v)
  BY <1>2, SameTask, Zenon DEF Chunks, PagesOf
<1>4. /\ Tmp(u) \in Names /\ Tmp(u) \notin Pages \cup Ids
      /\ \A v \in Uploaders : Tmp(v) \in Names
  BY Paths, StoreAssumption, Zenon DEF StoreInv
<1>5. /\ names'[Tmp(u)] = i
      /\ \A n \in Names : n # Tmp(u) => names'[n] = names[n] /\ names[n] # i
  <2>1. \A n \in Names : n # Tmp(u) => names[n] # i
    BY <1>1, <1>4, StoreAssumption, Zenon DEF Filed, OneNameEach, Unused
  <2> QED
    BY <1>1, <1>4, <2>1, Zenon DEF StoreInv, StoreTypeOK
<1>6. \A j \in Inodes : j # i => data'[j] = data[j]
  BY <1>1, Zenon DEF StoreInv, StoreTypeOK
<1>7. \A n \in Names : n # Tmp(u) /\ Exists(n) => data'[names[n]] = data[names[n]]
  BY <1>5, <1>6 DEF Exists, StoreInv, StoreTypeOK
<1>8. StoredWhole'
  <2>1. \A n \in Pages \cup Ids : n \in Names /\ n # Tmp(u)
    BY <1>4, Zenon DEF Names
  <2> QED
    BY <1>2, <1>3, <1>5, <1>7, <2>1, StoredSame, Zenon DEF Filed
<1>9. OneNameEach'
  BY <1>5, Zenon DEF Filed, OneNameEach
<1>10. OwnTmp'
  BY <1>2, <1>3 DEF Filed, OwnTmp, InWrite, StoreInv, StoreTypeOK
<1>11. Written'
  <2>1. ASSUME NEW v \in Uploaders, v # u, InWrite(v)
        PROVE  Tmp(v) # Tmp(u) /\ names'[Tmp(v)] = names[Tmp(v)] /\ (Exists(Tmp(v)) => data'[names[Tmp(v)]] = data[names[Tmp(v)]])
    BY <1>2, <1>4, <1>5, <1>7, <2>1, Zenon
  <2>2. ASSUME NEW v \in Uploaders, v # u PROVE pc'[v] = pc[v] /\ fd'[v] = fd[v] /\ piece'[v] = piece[v]
    BY <1>1, <1>2, <2>2, Zenon DEF StoreInv, StoreTypeOK
  <2>3. pc'[u] = "write" /\ fd'[u] = i /\ piece'[u] = 0
    BY <1>1, <1>2, Zenon DEF StoreInv, StoreTypeOK
  <2>4. ASSUME NEW v \in Uploaders, pc'[v] = "write"
        PROVE  fd'[v] = names'[Tmp(v)] /\ \A k \in 1..piece'[v] : data'[fd'[v]][k] = Body(v)
    <3>1. CASE v = u
      BY <1>5, <2>3, <3>1
    <3>2. CASE v # u
      BY <2>1, <2>2, <2>4, <3>2, StoreAssumption DEF Filed, Written, InWrite, Exists, StoreInv
    <3> QED
      BY <3>1, <3>2, Zenon
  <2>5. ASSUME NEW v \in Uploaders, pc'[v] = "rename"
        PROVE  names'[Tmp(v)] # NoFile /\ data'[names'[Tmp(v)]] = Whole(Body(v))
    BY <2>1, <2>2, <2>3, <2>5, Zenon DEF Filed, Written, InWrite, Exists
  <2>6. \A v \in Uploaders : Whole(Body(v))' = Whole(Body(v))
    BY <1>3, Zenon DEF Whole
  <2> QED
    BY <1>3, <2>4, <2>5, <2>6 DEF Written, Exists
<1> QED
  BY <1>8, <1>9, <1>10, <1>11, Zenon DEF Filed

LEMMA WriteFiled ==
  ASSUME StoreInv, storeMode.exclusive, Filed, NEW u \in Uploaders, Write(u)
  PROVE  Filed'
<1>1. UNCHANGED <<storeMode, names, index, body>> /\ pc[u] = "write" /\ InWrite(u)
  BY Zenon DEF Write, InWrite
<1>2. UNCHANGED <<Chunks, PagesOf>> /\ \A v \in Uploaders : Tmp(v)' = Tmp(v) /\ Body(v)' = Body(v)
  BY <1>1, SameTask, Zenon DEF Chunks, PagesOf
<1>3. /\ Tmp(u) \in Names /\ Tmp(u) \notin Pages \cup Ids
      /\ \A v \in Uploaders : Tmp(v) \in Names
  BY Paths, StoreAssumption, Zenon DEF StoreInv
<1>4. /\ fd[u] \in Inodes /\ fd[u] = names[Tmp(u)]
      /\ \A k \in 1..piece[u] : data[fd[u]][k] = Body(u)
      /\ piece[u] \in Nat /\ Chunks \in Nat /\ piece[u] < Chunks /\ piece' = [piece EXCEPT ![u] = piece[u] + 1]
      /\ piece'[u] = piece[u] + 1
  BY <1>1, ModeIs DEF Write, StoreInv, StoreTypeOK, Filed, Written
<1>5. \A n \in Names : n # Tmp(u) => names[n] # fd[u]
  BY <1>3, <1>4, StoreAssumption, Zenon DEF Filed, OneNameEach
<1>6. data' = [data EXCEPT ![fd[u]] = [@ EXCEPT ![piece'[u]] = Body(u)]]
  BY Zenon DEF Write
<1>7. \A j \in Inodes : j # fd[u] => data'[j] = data[j]
  BY <1>6, Zenon DEF StoreInv, StoreTypeOK
<1>8. data'[fd[u]] \in [1..Chunks -> Bodies \cup {Hole}] /\ \A k \in 1..piece'[u] : data'[fd[u]][k] = Body(u)
  <2>1. data'[fd[u]] = [data[fd[u]] EXCEPT ![piece'[u]] = Body(u)]
    BY <1>4, <1>6, Zenon DEF StoreInv, StoreTypeOK
  <2>2. data[fd[u]] \in [1..Chunks -> Bodies \cup {Hole}] /\ Body(u) \in Bodies
    BY <1>4, Paths, Zenon DEF StoreInv, StoreTypeOK
  <2> QED
    BY <1>4, <2>1, <2>2
<1>9. \A n \in Names : n # Tmp(u) /\ Exists(n) => data'[names[n]] = data[names[n]]
  BY <1>5, <1>7 DEF Exists, StoreInv, StoreTypeOK
<1>10. /\ pc'[u] = "write" => fd'[u] = fd[u]
       /\ pc'[u] = "rename" => piece'[u] = Chunks
       /\ pc'[u] \in {"write", "rename"}
       /\ \A v \in Uploaders : v # u => pc'[v] = pc[v] /\ fd'[v] = fd[v] /\ piece'[v] = piece[v]
  BY <1>1, Zenon DEF Write, Goto, StoreInv, StoreTypeOK
<1>11. StoredWhole'
  <2>1. \A n \in Pages \cup Ids : n \in Names /\ n # Tmp(u)
    BY <1>3, Zenon DEF Names
  <2> QED
    BY <1>1, <1>2, <1>9, <2>1, StoredSame, Zenon DEF Filed
<1>12. OneNameEach' /\ OwnTmp'
  BY <1>1, <1>2, <1>10 DEF Filed, OneNameEach, OwnTmp, InWrite
<1>13. Written'
  <2>1. ASSUME NEW v \in Uploaders, v # u, InWrite(v)
        PROVE  Exists(Tmp(v)) => data'[names[Tmp(v)]] = data[names[Tmp(v)]]
    BY <1>1, <1>3, <1>9, <2>1, Zenon DEF Filed, OwnTmp
  <2>2. ASSUME NEW v \in Uploaders, pc'[v] = "write"
        PROVE  fd'[v] = names[Tmp(v)] /\ \A k \in 1..piece'[v] : data'[fd'[v]][k] = Body(v)
    <3>1. CASE v = u
      BY <1>4, <1>8, <1>10, <2>2, <3>1
    <3>2. CASE v # u
      BY <1>10, <2>1, <2>2, <3>2, StoreAssumption DEF Filed, Written, InWrite, Exists, StoreInv
    <3> QED
      BY <3>1, <3>2, Zenon
  <2>3. ASSUME NEW v \in Uploaders, pc'[v] = "rename"
        PROVE  Exists(Tmp(v)) /\ data'[names[Tmp(v)]] = Whole(Body(v))
    <3>1. CASE v = u
      <4>1. \A k \in 1..Chunks : data'[fd[u]][k] = Body(u)
        BY <1>8, <1>10, <2>3, <3>1, Zenon
      <4>2. data'[fd[u]] = Whole(Body(u))
        BY <1>8, <4>1, Zenon DEF Whole
      <4> QED
        BY <1>4, <3>1, <4>2, StoreAssumption, Zenon DEF Exists
    <3>2. CASE v # u
      BY <1>10, <2>1, <2>3, <3>2, Zenon DEF Filed, Written, InWrite
    <3> QED
      BY <3>1, <3>2, Zenon
  <2>4. \A v \in Uploaders : Whole(Body(v))' = Whole(Body(v))
    BY <1>2, Zenon DEF Whole
  <2> QED
    BY <1>1, <1>2, <2>2, <2>3, <2>4 DEF Written, Exists
<1> QED
  BY <1>11, <1>12, <1>13, Zenon DEF Filed

LEMMA RenameFiled ==
  ASSUME StoreInv, storeMode.exclusive, Filed, NEW u \in Uploaders, Rename(u)
  PROVE  Filed'
<1>1. /\ pc[u] = "rename" /\ InWrite(u) /\ Exists(Tmp(u)) /\ data[names[Tmp(u)]] = Whole(Body(u))
      /\ UNCHANGED <<storeMode, fd>> /\ data' = Kept(names', fd)
      /\ names' = [[names EXCEPT ![TargetPath(u)] = names[Tmp(u)]] EXCEPT ![Tmp(u)] = NoFile]
  BY Zenon DEF Rename, Filed, Written, InWrite, Tmp
<1>2. /\ UNCHANGED <<Chunks, PagesOf>> /\ pc'[u] \in {"idle", "head"}
      /\ \A v \in Uploaders : v # u => /\ pc'[v] = pc[v] /\ index'[v] = index[v]
                                       /\ body'[v] = body[v] /\ piece'[v] = piece[v]
  <2>1. UNCHANGED <<Chunks, PagesOf>>
    BY <1>1, Zenon DEF Chunks, PagesOf
  <2>2. \E at \in {"idle", "head"}, n \in {1, index[u] + 1} :
          pc' = [pc EXCEPT ![u] = at] /\ index' = [index EXCEPT ![u] = n]
    BY Zenon DEF Rename, Goto
  <2>3. piece' = [piece EXCEPT ![u] = 0] /\ body' = [body EXCEPT ![u] = u]
    BY Zenon DEF Rename
  <2>4. DOMAIN pc = Uploaders /\ DOMAIN index = Uploaders /\ DOMAIN body = Uploaders /\ DOMAIN piece = Uploaders
    BY Zenon DEF StoreInv, StoreTypeOK
  <2> QED
    BY <2>1, <2>2, <2>3, <2>4, Zenon
<1>3. \A v \in Uploaders : v # u => Tmp(v)' = Tmp(v) /\ Body(v)' = Body(v)
  BY <1>2, SameTask, Zenon
<1>4. /\ Tmp(u) \in Tmps /\ TargetPath(u) \in Pages \cup Ids /\ Tmp(u) \in Names /\ TargetPath(u) \in Names
      /\ Tmp(u) # TargetPath(u) /\ names[Tmp(u)] \in Inodes
      /\ \A v \in Uploaders : Tmp(v) \in Tmps /\ Tmp(v) \in Names
  <2>1. StoreTypeOK
    BY Zenon DEF StoreInv
  <2>2. /\ Tmp(u) \in Tmps /\ TargetPath(u) \in Pages \cup Ids /\ Tmp(u) \in Names
        /\ TargetPath(u) \in Names /\ Tmp(u) # TargetPath(u)
    BY <2>1, Paths, Zenon
  <2>3. \A v \in Uploaders : Tmp(v) \in Tmps /\ Tmp(v) \in Names
    BY <2>1, Paths, Zenon
  <2>4. names[Tmp(u)] \in Inodes
    BY <1>1, <2>1, <2>2, Zenon DEF StoreTypeOK, Exists
  <2> QED
    BY <2>2, <2>3, <2>4, Zenon
<1>5. /\ names'[Tmp(u)] = NoFile /\ names'[TargetPath(u)] = names[Tmp(u)]
      /\ \A n \in Names : n \notin {Tmp(u), TargetPath(u)} => names'[n] = names[n]
  BY <1>1, <1>4, Zenon DEF StoreInv, StoreTypeOK
<1>6. \A n \in Names : names'[n] \in Inodes => data'[names'[n]] = data[names'[n]]
  <2>1. StoreTypeOK'
    BY RenameInv, Zenon DEF StoreInv
  <2>2. names' \in [Names -> Inodes \cup {NoFile}] /\ fd \in [Uploaders -> Inodes \cup {NoFile}]
    BY <2>1, Zenon DEF StoreTypeOK, StoreInv
  <2>3. StoreTypeOK /\ data' = Kept(names', fd)
    BY <1>1, Zenon DEF StoreInv
  <2>4. \A n \in Names : names'[n] \in Inodes => Kept(names', fd)[names'[n]] = data[names'[n]]
    BY <2>2, <2>3, KeptIs, Zenon
  <2> QED
    BY <2>3, <2>4, Zenon
<1>7. OneNameEach'
  BY <1>4, <1>5, Zenon DEF Filed, OneNameEach
<1>8. OwnTmp'
  BY <1>2, <1>3 DEF Filed, OwnTmp, InWrite
<1>9. Written'
  <2>1. ASSUME NEW v \in Uploaders, pc'[v] \in {"write", "rename"}
        PROVE  v # u /\ InWrite(v) /\ names'[Tmp(v)] = names[Tmp(v)] /\ Exists(Tmp(v))
               /\ data'[names[Tmp(v)]] = data[names[Tmp(v)]]
    <3>1. v # u /\ InWrite(v) /\ pc[v] = pc'[v]
      BY <1>2, <2>1, Zenon DEF InWrite
    <3>2. Tmp(v) # Tmp(u) /\ Tmp(v) # TargetPath(u)
      BY <1>1, <1>4, <3>1, StoreAssumption, Zenon DEF Filed, OwnTmp
    <3>3. names[Tmp(v)] \in Inodes
      BY <1>4, <2>1, <3>1 DEF Filed, Written, Exists, StoreInv, StoreTypeOK
    <3> QED
      BY <1>4, <1>5, <1>6, <3>1, <3>2, <3>3, StoreAssumption DEF Exists
  <2>2. \A v \in Uploaders : v # u => Whole(Body(v))' = Whole(Body(v))
    BY <1>2, <1>3, Zenon DEF Whole
  <2>3. ASSUME NEW v \in Uploaders, pc'[v] = "write"
        PROVE  fd'[v] = names'[Tmp(v)] /\ \A k \in 1..piece'[v] : data'[fd'[v]][k] = Body(v)
    <3>1. v # u /\ pc[v] = "write" /\ fd'[v] = fd[v] /\ piece'[v] = piece[v]
      BY <1>1, <1>2, <2>1, <2>3, Zenon
    <3>2. fd[v] = names[Tmp(v)] /\ \A k \in 1..piece[v] : data[fd[v]][k] = Body(v)
      BY <3>1, Zenon DEF Filed, Written
    <3> QED
      BY <2>1, <2>3, <3>1, <3>2, Zenon
  <2>4. ASSUME NEW v \in Uploaders, pc'[v] = "rename"
        PROVE  names'[Tmp(v)] # NoFile /\ data'[names'[Tmp(v)]] = Whole(Body(v))
    <3>1. names'[Tmp(v)] = names[Tmp(v)] /\ data'[names[Tmp(v)]] = data[names[Tmp(v)]] /\ pc[v] = "rename"
      BY <1>2, <2>1, <2>4, Zenon
    <3>2. names[Tmp(v)] # NoFile /\ data[names[Tmp(v)]] = Whole(Body(v))
      BY <3>1, Zenon DEF Filed, Written, Exists
    <3> QED
      BY <3>1, <3>2, Zenon
  <2> QED
    BY <1>3, <2>1, <2>2, <2>3, <2>4 DEF Written, Exists
<1>10. StoredWhole'
  <2>1. \A b \in Pages \cup Uploaders : Whole(b)' = Whole(b)
    BY <1>2, Zenon DEF Whole
  <2>2. \A n \in Pages \cup Ids : n \in Names /\ n # Tmp(u)
    BY <1>4, StoreAssumption, Zenon DEF Names
  <2>3. ASSUME NEW n \in Pages \cup Ids, names'[n] # NoFile
        PROVE  IF n = TargetPath(u) THEN data'[names'[n]] = Whole(Body(u))
               ELSE Exists(n) /\ data'[names'[n]] = data[names[n]]
    <3>1. CASE n = TargetPath(u)
      <4>1. data'[names[Tmp(u)]] = data[names[Tmp(u)]]
        BY <1>4, <1>5, <1>6
      <4> QED
        BY <1>1, <1>5, <3>1, <4>1, Zenon
    <3>2. CASE n # TargetPath(u)
      <4>1. names'[n] = names[n] /\ n \in Names
        BY <1>5, <2>2, <3>2, Zenon
      <4>2. names[n] \in Inodes
        BY <2>3, <4>1, Zenon DEF StoreInv, StoreTypeOK
      <4> QED
        BY <1>6, <2>3, <3>2, <4>1, <4>2, Zenon DEF Exists
    <3> QED
      BY <3>1, <3>2, Zenon
  <2>4. NeverHalfWritten'
    <3>1. ASSUME NEW p \in Pages, names'[p] # NoFile PROVE data'[names'[p]] = Whole(p)
      <4>1. p = TargetPath(u) => Body(u) = p
        BY Paths, StoreAssumption DEF StoreInv
      <4> QED
        BY <2>3, <3>1, <4>1, Zenon DEF Filed, StoredWhole, NeverHalfWritten
    <3> QED
      BY <2>1, <3>1, Zenon DEF NeverHalfWritten, Exists
  <2>5. ASSUME ~storeMode.cut, NEW id \in Ids, names'[id] # NoFile
        PROVE  \E v \in Uploaders : IdOf[v] = id /\ data'[names'[id]] = Whole(v)
    <3>1. id = TargetPath(u) => IdOf[u] = id /\ Body(u) = u
      BY <2>5, Paths, StoreAssumption DEF StoreInv
    <3>2. id # TargetPath(u) => Exists(id) /\ data'[names'[id]] = data[names[id]]
      BY <2>3, <2>5, Zenon
    <3>3. id = TargetPath(u) => data'[names'[id]] = Whole(u) /\ IdOf[u] = id
      BY <2>3, <2>5, <3>1, Zenon
    <3>4. Exists(id) => \E v \in Uploaders : IdOf[v] = id /\ data[names[id]] = Whole(v)
      BY <2>5, Zenon DEF Filed, StoredWhole
    <3> QED
      BY <3>2, <3>3, <3>4, Zenon
  <2>6. ASSUME ~storeMode'.cut, NEW id \in Ids, Exists(id)'
        PROVE  \E v \in Uploaders : IdOf[v] = id /\ data'[names'[id]] = Whole(v)'
    <3>1. ~storeMode.cut /\ names'[id] # NoFile
      BY <1>1, <2>6, Zenon DEF Exists
    <3>2. PICK v \in Uploaders : IdOf[v] = id /\ data'[names'[id]] = Whole(v)
      BY <2>5, <3>1, Zenon
    <3> QED
      BY <2>1, <3>2, Zenon
  <2> QED
    BY <2>4, <2>6, Zenon DEF StoredWhole
<1> QED
  BY <1>7, <1>8, <1>9, <1>10, Zenon DEF Filed

LEMMA CrashFiled ==
  ASSUME StoreInv, storeMode.exclusive, Filed, Crash
  PROVE  Filed'
<1>1. UNCHANGED <<storeMode, names, Chunks>> /\ \A v \in Uploaders : pc'[v] \in {"head", "idle"}
  BY Zenon DEF Crash, Chunks
<1>2. fd' \in [Uploaders -> Inodes \cup {NoFile}] /\ data' = Kept(names, fd')
  BY Zenon DEF Crash
<1>3. \A n \in Names : names[n] \in Inodes => data'[names[n]] = data[names[n]]
  BY <1>2, KeptIs, Zenon DEF StoreInv, StoreTypeOK
<1>4. StoredWhole'
  <2>1. \A n \in Pages \cup Ids : Exists(n) => names[n] \in Inodes /\ n \in Names
    BY Zenon DEF StoreInv, StoreTypeOK, Exists, Names
  <2> QED
    BY <1>1, <1>3, <2>1, StoredSame, Zenon DEF Filed
<1>5. OneNameEach' /\ OwnTmp' /\ Written'
  BY <1>1, Zenon DEF Filed, OneNameEach, OwnTmp, InWrite, Written
<1> QED
  BY <1>4, <1>5, Zenon DEF Filed

LEMMA FiledNext ==
  ASSUME StoreInv, Filed, [StoreNext]_storeVars
  PROVE  Filed'
<1>1. CASE ~storeMode.exclusive
  BY <1>1, ModeStays, Zenon DEF Filed
<1>2. CASE storeMode.exclusive /\ UNCHANGED storeVars
  <2>1. UNCHANGED <<storeMode, names, data, pc, index, body, fd, piece, Chunks, PagesOf>>
    BY <1>2, ModeStays, Zenon DEF storeVars
  <2>2. \A v \in Uploaders : Tmp(v)' = Tmp(v) /\ Body(v)' = Body(v)
    BY <2>1, SameTask, Zenon
  <2>3. \A v \in Uploaders : Whole(Body(v))' = Whole(Body(v))
    BY <2>1, <2>2, Zenon DEF Whole
  <2>4. StoredWhole'
    BY <1>2, <2>1, StoredSame, Zenon DEF Filed
  <2>5. OneNameEach' /\ OwnTmp'
    BY <1>2, <2>1, <2>2, Zenon DEF Filed, OneNameEach, OwnTmp, InWrite
  <2>6. Written'
    <3>1. Written
      BY <1>2, Zenon DEF Filed
    <3> QED
      BY <2>1, <2>2, <2>3, <3>1, Zenon DEF Written, Exists
  <2> QED
    BY <2>4, <2>5, <2>6, Zenon DEF Filed
<1>3. CASE storeMode.exclusive /\ StoreNext
  BY <1>3, AskFiled, OpenFiled, WriteFiled, RenameFiled, CrashFiled, Zenon DEF StoreNext
<1> QED
  BY <1>1, <1>2, <1>3, Zenon

LEMMA FiledInit == StoreInit => Filed
<1> SUFFICES ASSUME StoreInit PROVE Filed
  BY Zenon
<1>1. \A n \in Names : ~Exists(n)
  BY Zenon DEF StoreInit, Exists
<1>2. StoredWhole
  BY <1>1, Zenon DEF StoredWhole, NeverHalfWritten, Names
<1>3. OneNameEach
  BY <1>1, Zenon DEF OneNameEach, Exists
<1>4. OwnTmp /\ Written
  BY Zenon DEF StoreInit, OwnTmp, InWrite, Written
<1> QED
  BY <1>2, <1>3, <1>4, Zenon DEF Filed

(***************************************************************************)
(* While no temporary name of write_atomic is in use twice at the same     *)
(* time, every page under its hash is whole, through crashes and repeated  *)
(* uploads, and so is every manifest no client has cut short.              *)
(***************************************************************************)
THEOREM StoreKeepsWhole == StoreSpec => []StoredWhole
<1>1. Filed => StoredWhole
  BY Zenon DEF Filed, StoredWhole
<1> QED
  BY <1>1, StoreInitInv, FiledInit, StoreNextInv, FiledNext, PTL DEF StoreSpec

(***************************************************************************)
(* And what is stored under a page's hash never changes: GET of a page is  *)
(* "immutable and safe to cache".                                          *)
(***************************************************************************)
THEOREM PagesNeverChange == StoreSpec => PagesImmutable
<1>1. ASSUME StoreInv, Filed, [StoreNext]_storeVars, storeMode.exclusive, NEW p \in Pages, Exists(p)
      PROVE  names'[p] # NoFile /\ data'[names'[p]] = data[names[p]]
  <2>1. Filed' /\ names'[p] # NoFile /\ storeMode' = storeMode
    BY <1>1, FiledNext, PagesStay, ModeStays, Zenon DEF Exists
  <2>2. data[names[p]] = Whole(p) /\ data'[names'[p]] = Whole(p)'
    BY <1>1, <2>1, Zenon DEF Filed, StoredWhole, NeverHalfWritten, Exists
  <2> QED
    BY <1>1, <2>1, <2>2, ModeStays, Zenon DEF Whole
<1>2. StoreInv /\ Filed /\ [StoreNext]_storeVars =>
        [storeMode.exclusive => \A p \in Pages : Exists(p) =>
           names'[p] # NoFile /\ data'[names'[p]] = data[names[p]]]_storeVars
  BY <1>1, Zenon
<1> QED
  BY <1>2, StoreInitInv, FiledInit, StoreNextInv, FiledNext, PTL DEF StoreSpec, PagesImmutable
=============================================================================
