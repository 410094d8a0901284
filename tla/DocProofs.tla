----------------------------- MODULE DocProofs -----------------------------
(***************************************************************************)
(* Theorems about Doc, for any files, any faults and any slide shows.      *)
(***************************************************************************)
EXTENDS Doc, TLAPS, FiniteSetTheorems, WellFoundedInduction

(* A set of natural numbers has a least element: the first match of the    *)
(* listing's searches exists.                                              *)
LEMMA LeastElement ==
  ASSUME NEW T, T \subseteq Nat, T # {}
  PROVE  \E x \in T : \A y \in T : x <= y
  <1> DEFINE R == OpToRel(<, Nat)
  <1>1. IsWellFoundedOn(R, Nat)
    BY NatLessThanWellFounded
  <1> HIDE DEF R
  <1>2. PICK x \in T : \A y \in T : ~ (<<y, x>> \in R)
    BY <1>1, WFMin
  <1>3. ASSUME NEW y \in T PROVE x <= y
    <2>1. <<y, x>> \notin R
      BY <1>2
    <2>2. x \in Nat /\ y \in Nat
      OBVIOUS
    <2>3. ~(y < x)
      BY <2>1, <2>2 DEF R, OpToRel
    <2> QED BY <2>2, <2>3
  <1> QED BY <1>3

(* updateDir() lists files that exist.                                     *)
LEMMA ListingSound ==
  ASSUME NEW fs, NEW d, NEW s \in Listings(fs, d)
  PROVE  s \in Seq(Names) /\ \A i \in DOMAIN s : File(fs, d, s[i]) \in disk
  <1> DEFINE names == {n \in Names : File(fs, d, n) \in disk}
  <1>1. IsFiniteSet(names)
    BY KeyAssumption, FS_Subset DEF KeyAssumption, Names
  <1>2. Cardinality(names) \in Nat
    BY <1>1, FS_CardinalityType
  <1>3. s \in [1 .. Cardinality(names) -> names]
    BY DEF Listings, SetToSeqs
  <1>4. names \subseteq Names
    OBVIOUS
  <1> HIDE DEF names
  <1>5. s \in Seq(Names)
    BY <1>2, <1>3, <1>4
  <1>6. \A i \in DOMAIN s : s[i] \in names
    BY <1>3
  <1> QED BY <1>5, <1>6 DEF names

(* The two searches for the current file find it, or nothing.              *)
LEMMA IndexOfSound ==
  ASSUME NEW s \in Seq(Names), NEW n
  PROVE  /\ IndexOf(s, n) \in 0 .. Len(s)
         /\ IndexOf(s, n) # 0 => s[IndexOf(s, n)] = n
  <1> DEFINE hits == {i \in DOMAIN s : s[i] = n}
  <1>1. IndexOf(s, n) = IF hits = {} THEN 0 ELSE CHOOSE i \in hits : \A j \in hits : i <= j
    BY DEF IndexOf, FirstOf
  <1>2. CASE hits = {}
    BY <1>1, <1>2
  <1>3. CASE hits # {}
    <2>1. hits \subseteq Nat
      OBVIOUS
    <2>2. \E i \in hits : \A j \in hits : i <= j
      BY <1>3, <2>1, LeastElement
    <2>3. IndexOf(s, n) \in hits
      BY <1>1, <1>3, <2>2
    <2> QED BY <2>3
  <1> QED BY <1>2, <1>3

LEMMA IndexIgnoringCaseSound ==
  ASSUME NEW s \in Seq(Names), NEW n
  PROVE  /\ IndexIgnoringCase(s, n) \in 0 .. Len(s)
         /\ IndexIgnoringCase(s, n) # 0 => Key[s[IndexIgnoringCase(s, n)]] = Key[n]
  <1> DEFINE hits == {i \in DOMAIN s : Key[s[i]] = Key[n]}
             index == IndexIgnoringCase(s, n)
  <1>1. index = IF hits = {} THEN 0 ELSE CHOOSE i \in hits : \A j \in hits : i <= j
    BY DEF IndexIgnoringCase, FirstOf
  <1>2. hits \subseteq Nat /\ hits \subseteq 1 .. Len(s)
    OBVIOUS
  <1>3. index \in hits \union {0}
    <2> HIDE DEF hits, index
    <2>1. hits # {} => \E i \in hits : \A j \in hits : i <= j
      BY <1>2, LeastElement
    <2> QED BY <1>1, <2>1
  <1> HIDE DEF index
  <1>4. index \in 0 .. Len(s) /\ (index # 0 => Key[s[index]] = Key[n])
    BY <1>3
  <1> QED BY <1>4 DEF index

(* The fallback takes a file of the listing.                               *)
LEMMA NearestIndexType ==
  ASSUME NEW s \in Seq(Names), s # <<>>, NEW n, NEW hint
  PROVE  NearestIndex(s, n, hint) \in 1 .. Len(s)
  <1> DEFINE hits == {i \in DOMAIN s : Key[s[i]] >= Key[n]}
             first == IF hits = {} THEN 0 ELSE CHOOSE i \in hits : \A j \in hits : i <= j
             pos == IF first = 0 THEN Len(s) + 1 ELSE first
  <1>1. NearestIndex(s, n, hint) = IF hint = "after" THEN Min({pos, Len(s)}) ELSE Max({1, pos - 1})
    BY DEF NearestIndex, FirstOf
  <1>2. first \in 0 .. Len(s)
    <2>1. CASE hits = {}
      BY <2>1
    <2>2. CASE hits # {}
      <3>1. hits \subseteq Nat /\ hits \subseteq 1 .. Len(s)
        OBVIOUS
      <3> HIDE DEF hits
      <3>2. \E i \in hits : \A j \in hits : i <= j
        BY <2>2, <3>1, LeastElement
      <3>3. first \in hits
        BY <2>2, <3>2
      <3> HIDE DEF first
      <3> QED BY <3>1, <3>3
    <2> QED BY <2>1, <2>2
  <1> HIDE DEF first
  <1>3. Len(s) \in Nat \ {0} /\ pos \in 1 .. Len(s) + 1
    BY <1>2
  <1> HIDE DEF pos
  <1>4. Min({pos, Len(s)}) \in 1 .. Len(s)
    BY <1>3 DEF Min
  <1>5. Max({1, pos - 1}) \in 1 .. Len(s)
    <2>1. Max({1, pos - 1}) \in {1, pos - 1} /\ Max({1, pos - 1}) >= 1
      <3>1. \E x \in {1, pos - 1} : \A y \in {1, pos - 1} : x >= y
        BY <1>3
      <3> QED BY <3>1 DEF Max
    <2> QED BY <1>3, <2>1
  <1> QED BY <1>1, <1>4, <1>5

LEMMA RemoveAtType ==
  ASSUME NEW s \in Seq(Names), NEW i \in 1 .. Len(s)
  PROVE  RemoveAt(s, i) \in Seq(Names) /\ Len(RemoveAt(s, i)) = Len(s) - 1
  <1> DEFINE front == SubSeq(s, 1, i - 1)
             back  == SubSeq(s, i + 1, Len(s))
  <1>1. front \in Seq(Names) /\ Len(front) = i - 1
    OBVIOUS
  <1>2. back \in Seq(Names) /\ Len(back) = Len(s) - i
    OBVIOUS
  <1>3. RemoveAt(s, i) = front \o back
    BY DEF RemoveAt
  <1> HIDE DEF front, back
  <1>4. front \o back \in Seq(Names) /\ Len(front \o back) = Len(front) + Len(back)
    BY <1>1, <1>2
  <1>5. Len(s) \in Nat /\ i \in Nat
    OBVIOUS
  <1> QED BY <1>1, <1>2, <1>3, <1>4, <1>5

(* Files that exist have a directory and a name, so a path to them is one. *)
LEMMA PathOfFile ==
  ASSUME NEW fs, NEW d, NEW n, File(fs, d, n) \in Universe
  PROVE  PathOf(d, n) # None
  <1>1. File(fs, d, n) \in [fs : FileSystems, dir : Dirs, name : Names]
    BY DocAssumption DEF DocAssumption
  <1>2. d \in Dirs /\ n \in Names
    BY <1>1 DEF File
  <1>3. PathOf(d, n) \in [dir : Dirs, name : Names]
    BY <1>2 DEF PathOf
  <1> QED BY <1>3, DocAssumption DEF DocAssumption

-----------------------------------------------------------------------------
(* The inductive invariant behind DisplayedIsPath: the disk holds files    *)
(* that can exist, which is what makes the path of an opened file a path.  *)
Displayed == disk \subseteq Universe /\ DisplayedIsPath

(* A file that was opened and decoded is what the path names.              *)
LEMMA DecodedIsPath ==
  ASSUME disk \subseteq Universe, NEW n, File(call.fs, call.dir, n) \in disk, Decoded(n)
  PROVE  DisplayedIsPath'
  <1>1. PathOf(call.dir, n) # None
    BY PathOfFile
  <1>2. /\ image' = File(call.fs, call.dir, n)
        /\ unifs' = call.fs
        /\ path' = PathOf(call.dir, n)
    BY DEF Decoded
  <1>3. path'.dir = call.dir /\ path'.name = n
    BY <1>2 DEF PathOf
  <1> QED BY <1>1, <1>2, <1>3 DEF DisplayedIsPath

LEMMA CallStepDisplayed ==
  ASSUME Displayed, CallStep
  PROVE  DisplayedIsPath'
  <1> USE DEF Displayed, shown
  <1>1. CASE OpenSucceeds
    BY <1>1, DecodedIsPath DEF OpenSucceeds, Undecodable, DisplayedIsPath
  <1>2. CASE OpenFails
    BY <1>2 DEF OpenFails, DisplayedIsPath
  <1>3. CASE ScanSucceeds
    BY <1>3 DEF ScanSucceeds, ClearOpenState, DisplayedIsPath
  <1>4. CASE RetrySucceeds
    BY <1>4, DecodedIsPath DEF RetrySucceeds, Undecodable, DisplayedIsPath
  <1>5. CASE RetryFails
    BY <1>5 DEF RetryFails, DisplayedIsPath
  <1>6. CASE RescanSucceeds
    BY <1>6 DEF RescanSucceeds, DisplayedIsPath
  <1>7. CASE ListingFails
    BY <1>7 DEF ListingFails, ClearOpenState, DisplayedIsPath
  <1>8. CASE Reconnects
    BY <1>8 DEF Reconnects, DisplayedIsPath
  <1>9. CASE ReconnectFails
    BY <1>9 DEF ReconnectFails, ClearOpenState, DisplayedIsPath
  <1> QED BY <1>1, <1>2, <1>3, <1>4, <1>5, <1>6, <1>7, <1>8, <1>9 DEF CallStep

(* Outside open() the image, the file system and the path stay as they     *)
(* are, or the image goes (removeCurrentFile in an emptied directory).     *)
LEMMA DeleteDisplayed ==
  ASSUME DisplayedIsPath, NEW i, NEW deleted, NEW gone, AfterDelete(i, deleted, gone)
  PROVE  DisplayedIsPath'
  BY DEF AfterDelete, DisplayedIsPath, shown

LEMMA UserDisplayed ==
  ASSUME DisplayedIsPath, User \/ SlideShow \/ Shell \/ Others
  PROVE  DisplayedIsPath'
  <1>1. CASE OpenFile \/ Navigate \/ Click \/ Refresh \/ SlideShow
    BY <1>1 DEF OpenFile, Navigate, Click, Refresh, SlideShow, Start, DisplayedIsPath, shown
  <1>2. CASE DeleteRemote \/ DeleteLocalDone
    BY <1>2, DeleteDisplayed DEF DeleteRemote, DeleteLocalDone
  <1>3. CASE DeleteRemoteFails
    BY <1>3 DEF DeleteRemoteFails, Start, DisplayedIsPath, shown, vars
  <1>4. CASE DeleteLocal \/ DeleteLocalFails \/ DeleteLocalAborted \/ Others
    BY <1>4 DEF DeleteLocal, DeleteLocalFails, DeleteLocalAborted, Others, DisplayedIsPath, shown
  <1>5. CASE DeleteDies
    BY <1>5 DEF DeleteDies, ClearOpenState, DisplayedIsPath
  <1> QED BY <1>1, <1>2, <1>3, <1>4, <1>5 DEF User, Shell

LEMMA DiskStays ==
  ASSUME disk \subseteq Universe, Next
  PROVE  disk' \subseteq Universe
  <1>1. CASE CallStep
    BY <1>1 DEF CallStep, OpenSucceeds, OpenFails, ScanSucceeds, RetrySucceeds, RetryFails,
                RescanSucceeds, ListingFails, Reconnects, ReconnectFails
  <1>2. CASE User
    BY <1>2 DEF User, OpenFile, Navigate, Click, Refresh, DeleteRemote, DeleteRemoteFails,
                DeleteDies, DeleteLocal, Start, vars
  <1>3. CASE SlideShow \/ Shell
    BY <1>3 DEF SlideShow, Shell, DeleteLocalDone, DeleteLocalFails, DeleteLocalAborted, Start
  <1>4. CASE Others
    BY <1>4 DEF Others
  <1> QED BY <1>1, <1>2, <1>3, <1>4 DEF Next

(* What is displayed is always what path and file system say it is.        *)
THEOREM DisplayIsConsistent == Spec => []DisplayedIsPath
  <1>1. Init => Displayed
    BY DEF Init, Displayed, DisplayedIsPath
  <1>2. Displayed /\ [Next]_vars => Displayed'
    <2> SUFFICES ASSUME Displayed, [Next]_vars PROVE Displayed'
      OBVIOUS
    <2>1. CASE Next
      <3>1. disk' \subseteq Universe
        BY <2>1, DiskStays DEF Displayed
      <3>2. DisplayedIsPath'
        BY <2>1, CallStepDisplayed, UserDisplayed DEF Next, Displayed
      <3> QED BY <3>1, <3>2 DEF Displayed
    <2>2. CASE UNCHANGED vars
      BY <2>2 DEF vars, shown, Displayed, DisplayedIsPath
    <2> QED BY <2>1, <2>2
  <1>3. Displayed => DisplayedIsPath
    BY DEF Displayed
  <1> QED BY <1>1, <1>2, <1>3, PTL DEF Spec

-----------------------------------------------------------------------------
(* Type correctness of the document.  The rows of the panel follow below,  *)
(* with the lemmas about smoothRebuild().                                  *)
PlaceType ==
  /\ dir \in Dirs \union {None}
  /\ dirfiles \in Seq(Names) /\ (dirfiles # <<>> => dir # None)
  /\ diridx \in 0 .. Len(dirfiles)

TrailType == curFile \in Names \union {None} /\ prevFile \in Names \union {None}

ShownType ==
  /\ image \in Universe \union {None}
  /\ unifs \in FileSystems \union {None}
  /\ path \in [dir : Dirs, name : Names] \union {None}
  /\ travel \in Universe \union {None}

CallType == call # None => call \in Activations

LEMMA ActivationType ==
  ASSUME DocType, NEW fs \in FileSystems \union {None}, NEW d \in Dirs, NEW n \in Names,
         NEW force \in BOOLEAN, NEW hint \in Hints, NEW idx \in Nat,
         NEW gone \in Universe \union {None}
  PROVE  Activation(fs, d, n, force, hint, idx, gone) # None
           => Activation(fs, d, n, force, hint, idx, gone) \in Activations
  BY DEF Activation, Activations, DocType, Steps

LEMMA FileParts ==
  ASSUME NEW fs, NEW d, NEW n, File(fs, d, n) \in Universe
  PROVE  fs \in FileSystems /\ d \in Dirs /\ n \in Names
  <1>1. File(fs, d, n) \in [fs : FileSystems, dir : Dirs, name : Names]
    BY DocAssumption DEF DocAssumption
  <1> QED BY <1>1 DEF File

LEMMA ConcludeType ==
  ASSUME DocType, NEW newDir \in Dirs \union {None}, NEW files \in Seq(Names),
         files # <<>> => newDir # None, NEW idx \in 0 .. Len(files), NEW n \in Names,
         Conclude(newDir, files, idx, n)
  PROVE  PlaceType' /\ TrailType' /\ CallType'
  BY DEF Conclude, DocType, PlaceType, TrailType, CallType

LEMMA ClearType ==
  ASSUME ClearOpenState, call' = None
  PROVE  ShownType' /\ PlaceType' /\ TrailType' /\ CallType'
  BY DEF ClearOpenState, ShownType, PlaceType, TrailType, CallType

(* The file n is open: whatever decoding makes of it.                      *)
LEMMA ShowType ==
  ASSUME DocType, call # None, NEW n, File(call.fs, call.dir, n) \in disk,
         Decoded(n) \/ Undecodable(n)
  PROVE  ShownType' /\ PlaceType' /\ TrailType' /\ CallType'
  <1>1. File(call.fs, call.dir, n) \in Universe
    BY DEF DocType
  <1>2. call.fs \in FileSystems /\ call.dir \in Dirs /\ n \in Names
    BY <1>1, FileParts
  <1>3. CASE Undecodable(n)
    BY <1>2, <1>3 DEF Undecodable, DocType, ShownType, PlaceType, TrailType, CallType, trail
  <1>4. CASE Decoded(n)
    <2>1. ShownType'
      <3>1. travel' = (IF image' = image THEN None ELSE image) /\ image \in Universe \union {None}
        BY <1>4 DEF Decoded, DocType
      <3>2. travel' \in Universe \union {None}
        BY <3>1
      <3> QED BY <1>1, <1>2, <1>4, <3>2 DEF Decoded, ShownType, PathOf
    <2>2. CASE call.force /\ ~call.scanned
      <3>1. call \in Activations /\ dirfiles \in Seq(Names)
        BY DEF DocType
      <3>2. [call EXCEPT !.at = "rescan", !.old = dirfiles] \in Activations
        BY <3>1 DEF Activations, Steps
      <3>3. CallType'
        BY <1>4, <2>2, <3>2 DEF Decoded, CallType
      <3>4. PlaceType' /\ TrailType'
        BY <1>4, <2>2 DEF Decoded, DocType, PlaceType, TrailType, trail
      <3> QED BY <2>1, <3>3, <3>4
    <2>3. CASE ~(call.force /\ ~call.scanned)
      <3>1. Conclude(dir, dirfiles, IndexOf(dirfiles, n), n)
        BY <1>4, <2>3 DEF Decoded
      <3>2. IndexOf(dirfiles, n) \in 0 .. Len(dirfiles)
        BY IndexOfSound DEF DocType
      <3> QED BY <1>2, <2>1, <3>1, <3>2, ConcludeType DEF DocType
    <2> QED BY <2>2, <2>3
  <1> QED BY <1>3, <1>4

LEMMA CallStepType ==
  ASSUME DocType, CallStep
  PROVE  ShownType' /\ PlaceType' /\ TrailType' /\ CallType'
  <1>1. call # None => call \in Activations
    BY DEF DocType
  <1>2. ShownType /\ PlaceType /\ TrailType
    BY DEF DocType, ShownType, PlaceType, TrailType
  <1>3. CASE OpenSucceeds \/ RetrySucceeds
    BY <1>3, ShowType DEF OpenSucceeds, RetrySucceeds
  <1>4. CASE OpenFails
    <2>1. PICK lost \in BOOLEAN :
            call' = IF call.hint = "none" THEN None
                    ELSE [call EXCEPT !.at = "scan", !.old = dirfiles, !.lost = lost]
      BY <1>4 DEF OpenFails
    <2>2. call \in Activations /\ dirfiles \in Seq(Names)
      BY <1>1, <1>4 DEF OpenFails, DocType
    <2>3. [call EXCEPT !.at = "scan", !.old = dirfiles, !.lost = lost] \in Activations
      BY <2>2 DEF Activations, Steps
    <2>4. CallType'
      BY <2>1, <2>3 DEF CallType
    <2> QED BY <1>2, <1>4, <2>4 DEF OpenFails, ShownType, PlaceType, TrailType, shown, place, trail
  <1>5. CASE ScanSucceeds
    <2>1. call \in Activations
      BY <1>1, <1>5 DEF ScanSucceeds
    <2>2. PICK s \in Listings(call.fs, call.dir) :
            IF s = <<>> THEN ClearOpenState /\ call' = None
            ELSE LET i == NearestIndex(s, call.name, call.hint)
                 IN  /\ dir' = call.dir /\ dirfiles' = s /\ diridx' = i
                     /\ call' = [call EXCEPT !.at = "retry", !.target = s[i], !.scanned = TRUE]
                     /\ UNCHANGED <<shown, trail, list>>
      BY <1>5 DEF ScanSucceeds
    <2>3. CASE s = <<>>
      BY <2>2, <2>3, ClearType
    <2>4. CASE s # <<>>
      <3> DEFINE i == NearestIndex(s, call.name, call.hint)
      <3>1. s \in Seq(Names)
        BY ListingSound
      <3>2. i \in 1 .. Len(s)
        BY <2>4, <3>1, NearestIndexType
      <3>3. dir' = call.dir /\ dirfiles' = s /\ diridx' = i /\ UNCHANGED <<shown, trail, list>>
        BY <2>2, <2>4
      <3>4. call' = [call EXCEPT !.at = "retry", !.target = s[i], !.scanned = TRUE]
        BY <2>2, <2>4
      <3> HIDE DEF i
      <3>5. s[i] \in Names
        BY <3>1, <3>2
      <3>6. call' \in Activations
        BY <2>1, <3>4, <3>5 DEF Activations, Steps
      <3>7. call.dir \in Dirs
        BY <2>1 DEF Activations
      <3>8. PlaceType'
        BY <2>4, <3>1, <3>2, <3>3, <3>7, DocAssumption DEF PlaceType, DocAssumption
      <3>9. ShownType' /\ TrailType'
        BY <1>2, <3>3 DEF ShownType, TrailType, shown, trail
      <3> QED BY <3>6, <3>8, <3>9 DEF CallType
    <2> QED BY <2>3, <2>4
  <1>6. CASE RetryFails
    BY <1>2, <1>6 DEF RetryFails, ShownType, PlaceType, TrailType, CallType, shown, place, trail
  <1>7. CASE RescanSucceeds
    <2>1. call \in Activations
      BY <1>1, <1>7 DEF RescanSucceeds
    <2>2. PICK s \in Listings(call.fs, call.dir) :
            Conclude(call.dir, s, IndexIgnoringCase(s, call.name), call.name)
      BY <1>7 DEF RescanSucceeds
    <2>3. s \in Seq(Names)
      BY ListingSound
    <2>4. IndexIgnoringCase(s, call.name) \in 0 .. Len(s)
      BY <2>3, IndexIgnoringCaseSound
    <2>5. call.dir \in Dirs /\ call.name \in Names
      BY <2>1 DEF Activations
    <2>6. call.dir # None
      BY <2>5, DocAssumption DEF DocAssumption
    <2>7. PlaceType' /\ TrailType' /\ CallType'
      BY <2>2, <2>3, <2>4, <2>5, <2>6, ConcludeType
    <2> QED BY <1>2, <1>7, <2>7 DEF RescanSucceeds, ShownType, shown
  <1>8. CASE ListingFails \/ ReconnectFails
    BY <1>8, ClearType DEF ListingFails, ReconnectFails
  <1>9. CASE Reconnects
    <2>1. call' \in Activations
      BY <1>1, <1>9 DEF Reconnects, Activations
    <2>2. PlaceType'
      <3>1. CASE call.at \in {"scan", "rescan"}
        BY <1>9, <3>1 DEF Reconnects, PlaceType
      <3>2. CASE call.at \notin {"scan", "rescan"}
        BY <1>2, <1>9, <3>2 DEF Reconnects, PlaceType, place
      <3> QED BY <3>1, <3>2
    <2> QED BY <1>2, <1>9, <2>1, <2>2 DEF Reconnects, ShownType, TrailType, CallType, shown, trail
  <1> QED BY <1>3, <1>4, <1>5, <1>6, <1>7, <1>8, <1>9 DEF CallStep

(* open() is started on a file of the universe, of the listing or of the   *)
(* path: in each case on a directory and a name.                           *)
LEMMA StartType ==
  ASSUME DocType, NEW fs \in FileSystems \union {None}, NEW d \in Dirs, NEW n \in Names,
         NEW force \in BOOLEAN, NEW hint \in Hints, Start(fs, d, n, force, hint)
  PROVE  DocType'
  <1>1. diridx \in Nat
    BY DEF DocType
  <1>2. CallType'
    BY <1>1, ActivationType DEF Start, CallType
  <1> QED BY <1>2 DEF Start, DocType, CallType, shown, place, trail

LEMMA UniverseParts ==
  ASSUME NEW f \in Universe
  PROVE  f.fs \in FileSystems /\ f.dir \in Dirs /\ f.name \in Names
  BY DocAssumption DEF DocAssumption

LEMMA ListedParts ==
  ASSUME DocType, NEW i \in DOMAIN dirfiles
  PROVE  dir \in Dirs /\ dirfiles[i] \in Names
  BY DEF DocType

LEMMA UserType ==
  ASSUME DocType, OpenFile \/ Navigate \/ Click \/ Refresh \/ SlideShow
  PROVE  DocType'
  <1>1. unifs \in FileSystems \union {None}
    BY DEF DocType
  <1>2. CASE OpenFile
    <2>1. PICK f \in Universe : Start(f.fs, f.dir, f.name, TRUE, "none")
      BY <1>2 DEF OpenFile
    <2> QED BY <2>1, StartType, UniverseParts DEF Hints
  <1>3. CASE Navigate
    <2>1. PICK move \in {<<diridx - 1, "before">>, <<diridx + 1, "after">>,
                         <<1, "after">>, <<Len(dirfiles), "after">>} :
            /\ move[1] \in DOMAIN dirfiles
            /\ Start(unifs, dir, dirfiles[move[1]], FALSE, move[2])
      BY <1>3 DEF Navigate
    <2>2. move[2] \in Hints
      BY DEF Hints
    <2> QED BY <1>1, <2>1, <2>2, StartType, ListedParts
  <1>4. CASE Click
    <2>1. PICK i \in DOMAIN list.rows :
            IF i \in DOMAIN dirfiles /\ path # PathOf(dir, dirfiles[i])
            THEN Start(unifs, dir, dirfiles[i], FALSE, "after")
            ELSE UNCHANGED <<disk, shown, place, trail, call, deleting>>
      BY <1>4 DEF Click
    <2>2. CASE i \in DOMAIN dirfiles /\ path # PathOf(dir, dirfiles[i])
      BY <1>1, <2>1, <2>2, StartType, ListedParts DEF Hints
    <2>3. CASE ~(i \in DOMAIN dirfiles /\ path # PathOf(dir, dirfiles[i]))
      BY <2>1, <2>3 DEF DocType, shown, place, trail
    <2> QED BY <2>2, <2>3
  <1>5. CASE Refresh
    <2>1. path.dir \in Dirs /\ path.name \in Names
      BY <1>5 DEF Refresh, DocType
    <2> QED BY <1>1, <1>5, <2>1, StartType DEF Refresh, Hints
  <1>6. CASE SlideShow
    <2>1. PICK f \in Universe :
            \/ Start("local", f.dir, f.name, FALSE, "after")
            \/ Start(unifs, f.dir, f.name, FALSE, "after")
      BY <1>6 DEF SlideShow
    <2>2. CASE Start("local", f.dir, f.name, FALSE, "after")
      BY <2>2, StartType, UniverseParts DEF Hints, FileSystems
    <2>3. CASE Start(unifs, f.dir, f.name, FALSE, "after")
      BY <1>1, <2>3, StartType, UniverseParts DEF Hints
    <2> QED BY <2>1, <2>2, <2>3
  <1> QED BY <1>2, <1>3, <1>4, <1>5, <1>6

(* The file to open after a deletion is in the listing.                    *)
LEMMA NextIndexType ==
  ASSUME NEW files \in Seq(Names), files # <<>>, NEW i \in 1 .. Len(files) + 1, NEW deleted
  PROVE  NextIndex(files, i, deleted) \in 1 .. Len(files)
  <1>1. Len(files) \in Nat \ {0}
    OBVIOUS
  <1>2. Min({i, Len(files)}) \in 1 .. Len(files)
    BY <1>1 DEF Min
  <1> QED BY <1>1, <1>2 DEF NextIndex

LEMMA AfterDeleteType ==
  ASSUME DocType, NEW i \in 1 .. Len(dirfiles), NEW deleted,
         NEW gone \in Universe, AfterDelete(i, deleted, gone)
  PROVE  ShownType' /\ PlaceType' /\ TrailType' /\ CallType'
  <1> DEFINE files == RemoveAt(dirfiles, i)
             next  == NextIndex(files, i, deleted)
  <1>1. dirfiles \in Seq(Names) /\ dirfiles # <<>> /\ dir \in Dirs
    BY DEF DocType
  <1>2. files \in Seq(Names) /\ Len(files) = Len(dirfiles) - 1
    BY <1>1, RemoveAtType
  <1>3. CASE files = <<>>
    BY <1>3 DEF AfterDelete, DocType, ShownType, PlaceType, TrailType, CallType
  <1>4. CASE files # <<>>
    <2> DEFINE hint == IF next >= i THEN "after" ELSE "before"
    <2>1. /\ dirfiles' = files /\ diridx' = 0 /\ UNCHANGED <<shown, dir, trail>>
          /\ call' = Activation(unifs, dir, files[next], FALSE, hint, 0, gone)
      BY <1>4 DEF AfterDelete
    <2>2. next \in 1 .. Len(files)
      <3>1. i \in 1 .. Len(files) + 1
        BY <1>1, <1>2
      <3> HIDE DEF files
      <3> QED BY <1>2, <1>4, <3>1, NextIndexType
    <2> HIDE DEF files, next
    <2>3. files[next] \in Names
      BY <1>2, <2>2
    <2>4. hint \in Hints
      BY DEF Hints
    <2> HIDE DEF hint
    <2>5. CallType'
      <3>1. unifs \in FileSystems \union {None}
        BY DEF DocType
      <3> QED BY <1>1, <2>1, <2>3, <2>4, <3>1, ActivationType DEF CallType
    <2>6. PlaceType'
      BY <1>1, <1>2, <2>1, DocAssumption DEF PlaceType, DocAssumption
    <2> QED BY <2>1, <2>5, <2>6 DEF DocType, ShownType, TrailType, shown, trail
  <1> QED BY <1>3, <1>4

LEMMA DeleteType ==
  ASSUME DocType, Shell \/ DeleteRemote \/ DeleteRemoteFails \/ DeleteDies \/ DeleteLocal
  PROVE  DocType'
  <1>1. CASE DeleteRemote
    <2>1. diridx \in 1 .. Len(dirfiles) /\ FileAtIndex \in Universe
      BY <1>1 DEF DeleteRemote, DocType
    <2>2. ShownType' /\ PlaceType' /\ TrailType' /\ CallType'
      BY <1>1, <2>1, AfterDeleteType DEF DeleteRemote
    <2> QED BY <1>1, <2>2 DEF DeleteRemote, DocType, ShownType, PlaceType, TrailType, CallType
  <1>2. CASE DeleteRemoteFails
    <2>1. CASE path = None
      BY <1>2, <2>1 DEF DeleteRemoteFails, vars, DocType, shown, place, trail
    <2>2. CASE path # None
      <3>1. path.dir \in Dirs /\ path.name \in Names /\ unifs \in FileSystems \union {None}
        BY <2>2 DEF DocType
      <3> QED BY <1>2, <2>2, <3>1, StartType DEF DeleteRemoteFails, Hints
    <2> QED BY <2>1, <2>2
  <1>3. CASE DeleteLocal
    <2>1. diridx \in DOMAIN dirfiles
      BY <1>3 DEF DeleteLocal, DocType
    <2>2. dir \in Dirs /\ dirfiles[diridx] \in Names /\ unifs \in FileSystems
      BY <1>3, <2>1, ListedParts DEF DeleteLocal, FileSystems
    <2>3. diridx \in Nat \ {0}
      BY <1>3 DEF DeleteLocal, DocType
    <2>4. deleting' \in Deletions
      BY <1>3, <2>2, <2>3 DEF DeleteLocal, Deletions, FileAtIndex, File
    <2> QED BY <1>3, <2>4 DEF DeleteLocal, DocType, shown, place, trail
  <1>4. CASE DeleteLocalDone
    <2>1. deleting.idx \in 1 .. Len(dirfiles) /\ deleting.file \in Universe
      BY <1>4 DEF DeleteLocalDone, DocType, Deletions
    <2>2. ShownType' /\ PlaceType' /\ TrailType' /\ CallType'
      BY <1>4, <2>1, AfterDeleteType DEF DeleteLocalDone
    <2> QED BY <1>4, <2>2
          DEF DeleteLocalDone, DocType, ShownType, PlaceType, TrailType, CallType
  <1>5. CASE DeleteLocalFails
    <2>1. CallType'
      <3>1. CASE path = None
        BY <1>5, <3>1 DEF DeleteLocalFails, CallType
      <3>2. CASE path # None
        <4>1. path.dir \in Dirs /\ path.name \in Names /\ unifs \in FileSystems \union {None}
              /\ diridx \in Nat
          BY <3>2 DEF DocType
        <4> QED BY <1>5, <3>2, <4>1, ActivationType DEF DeleteLocalFails, CallType, Hints
      <3> QED BY <3>1, <3>2
    <2> QED BY <1>5, <2>1 DEF DeleteLocalFails, DocType, CallType, shown, place, trail
  <1>6. CASE DeleteLocalAborted
    BY <1>6 DEF DeleteLocalAborted, DocType, shown, place, trail
  <1>7. CASE DeleteDies
    BY <1>7 DEF DeleteDies, Ready, ClearOpenState, DocType
  <1> QED BY <1>1, <1>2, <1>3, <1>4, <1>5, <1>6, <1>7 DEF Shell

(* Every reachable document is well formed: in particular _diridx stays    *)
(* within _dirfiles, through every open(), refresh and deletion.           *)
THEOREM DocTypeCorrect == Spec => []DocType
  <1>1. Init => DocType
    BY DEF Init, DocType
  <1>2. DocType /\ [Next]_vars => DocType'
    <2> SUFFICES ASSUME DocType, [Next]_vars PROVE DocType'
      OBVIOUS
    <2>1. CASE CallStep
      <3>1. disk' \subseteq Universe
        BY <2>1, DiskStays DEF Next, DocType
      <3>2. UNCHANGED deleting
        BY <2>1 DEF CallStep, OpenSucceeds, OpenFails, ScanSucceeds, RetrySucceeds, RetryFails,
                    RescanSucceeds, ListingFails, Reconnects, ReconnectFails
      <3> QED BY <2>1, <3>1, <3>2, CallStepType
            DEF DocType, ShownType, PlaceType, TrailType, CallType
    <2>2. CASE User \/ SlideShow \/ Shell
      BY <2>2, UserType, DeleteType DEF User
    <2>3. CASE Others
      BY <2>3 DEF Others, DocType, shown, place, trail
    <2>4. CASE UNCHANGED vars
      BY <2>4 DEF vars, DocType, shown, place, trail
    <2> QED BY <2>1, <2>2, <2>3, <2>4 DEF Next
  <1> QED BY <1>1, <1>2, PTL DEF Spec

-----------------------------------------------------------------------------
(* Delete removes the file on display.  The strengthening follows an open()*)
(* step by step: between calls and at Step 1 the index is that of the      *)
(* image; a plain open() stays in the directory it was started in; the     *)
(* file the fallback chose exists and its directory is the one listed; and *)
(* when a rescan is due, the image is already the requested file.          *)
IndexShown == (call = None \/ call.at = "open") /\ diridx # 0 => image = FileAtIndex

StepShown ==
  call # None =>
    /\ call.at = "open" => ~call.scanned /\ (~call.force => call.dir = dir)
    /\ call.at = "retry" => /\ call.scanned /\ dir = call.dir
                            /\ File(call.fs, call.dir, call.target) \in disk
    /\ call.at = "rescan" => image = File(call.fs, call.dir, call.name) /\ unifs = call.fs

OnTarget == DocType /\ IndexShown /\ StepShown

LEMMA ShowOnTarget ==
  ASSUME Calm, OnTarget, call # None, NEW n, File(call.fs, call.dir, n) \in disk,
         Decoded(n) \/ Undecodable(n),
         \/ call.at = "open" /\ n = call.name
         \/ call.at = "retry" /\ n = call.target
  PROVE  IndexShown' /\ StepShown'
  <1>1. SUFFICES ASSUME Decoded(n) PROVE IndexShown' /\ StepShown'
    BY DEF Undecodable, IndexShown, StepShown
  <1>2. call \in Activations
    BY DEF OnTarget, DocType
  <1>3. CASE call.force /\ ~call.scanned
    <2>1. call.at = "open"
      BY <1>3 DEF OnTarget, StepShown
    <2>2. call' = [call EXCEPT !.at = "rescan", !.old = dirfiles]
      BY <1>1, <1>3 DEF Decoded
    <2>3. call'.at = "rescan" /\ call'.fs = call.fs /\ call'.dir = call.dir /\ call'.name = n
      BY <1>2, <2>1, <2>2 DEF Activations
    <2>4. image' = File(call.fs, call.dir, n) /\ unifs' = call.fs /\ diridx' = 0
      BY <1>1, <1>3 DEF Decoded
    <2> QED BY <2>3, <2>4 DEF IndexShown, StepShown
  <1>4. CASE ~(call.force /\ ~call.scanned)
    <2>1. Conclude(dir, dirfiles, IndexOf(dirfiles, n), n)
      BY <1>1, <1>4 DEF Decoded
    <2>2. call.dir = dir
      BY <1>4 DEF OnTarget, StepShown
    <2>3. IndexOf(dirfiles, n) # 0 => dirfiles[IndexOf(dirfiles, n)] = n
      BY IndexOfSound DEF OnTarget, DocType
    <2>4. image' = File(call.fs, call.dir, n) /\ unifs' = call.fs
      BY <1>1 DEF Decoded
    <2>5. call' = None /\ dir' = dir /\ dirfiles' = dirfiles /\ diridx' = IndexOf(dirfiles, n)
      BY <2>1 DEF Conclude
    <2> QED BY <2>2, <2>3, <2>4, <2>5 DEF IndexShown, StepShown, FileAtIndex
  <1> QED BY <1>3, <1>4

LEMMA ClearOnTarget ==
  ASSUME ClearOpenState, call' = None
  PROVE  IndexShown' /\ StepShown'
  BY DEF ClearOpenState, IndexShown, StepShown

LEMMA CallStepOnTarget ==
  ASSUME Calm, OnTarget, CallStep
  PROVE  IndexShown' /\ StepShown'
  <1>1. call # None => call \in Activations
    BY DEF OnTarget, DocType
  <1>2. CASE OpenSucceeds \/ RetrySucceeds
    BY <1>2, ShowOnTarget DEF OpenSucceeds, RetrySucceeds
  <1>3. CASE OpenFails
    <2>1. PICK lost \in BOOLEAN :
            call' = IF call.hint = "none" THEN None
                    ELSE [call EXCEPT !.at = "scan", !.old = dirfiles, !.lost = lost]
      BY <1>3 DEF OpenFails
    <2>2. call # None /\ call.at = "open" /\ UNCHANGED <<shown, place>>
      BY <1>3 DEF OpenFails
    <2>3. CASE call.hint = "none"
      BY <2>1, <2>2, <2>3 DEF OnTarget, IndexShown, StepShown, FileAtIndex, shown, place
    <2>4. CASE call.hint # "none"
      <3>1. call'.at = "scan"
        BY <1>1, <2>1, <2>2, <2>4 DEF Activations
      <3>2. call' \in Activations
        BY <1>1, <2>1, <2>2, <2>4 DEF Activations, Steps, OnTarget, DocType
      <3> QED BY <3>1, <3>2, NoneAssumption DEF IndexShown, StepShown
    <2> QED BY <2>3, <2>4
  <1>4. CASE ScanSucceeds
    <2>1. call \in Activations
      BY <1>1, <1>4 DEF ScanSucceeds
    <2>2. PICK s \in Listings(call.fs, call.dir) :
            IF s = <<>> THEN ClearOpenState /\ call' = None
            ELSE LET i == NearestIndex(s, call.name, call.hint)
                 IN  /\ dir' = call.dir /\ dirfiles' = s /\ diridx' = i
                     /\ call' = [call EXCEPT !.at = "retry", !.target = s[i], !.scanned = TRUE]
                     /\ UNCHANGED <<shown, trail, list>>
      BY <1>4 DEF ScanSucceeds
    <2>3. CASE s = <<>>
      BY <2>2, <2>3, ClearOnTarget
    <2>4. CASE s # <<>>
      <3> DEFINE i == NearestIndex(s, call.name, call.hint)
      <3>1. s \in Seq(Names) /\ \A j \in DOMAIN s : File(call.fs, call.dir, s[j]) \in disk
        BY ListingSound
      <3>2. i \in 1 .. Len(s)
        BY <2>4, <3>1, NearestIndexType
      <3>3. dir' = call.dir /\ call' = [call EXCEPT !.at = "retry", !.target = s[i], !.scanned = TRUE]
        BY <2>2, <2>4
      <3> HIDE DEF i
      <3>4. s[i] \in Names /\ File(call.fs, call.dir, s[i]) \in disk
        BY <3>1, <3>2
      <3>5. /\ call'.at = "retry" /\ call'.scanned /\ call'.target = s[i]
            /\ call'.dir = call.dir /\ call'.fs = call.fs
        BY <2>1, <3>3 DEF Activations
      <3>6. call' \in Activations
        BY <2>1, <3>3, <3>4 DEF Activations, Steps
      <3>7. disk' = disk
        BY <1>4 DEF ScanSucceeds
      <3> QED BY <3>3, <3>4, <3>5, <3>6, <3>7, NoneAssumption DEF IndexShown, StepShown, File
    <2> QED BY <2>3, <2>4
  <1>5. CASE RetryFails
    <2>1. File(call.fs, call.dir, call.target) \in disk
      BY <1>5 DEF RetryFails, OnTarget, StepShown
    <2> QED BY <1>5, <2>1 DEF RetryFails, FileRefused, LostAgain, Calm
  <1>6. CASE RescanSucceeds
    <2>1. PICK s \in Listings(call.fs, call.dir) :
            Conclude(call.dir, s, IndexIgnoringCase(s, call.name), call.name)
      BY <1>6 DEF RescanSucceeds
    <2> DEFINE i == IndexIgnoringCase(s, call.name)
    <2>2. s \in Seq(Names)
      BY ListingSound
    <2>3. i \in 0 .. Len(s) /\ (i # 0 => Key[s[i]] = Key[call.name])
      BY <2>2, IndexIgnoringCaseSound
    <2>4. dir' = call.dir /\ dirfiles' = s /\ diridx' = i /\ call' = None
      BY <2>1 DEF Conclude
    <2>5. call.name \in Names
      BY <1>1, <1>6 DEF RescanSucceeds, Activations
    <2> HIDE DEF i
    <2>6. i # 0 => s[i] = call.name
      <3>1. i # 0 => s[i] \in Names
        BY <2>2, <2>3
      <3> QED BY <2>3, <2>5, <3>1 DEF Calm
    <2>7. image' = File(call.fs, call.dir, call.name) /\ unifs' = call.fs
      BY <1>6 DEF RescanSucceeds, OnTarget, StepShown, shown
    <2> QED BY <2>4, <2>6, <2>7 DEF IndexShown, StepShown, FileAtIndex
  <1>7. CASE ListingFails \/ ReconnectFails
    BY <1>7, ClearOnTarget DEF ListingFails, ReconnectFails
  <1>8. CASE Reconnects
    <2>1. call \in Activations /\ call' = [call EXCEPT !.retried = TRUE]
      BY <1>1, <1>8 DEF Reconnects
    <2>2. /\ call'.at = call.at /\ call'.scanned = call.scanned /\ call'.force = call.force
          /\ call'.fs = call.fs /\ call'.dir = call.dir /\ call'.name = call.name
          /\ call'.target = call.target
      BY <2>1 DEF Activations
    <2>3. UNCHANGED <<disk, shown>>
      BY <1>8 DEF Reconnects
    <2>4. CASE call.at \in {"scan", "rescan"}
      <3>1. diridx' = 0
        BY <1>8, <2>4 DEF Reconnects
      <3> QED BY <1>8, <2>2, <2>3, <2>4, <3>1
            DEF Reconnects, OnTarget, IndexShown, StepShown, shown
    <2>5. CASE call.at \notin {"scan", "rescan"}
      <3>1. UNCHANGED place /\ call # None
        BY <1>8, <2>5 DEF Reconnects
      <3>2. call' # None
        BY <2>1, NoneAssumption DEF Activations
      <3> QED BY <2>2, <2>3, <2>5, <3>1, <3>2
            DEF OnTarget, IndexShown, StepShown, FileAtIndex, shown, place
    <2> QED BY <2>4, <2>5
  <1> QED BY <1>2, <1>3, <1>4, <1>5, <1>6, <1>7, <1>8 DEF CallStep

LEMMA StartOnTarget ==
  ASSUME OnTarget, call = None, NEW fs, NEW d, NEW n, NEW force, NEW hint,
         Start(fs, d, n, force, hint), force \/ d = dir
  PROVE  IndexShown' /\ StepShown'
  <1>1. call' # None => call'.at = "open" /\ ~call'.scanned /\ call'.force = force /\ call'.dir = d
    BY DEF Start, Activation
  <1>2. UNCHANGED <<shown, place>>
    BY DEF Start
  <1> QED BY <1>1, <1>2 DEF OnTarget, IndexShown, StepShown, FileAtIndex, shown, place

LEMMA UserOnTarget ==
  ASSUME OnTarget, OpenFile \/ Navigate \/ Click \/ Refresh
  PROVE  IndexShown' /\ StepShown'
  <1>1. CASE OpenFile
    BY <1>1, StartOnTarget DEF OpenFile, Ready
  <1>2. CASE Navigate
    BY <1>2, StartOnTarget DEF Navigate, Ready
  <1>3. CASE Click
    <2>1. PICK i \in DOMAIN list.rows :
            IF i \in DOMAIN dirfiles /\ path # PathOf(dir, dirfiles[i])
            THEN Start(unifs, dir, dirfiles[i], FALSE, "after")
            ELSE UNCHANGED <<disk, shown, place, trail, call, deleting>>
      BY <1>3 DEF Click
    <2>2. CASE Start(unifs, dir, dirfiles[i], FALSE, "after")
      BY <1>3, <2>2, StartOnTarget DEF Click, Ready
    <2>3. CASE UNCHANGED <<disk, shown, place, trail, call, deleting>>
      BY <1>3, <2>3
        DEF Click, Ready, OnTarget, IndexShown, StepShown, FileAtIndex, shown, place
    <2> QED BY <2>1, <2>2, <2>3
  <1>4. CASE Refresh
    BY <1>4, StartOnTarget DEF Refresh, Ready
  <1> QED BY <1>1, <1>2, <1>3, <1>4

LEMMA DeleteOnTarget ==
  ASSUME OnTarget, Shell \/ DeleteRemote \/ DeleteRemoteFails \/ DeleteDies \/ DeleteLocal
  PROVE  IndexShown' /\ StepShown'
  <1>1. ASSUME NEW i, NEW deleted, NEW gone, AfterDelete(i, deleted, gone)
        PROVE  IndexShown' /\ StepShown'
    BY <1>1 DEF AfterDelete, Activation, IndexShown, StepShown
  <1>2. CASE DeleteRemote \/ DeleteLocalDone
    BY <1>1, <1>2 DEF DeleteRemote, DeleteLocalDone
  <1>3. CASE DeleteRemoteFails
    <2>1. CASE path = None
      BY <1>3, <2>1 DEF DeleteRemoteFails, Ready, vars, OnTarget, IndexShown, StepShown,
                        FileAtIndex, shown, place
    <2>2. CASE path # None
      BY <1>3, <2>2, StartOnTarget DEF DeleteRemoteFails, Ready
    <2> QED BY <2>1, <2>2
  <1>4. CASE DeleteLocalFails
    <2>1. call' # None => call'.at = "open" /\ ~call'.scanned /\ call'.force
      BY <1>4 DEF DeleteLocalFails, Activation
    <2> QED BY <1>4, <2>1 DEF DeleteLocalFails, OnTarget, IndexShown, StepShown, FileAtIndex,
                              shown, place
  <1>5. CASE DeleteLocal \/ DeleteLocalAborted
    BY <1>5 DEF DeleteLocal, DeleteLocalAborted, Ready, OnTarget, IndexShown, StepShown,
                FileAtIndex, shown, place
  <1>6. CASE DeleteDies
    BY <1>6, ClearOnTarget DEF DeleteDies, Ready
  <1> QED BY <1>2, <1>3, <1>4, <1>5, <1>6 DEF Shell

LEMMA SpecOnTarget == ASSUME Calm PROVE Spec => []OnTarget
  <1>1. Init => IndexShown /\ StepShown
    BY DEF Init, IndexShown, StepShown
  <1>2. DocType /\ IndexShown /\ StepShown /\ [Next]_vars => (IndexShown /\ StepShown)'
    <2> SUFFICES ASSUME OnTarget, [Next]_vars PROVE (IndexShown /\ StepShown)'
      BY DEF OnTarget
    <2>1. CASE CallStep
      BY <2>1, CallStepOnTarget
    <2>2. CASE User \/ Shell
      BY <2>2, UserOnTarget, DeleteOnTarget DEF User
    <2>3. CASE SlideShow
      BY <2>3 DEF SlideShow, Calm
    <2>4. CASE Others
      <3>1. call = None
        BY <2>4 DEF Others, Calm
      <3> QED BY <2>4, <3>1 DEF Others, OnTarget, IndexShown, StepShown, FileAtIndex, shown, place
    <2>5. CASE UNCHANGED vars
      BY <2>5 DEF vars, OnTarget, IndexShown, StepShown, FileAtIndex, shown, place
    <2> QED BY <2>1, <2>2, <2>3, <2>4, <2>5 DEF Next
  <1> QED BY <1>1, <1>2, DocTypeCorrect, PTL DEF Spec, OnTarget
-----------------------------------------------------------------------------

(* Under the circumstances of Calm, removeCurrentFile() deletes the file   *)
(* that is on display, whatever opens, failed opens, refreshes, reconnects *)
(* and deletions came before.                                              *)
THEOREM DeleteIsSafe == ASSUME Calm PROVE Spec => []DeleteTargetsDisplayed
  <1>1. OnTarget => DeleteTargetsDisplayed
    BY DEF OnTarget, IndexShown, DeleteTargetsDisplayed, Ready
  <1> QED BY <1>1, SpecOnTarget, PTL

-----------------------------------------------------------------------------
(* What FirstOf finds is the least.                                        *)
LEMMA FirstOfLeast ==
  ASSUME NEW hits, hits \subseteq Nat \ {0}
  PROVE  /\ hits = {} => FirstOf(hits) = 0
         /\ hits # {} => FirstOf(hits) \in hits /\ \A j \in hits : FirstOf(hits) <= j
  <1>1. CASE hits = {}
    BY <1>1 DEF FirstOf
  <1>2. CASE hits # {}
    <2>1. \E i \in hits : \A j \in hits : i <= j
      BY <1>2, LeastElement
    <2>2. FirstOf(hits) = CHOOSE i \in hits : \A j \in hits : i <= j
      BY <1>2 DEF FirstOf
    <2> QED BY <1>2, <2>1, <2>2
  <1> QED BY <1>1, <1>2

LEMMA MinOfTwo ==
  ASSUME NEW m \in Int, NEW n \in Int
  PROVE  Min({m, n}) = IF m <= n THEN m ELSE n
  <1>1. \E x \in {m, n} : \A y \in {m, n} : x <= y
    OBVIOUS
  <1>2. Min({m, n}) \in {m, n} /\ Min({m, n}) <= m /\ Min({m, n}) <= n
    BY <1>1 DEF Min
  <1> QED BY <1>2

LEMMA MaxOfTwo ==
  ASSUME NEW m \in Int, NEW n \in Int
  PROVE  Max({m, n}) = IF m >= n THEN m ELSE n
  <1>1. \E x \in {m, n} : \A y \in {m, n} : x >= y
    OBVIOUS
  <1>2. Max({m, n}) \in {m, n} /\ Max({m, n}) >= m /\ Max({m, n}) >= n
    BY <1>1 DEF Max
  <1> QED BY <1>2

(* In a sorted listing the insertion point separates the files before the  *)
(* missing one from those after it.                                        *)
LEMMA NearestIsNearest ==
  ASSUME NEW s \in Seq(Names), s # <<>>, Sorted(s), NEW n \in Names, NEW hint
  PROVE  LET there  == ToSet(s)
             before == {m \in there : Key[m] < Key[n]}
             after  == there \ before
             target == s[NearestIndex(s, n, hint)]
         IN  IF before = {} \/ (hint = "after" /\ after # {})
             THEN target \in after /\ \A m \in after : Key[target] <= Key[m]
             ELSE target \in before /\ \A m \in before : Key[target] >= Key[m]
  <1> DEFINE there  == ToSet(s)
             before == {m \in there : Key[m] < Key[n]}
             after  == there \ before
             near   == NearestIndex(s, n, hint)
             hits   == {i \in DOMAIN s : Key[s[i]] >= Key[n]}
             first  == FirstOf(hits)
             pos    == IF first = 0 THEN Len(s) + 1 ELSE first
  <1>1. Len(s) \in Nat \ {0} /\ DOMAIN s = 1 .. Len(s) /\ there = {s[i] : i \in DOMAIN s}
    BY DEF ToSet
  <1>2. Key[n] \in Nat /\ \A i \in DOMAIN s : s[i] \in Names /\ Key[s[i]] \in Nat
    BY KeyAssumption DEF KeyAssumption, Names
  <1>3. \A i, j \in DOMAIN s : i <= j => Key[s[i]] <= Key[s[j]]
    <2> SUFFICES ASSUME NEW i \in DOMAIN s, NEW j \in DOMAIN s, i <= j
                 PROVE  Key[s[i]] <= Key[s[j]]
      OBVIOUS
    <2>1. CASE i = j
      BY <1>2, <2>1
    <2>2. CASE i # j
      BY <1>1, <2>2 DEF Sorted
    <2> QED BY <2>1, <2>2
  <1>4. near = IF hint = "after" THEN Min({pos, Len(s)}) ELSE Max({1, pos - 1})
    BY DEF NearestIndex
  <1>5. hits \subseteq Nat \ {0} /\ hits \subseteq DOMAIN s
    BY <1>1
  <1>6. \A i \in DOMAIN s : s[i] \in before <=> i \notin hits
    BY <1>1, <1>2
  <1>7. \A i \in DOMAIN s : s[i] \in after <=> i \in hits
    BY <1>1, <1>6
  <1>8. \A m \in before \union after : \E i \in DOMAIN s : m = s[i]
    BY <1>1
  <1>9. before \subseteq there /\ after \subseteq there
    OBVIOUS
  <1>10. CASE hits = {}
    <2>1. first = 0
      BY <1>5, <1>10, FirstOfLeast
    <2>2. near = Len(s)
      BY <1>1, <1>4, <2>1, MinOfTwo, MaxOfTwo
    <2> HIDE DEF before, after, hits, first, near
    <2>3. s[Len(s)] \in before /\ after = {}
      BY <1>1, <1>6, <1>7, <1>8, <1>10
    <2>4. \A m \in before : Key[s[Len(s)]] >= Key[m]
      BY <1>1, <1>2, <1>3, <1>8
    <2>5. s[near] \in before /\ after = {} /\ before # {} /\ \A m \in before : Key[s[near]] >= Key[m]
      BY <2>2, <2>3, <2>4
    <2> QED BY <2>5 DEF before, after, near
  <1>11. CASE hits # {}
    <2>1. first \in hits /\ \A j \in hits : first <= j
      BY <1>5, <1>11, FirstOfLeast
    <2>2. first \in 1 .. Len(s) /\ pos = first
      BY <1>1, <1>5, <2>1
    <2>3. near = IF hint = "after" THEN first ELSE IF first = 1 THEN 1 ELSE first - 1
      BY <1>1, <1>4, <2>2, MinOfTwo, MaxOfTwo
    <2> HIDE DEF before, after, hits, first, near
    <2>4. s[first] \in after /\ \A m \in after : Key[s[first]] <= Key[m]
      BY <1>1, <1>3, <1>5, <1>7, <1>8, <2>1
    <2>5. CASE hint = "after" \/ first = 1
      <3>1. near = first
        BY <2>3, <2>5
      <3>2. first = 1 => before = {}
        <4>1. ASSUME first = 1, NEW m \in before PROVE FALSE
          <5>1. PICK i \in DOMAIN s : m = s[i]
            BY <1>8
          <5>2. s[i] \in before /\ Key[s[first]] <= Key[s[i]]
            BY <1>1, <1>3, <2>2, <4>1, <5>1
          <5> QED BY <1>2, <1>5, <2>1, <5>2 DEF before, hits
        <4> QED BY <4>1
      <3>3. before = {} \/ (hint = "after" /\ after # {})
        BY <2>4, <2>5, <3>2
      <3>4. s[near] \in after /\ \A m \in after : Key[s[near]] <= Key[m]
        BY <2>4, <3>1
      <3> QED BY <3>3, <3>4 DEF before, after, near
    <2>6. CASE ~(hint = "after" \/ first = 1)
      <3>1. near = first - 1 /\ near \in DOMAIN s
        BY <1>1, <2>2, <2>3, <2>6
      <3>2. s[near] \in before
        BY <1>1, <1>6, <2>1, <2>2, <3>1
      <3>3. \A m \in before : Key[s[near]] >= Key[m]
        <4> SUFFICES ASSUME NEW m \in before PROVE Key[s[near]] >= Key[m]
          OBVIOUS
        <4>1. PICK i \in DOMAIN s : m = s[i]
          BY <1>8
        <4>2. ~(first <= i)
          <5>1. first <= i => Key[s[first]] <= Key[s[i]]
            BY <1>1, <1>3, <2>2
          <5> QED BY <1>2, <1>5, <2>1, <4>1, <5>1 DEF before, hits
        <4>3. i <= near
          BY <1>1, <2>2, <3>1, <4>2
        <4> QED BY <1>2, <1>3, <3>1, <4>1, <4>3
      <3>4. ~(before = {} \/ (hint = "after" /\ after # {}))
        BY <2>6, <3>2
      <3> QED BY <3>2, <3>3, <3>4 DEF before, after, near
    <2> QED BY <2>5, <2>6
  <1> QED BY <1>10, <1>11

(* From the listing to the second openfile() nothing touches either.       *)
LEMMA NearestKept ==
  ASSUME FallbackIsNearest,
         call' # None /\ call'.at = "retry" =>
           /\ call # None /\ call.at = "retry" /\ dirfiles' = dirfiles
           /\ call'.name = call.name /\ call'.hint = call.hint /\ call'.target = call.target
  PROVE  FallbackIsNearest'
  BY DEF FallbackIsNearest

LEMMA NearestNext ==
  ASSUME DocType, FallbackIsNearest, Next
  PROVE  FallbackIsNearest'
  <1>1. CASE ScanSucceeds
    <2>1. call # None /\ call \in Activations
      BY <1>1 DEF ScanSucceeds, DocType
    <2>2. PICK s \in Listings(call.fs, call.dir) :
            IF s = <<>> THEN ClearOpenState /\ call' = None
            ELSE LET i == NearestIndex(s, call.name, call.hint)
                 IN  /\ dir' = call.dir /\ dirfiles' = s /\ diridx' = i
                     /\ call' = [call EXCEPT !.at = "retry", !.target = s[i], !.scanned = TRUE]
                     /\ UNCHANGED <<shown, trail, list>>
      BY <1>1 DEF ScanSucceeds
    <2>3. CASE s = <<>>
      BY <2>2, <2>3 DEF FallbackIsNearest
    <2>4. CASE s # <<>>
      <3> DEFINE i == NearestIndex(s, call.name, call.hint)
      <3>1. s \in Seq(Names) /\ Sorted(s)
        BY ListingSound DEF Listings
      <3>2. dirfiles' = s /\ call' = [call EXCEPT !.at = "retry", !.target = s[i], !.scanned = TRUE]
        BY <2>2, <2>4
      <3>3. call'.name = call.name /\ call'.hint = call.hint /\ call'.target = s[i]
        BY <2>1, <3>2 DEF Activations
      <3>4. call.name \in Names
        BY <2>1 DEF Activations
      <3> QED BY <2>4, <3>1, <3>2, <3>3, <3>4, NearestIsNearest DEF FallbackIsNearest
    <2> QED BY <2>3, <2>4
  <1>2. CASE OpenSucceeds \/ RetrySucceeds
    <2>1. PICK n : Decoded(n) \/ Undecodable(n)
      BY <1>2 DEF OpenSucceeds, RetrySucceeds
    <2>2. call # None /\ call \in Activations
      BY <1>2 DEF OpenSucceeds, RetrySucceeds, DocType
    <2>3. call' = None \/ call'.at = "rescan"
      BY <2>1, <2>2 DEF Decoded, Conclude, Undecodable, Activations
    <2> QED BY <2>3, NearestKept
  <1>3. CASE OpenFails
    <2>1. call \in Activations
      BY <1>3 DEF OpenFails, DocType
    <2>2. call' = None \/ call'.at = "scan"
      BY <1>3, <2>1 DEF OpenFails, Activations
    <2> QED BY <2>2, NearestKept
  <1>4. CASE RetryFails \/ RescanSucceeds \/ ListingFails \/ ReconnectFails
    <2>1. call' = None
      BY <1>4 DEF RetryFails, RescanSucceeds, ListingFails, ReconnectFails, Conclude
    <2> QED BY <2>1, NearestKept
  <1>5. CASE Reconnects
    <2>1. call \in Activations /\ call' = [call EXCEPT !.retried = TRUE] /\ call # None
      BY <1>5 DEF Reconnects, DocType
    <2>2. /\ call'.at = call.at /\ call'.name = call.name
          /\ call'.hint = call.hint /\ call'.target = call.target
      BY <2>1 DEF Activations
    <2>3. call.at = "retry" => dirfiles' = dirfiles
      BY <1>5 DEF Reconnects, place
    <2> QED BY <2>1, <2>2, <2>3, NearestKept
  <1>6. CASE OpenFile \/ Navigate \/ Refresh \/ SlideShow
    <2>1. call' # None => call'.at = "open"
      BY <1>6 DEF Activation, OpenFile, Navigate, Refresh, SlideShow, Start
    <2> QED BY <2>1, NearestKept
  <1>7. CASE Click
    <2>1. call = None /\ (call' = call \/ (call' # None => call'.at = "open"))
      BY <1>7 DEF Activation, Click, Ready, Start
    <2> QED BY <2>1, NearestKept
  <1>8. CASE DeleteRemote \/ DeleteLocalDone
    <2>1. PICK i, deleted, gone : AfterDelete(i, deleted, gone)
      BY <1>8 DEF DeleteRemote, DeleteLocalDone
    <2>2. call' # None => call'.at = "open"
      BY <2>1 DEF Activation, AfterDelete
    <2> QED BY <2>2, NearestKept
  <1>9. CASE DeleteRemoteFails \/ DeleteLocalFails
    <2>1. call = None /\ (call' = call \/ (call' # None => call'.at = "open"))
      BY <1>9 DEF Activation, DeleteRemoteFails, DeleteLocalFails, Ready, Start, vars
    <2> QED BY <2>1, NearestKept
  <1>10. CASE DeleteLocal \/ DeleteLocalAborted \/ Others
    <2>1. call' = call /\ dirfiles' = dirfiles
      BY <1>10 DEF DeleteLocal, DeleteLocalAborted, Others, place
    <2> QED BY <2>1, NearestKept
  <1>11. CASE DeleteDies
    <2>1. call' = None
      BY <1>11 DEF DeleteDies, Ready
    <2> QED BY <2>1, NearestKept
  <1> QED BY <1>1, <1>2, <1>3, <1>4, <1>5, <1>6, <1>7, <1>8, <1>9, <1>10, <1>11
          DEF Next, CallStep, User, Shell

(* openfile() has failed, and the fallback of open() takes the file next   *)
(* to the missing one in the direction of dirHint (Doc.cpp:196-214): under *)
(* every fault, every slide show and whatever other programs do meanwhile. *)
THEOREM FallbackTakesNearest == Spec => []FallbackIsNearest
  <1>1. Init => FallbackIsNearest
    BY DEF Init, FallbackIsNearest
  <1>2. DocType /\ FallbackIsNearest /\ [Next]_vars => FallbackIsNearest'
    <2>1. ASSUME FallbackIsNearest, UNCHANGED vars PROVE FallbackIsNearest'
      BY <2>1 DEF vars, place, FallbackIsNearest
    <2> QED BY <2>1, NearestNext
  <1> QED BY <1>1, <1>2, DocTypeCorrect, PTL DEF Spec

-----------------------------------------------------------------------------
(* The open() that follows a deletion: the file is gone from the disk, and *)
(* nothing falls short of the fallback.                                    *)
GoneIsGone ==
  call # None /\ call.gone # None =>
    call.gone \notin disk /\ call.hint # "none" /\ ~call.force /\ call.at # "rescan"

(* The file n is opened, or the open() goes on with the same request.      *)
LEMMA GoneCallStep ==
  ASSUME Calm, OnTarget, GoneIsGone, CallStep
  PROVE  /\ GoneIsGone'
         /\ call # None /\ call.gone # None /\ call' = None => image' # call.gone
  <1>1. call # None /\ call \in Activations /\ disk' = disk /\ disk \subseteq Universe
    BY DEF CallStep, OpenSucceeds, OpenFails, ScanSucceeds, RetrySucceeds, RetryFails,
           RescanSucceeds, ListingFails, Reconnects, ReconnectFails, OnTarget, DocType
  <1>2. CASE OpenSucceeds \/ RetrySucceeds
    <2>1. PICK n : /\ File(call.fs, call.dir, n) \in disk
                   /\ Decoded(n) \/ Undecodable(n)
      BY <1>2 DEF OpenSucceeds, RetrySucceeds
    <2>2. SUFFICES ASSUME Decoded(n)
                   PROVE  /\ GoneIsGone'
                          /\ call # None /\ call.gone # None /\ call' = None => image' # call.gone
      BY <2>1 DEF Undecodable, GoneIsGone
    <2>3. image' \in disk
      BY <2>1, <2>2 DEF Decoded
    <2>4. CASE call.force /\ ~call.scanned
      <3>1. call.gone = None /\ call' = [call EXCEPT !.at = "rescan", !.old = dirfiles]
        BY <1>1, <2>2, <2>4 DEF Decoded, GoneIsGone
      <3>2. call'.gone = None
        BY <1>1, <3>1 DEF Activations
      <3> QED BY <3>1, <3>2 DEF GoneIsGone
    <2>5. CASE ~(call.force /\ ~call.scanned)
      <3>1. call' = None
        BY <2>2, <2>5 DEF Decoded, Conclude
      <3> QED BY <2>3, <3>1 DEF GoneIsGone
    <2> QED BY <2>4, <2>5
  <1>3. CASE OpenFails
    <2>1. PICK lost \in BOOLEAN :
            call' = IF call.hint = "none" THEN None
                    ELSE [call EXCEPT !.at = "scan", !.old = dirfiles, !.lost = lost]
      BY <1>3 DEF OpenFails
    <2>2. CASE call.hint = "none"
      BY <2>1, <2>2 DEF GoneIsGone
    <2>3. CASE call.hint # "none"
      <3>1. /\ call'.gone = call.gone /\ call'.hint = call.hint /\ call'.force = call.force
            /\ call'.at = "scan"
        BY <1>1, <2>1, <2>3 DEF Activations
      <3>2. call' # None
        <4>1. [call EXCEPT !.at = "scan", !.old = dirfiles, !.lost = lost] \in Activations
          BY <1>1 DEF Activations, Steps, OnTarget, DocType
        <4> QED BY <2>1, <2>3, <4>1, NoneAssumption
      <3> QED BY <1>1, <3>1, <3>2 DEF GoneIsGone
    <2> QED BY <2>2, <2>3
  <1>4. CASE ScanSucceeds
    <2>1. PICK target \in Names :
            \/ ClearOpenState /\ call' = None
            \/ call' = [call EXCEPT !.at = "retry", !.target = target, !.scanned = TRUE]
      <3>1. PICK s \in Listings(call.fs, call.dir) :
              IF s = <<>> THEN ClearOpenState /\ call' = None
              ELSE call' = [call EXCEPT !.at = "retry", !.target = s[NearestIndex(s, call.name, call.hint)],
                                        !.scanned = TRUE]
        BY <1>4 DEF ScanSucceeds
      <3>2. s \in Seq(Names)
        BY ListingSound
      <3>3. CASE s = <<>>
        <4>1. \E n : n \in Names
          BY <1>1 DEF Activations
        <4> QED BY <3>1, <3>3, <4>1
      <3>4. CASE s # <<>>
        <4>1. s[NearestIndex(s, call.name, call.hint)] \in Names
          BY <3>2, <3>4, NearestIndexType
        <4> QED BY <3>1, <3>4, <4>1
      <3> QED BY <3>3, <3>4
    <2>2. CASE ClearOpenState /\ call' = None
      BY <2>2 DEF ClearOpenState, GoneIsGone
    <2>3. CASE call' = [call EXCEPT !.at = "retry", !.target = target, !.scanned = TRUE]
      <3>1. /\ call'.gone = call.gone /\ call'.hint = call.hint /\ call'.force = call.force
            /\ call'.at = "retry"
        BY <1>1, <2>3 DEF Activations
      <3>2. call' # None
        <4>1. call' \in Activations
          BY <1>1, <2>3 DEF Activations, Steps
        <4> QED BY <4>1, NoneAssumption
      <3> QED BY <1>1, <3>1, <3>2 DEF GoneIsGone
    <2> QED BY <2>1, <2>2, <2>3
  <1>5. CASE RetryFails
    <2>1. File(call.fs, call.dir, call.target) \in disk
      BY <1>5 DEF RetryFails, OnTarget, StepShown
    <2> QED BY <1>5, <2>1 DEF RetryFails, FileRefused, LostAgain, Calm
  <1>6. CASE RescanSucceeds
    BY <1>6 DEF RescanSucceeds, Conclude, GoneIsGone
  <1>7. CASE ListingFails \/ ReconnectFails
    BY <1>7 DEF ListingFails, ReconnectFails, ClearOpenState, GoneIsGone
  <1>8. CASE Reconnects
    <2>1. call' = [call EXCEPT !.retried = TRUE]
      BY <1>8 DEF Reconnects
    <2>2. /\ call'.gone = call.gone /\ call'.hint = call.hint /\ call'.force = call.force
          /\ call'.at = call.at
      BY <1>1, <2>1 DEF Activations
    <2>3. call' # None
      <3>1. call' \in Activations
        BY <1>1, <2>1 DEF Activations
      <3> QED BY <3>1, NoneAssumption
    <2> QED BY <1>1, <2>2, <2>3 DEF GoneIsGone
  <1> QED BY <1>2, <1>3, <1>4, <1>5, <1>6, <1>7, <1>8 DEF CallStep

LEMMA GoneElse ==
  ASSUME Calm, GoneIsGone, User \/ Shell \/ Others \/ UNCHANGED vars
  PROVE  /\ GoneIsGone'
         /\ ~UNCHANGED vars => call = None
  <1>1. CASE OpenFile \/ Navigate \/ Refresh
    BY <1>1 DEF OpenFile, Navigate, Refresh, Start, Ready, Activation, GoneIsGone
  <1>2. CASE Click
    BY <1>2 DEF Click, Start, Ready, Activation, GoneIsGone
  <1>3. CASE DeleteRemote \/ DeleteLocalDone
    <2>1. PICK i, deleted, gone : AfterDelete(i, deleted, gone) /\ gone \notin disk'
      BY <1>3 DEF DeleteRemote, DeleteLocalDone
    <2>2. call' # None => /\ call'.gone = gone /\ call'.hint # "none" /\ ~call'.force
                          /\ call'.at = "open"
      BY <2>1 DEF AfterDelete, Activation
    <2> QED BY <1>3, <2>1, <2>2 DEF GoneIsGone, DeleteRemote, DeleteLocalDone, Ready
  <1>4. CASE DeleteRemoteFails \/ DeleteLocalFails
    BY <1>4 DEF DeleteRemoteFails, DeleteLocalFails, Start, Ready, Activation, GoneIsGone, vars
  <1>5. CASE DeleteLocal \/ DeleteLocalAborted \/ Others
    BY <1>5 DEF DeleteLocal, DeleteLocalAborted, Others, Ready, GoneIsGone, Calm
  <1>6. CASE UNCHANGED vars
    BY <1>6 DEF GoneIsGone, vars
  <1>7. CASE DeleteDies
    BY <1>7 DEF DeleteDies, Ready, GoneIsGone
  <1> QED BY <1>1, <1>2, <1>3, <1>4, <1>5, <1>6, <1>7 DEF User, Shell

-----------------------------------------------------------------------------
(* Induction over a set of numbers, and functions defined by recursion.     *)
LEMMA Induction ==
  ASSUME NEW S, 0 \in S, \A n \in Nat : n \in S => n + 1 \in S
  PROVE  \A n \in Nat : n \in S
  <1> SUFFICES ASSUME Nat \ S # {} PROVE FALSE
    OBVIOUS
  <1>1. PICK x \in Nat \ S : \A y \in Nat \ S : x <= y
    BY LeastElement
  <1>2. x # 0 /\ x - 1 \in Nat
    BY <1>1
  <1>3. x - 1 \in S
    BY <1>1, <1>2
  <1> QED BY <1>1, <1>2, <1>3

LEMMA Recursion ==
  ASSUME NEW T, NEW a \in T, NEW G \in [T -> T]
  PROVE  \E f \in [Nat -> T] : f[0] = a /\ \A n \in Nat : f[n + 1] = G[f[n]]
  <1> DEFINE Part(n) == {g \in [0 .. n -> T] : g[0] = a /\ \A i \in 0 .. n - 1 : g[i + 1] = G[g[i]]}
             S == {n \in Nat : Part(n) # {}}
  <1>1. 0 \in S
    <2>1. [i \in 0 .. 0 |-> a] \in Part(0)
      OBVIOUS
    <2> QED BY <2>1
  <1>2. ASSUME NEW n \in Nat, n \in S PROVE n + 1 \in S
    <2>1. PICK g \in Part(n) : TRUE
      BY <1>2
    <2> DEFINE h == [i \in 0 .. n + 1 |-> IF i = n + 1 THEN G[g[n]] ELSE g[i]]
    <2>2. g \in [0 .. n -> T] /\ g[n] \in T /\ G[g[n]] \in T
      BY <2>1
    <2>3. h \in [0 .. n + 1 -> T] /\ h[0] = a
      BY <2>1, <2>2
    <2>4. ASSUME NEW i \in 0 .. n PROVE h[i + 1] = G[h[i]]
      <3>1. CASE i = n
        BY <3>1
      <3>2. CASE i # n
        BY <2>1, <3>2
      <3> QED BY <3>1, <3>2
    <2>5. (n + 1) - 1 = n
      OBVIOUS
    <2> HIDE DEF h
    <2> QED BY <2>3, <2>4, <2>5
  <1>3. ASSUME NEW n \in Nat PROVE Part(n) # {}
    <2> HIDE DEF S
    <2>1. n \in S
      BY <1>1, <1>2, Induction
    <2> QED BY <2>1 DEF S
  <1>4. ASSUME NEW m \in Nat, NEW n \in Nat, NEW g \in Part(m), NEW h \in Part(n)
        PROVE  \A i \in Nat : i <= m /\ i <= n => g[i] = h[i]
    <2> DEFINE A == {i \in Nat : i <= m /\ i <= n => g[i] = h[i]}
    <2>1. 0 \in A
      OBVIOUS
    <2>2. ASSUME NEW i \in Nat, i \in A PROVE i + 1 \in A
      BY <2>2
    <2>3. \A i \in Nat : i \in A
      <3> HIDE DEF A
      <3> QED BY <2>1, <2>2, Induction
    <2> QED BY <2>3
  <1> DEFINE pick(n) == CHOOSE g : g \in Part(n)
             f == [n \in Nat |-> pick(n)[n]]
  <1>5. ASSUME NEW n \in Nat PROVE pick(n) \in Part(n)
    BY <1>3
  <1> HIDE DEF pick
  <1>6. f \in [Nat -> T]
    BY <1>5
  <1>7. f[0] = a
    BY <1>5
  <1>8. ASSUME NEW n \in Nat PROVE f[n + 1] = G[f[n]]
    <2>1. pick(n + 1) \in Part(n + 1) /\ pick(n) \in Part(n)
      BY <1>5
    <2>2. pick(n + 1)[n + 1] = G[pick(n + 1)[n]]
      BY <2>1
    <2> HIDE DEF Part
    <2>3. pick(n + 1)[n] = pick(n)[n]
      BY <2>1, <1>4
    <2> QED BY <2>2, <2>3
  <1> QED BY <1>6, <1>7, <1>8

-----------------------------------------------------------------------------
(* The panel.  Every operation on its rows keeps the selected row within   *)
(* them.                                                                   *)
Panels == {l \in [rows : Seq(Names), sel : Nat] : l.sel <= Len(l.rows)}

LEMMA SelectRowPanel ==
  ASSUME NEW l \in Panels, NEW i
  PROVE  /\ SelectRow(l, i) \in Panels /\ SelectRow(l, i).rows = l.rows
         /\ i \in 1 .. Len(l.rows) => SelectRow(l, i).sel = i
         /\ i \notin 1 .. Len(l.rows) => SelectRow(l, i) = l
  <1>1. l.rows \in Seq(Names) /\ DOMAIN l.rows = 1 .. Len(l.rows) /\ l \in [rows : Seq(Names), sel : Nat]
    BY DEF Panels
  <1>2. CASE i \in 1 .. Len(l.rows)
    <2>1. SelectRow(l, i) = [l EXCEPT !.sel = i]
      BY <1>1, <1>2 DEF SelectRow
    <2>2. SelectRow(l, i).rows = l.rows /\ SelectRow(l, i).sel = i
      BY <1>1, <2>1
    <2>3. SelectRow(l, i) \in [rows : Seq(Names), sel : Nat]
      BY <1>1, <1>2, <2>1
    <2> QED BY <1>1, <1>2, <2>2, <2>3 DEF Panels
  <1>3. CASE i \notin 1 .. Len(l.rows)
    <2>1. SelectRow(l, i) = l
      BY <1>1, <1>3 DEF SelectRow
    <2> QED BY <1>3, <2>1
  <1> QED BY <1>2, <1>3

LEMMA DeleteRowPanel ==
  ASSUME NEW l \in Panels, NEW i
  PROVE  /\ DeleteRow(l, i) \in Panels
         /\ i \in 1 .. Len(l.rows) => DeleteRow(l, i).rows = RemoveAt(l.rows, i)
  <1>1. /\ l.rows \in Seq(Names) /\ DOMAIN l.rows = 1 .. Len(l.rows)
        /\ l.sel \in Nat /\ l.sel <= Len(l.rows) /\ Len(l.rows) \in Nat
    BY DEF Panels
  <1>2. CASE i \in 1 .. Len(l.rows)
    <2> DEFINE rows == RemoveAt(l.rows, i)
               sel == CASE l.sel = i -> 0
                        [] l.sel > i -> l.sel - 1
                        [] OTHER     -> l.sel
    <2>1. DeleteRow(l, i) = [rows |-> rows, sel |-> sel]
      BY <1>1, <1>2 DEF DeleteRow
    <2>2. rows \in Seq(Names) /\ Len(rows) = Len(l.rows) - 1
      BY <1>1, <1>2, RemoveAtType
    <2>3. sel \in Nat /\ sel <= Len(l.rows) - 1
      <3>1. CASE l.sel = i
        BY <1>1, <1>2, <3>1
      <3>2. CASE l.sel > i
        BY <1>1, <1>2, <3>2
      <3>3. CASE l.sel < i
        BY <1>1, <1>2, <3>3
      <3> QED BY <1>1, <1>2, <3>1, <3>2, <3>3
    <2> HIDE DEF rows, sel
    <2>4. DeleteRow(l, i) \in Panels /\ DeleteRow(l, i).rows = rows
      BY <2>1, <2>2, <2>3 DEF Panels
    <2> QED BY <2>4 DEF rows
  <1>3. CASE i \notin 1 .. Len(l.rows)
    BY <1>1, <1>3 DEF DeleteRow
  <1> QED BY <1>2, <1>3

LEMMA InsertAtType ==
  ASSUME NEW s \in Seq(Names), NEW i \in 1 .. Len(s) + 1, NEW n \in Names
  PROVE  InsertAt(s, i, n) \in Seq(Names) /\ Len(InsertAt(s, i, n)) = Len(s) + 1
  <1> DEFINE front == SubSeq(s, 1, i - 1)
             back  == SubSeq(s, i, Len(s))
  <1>1. front \in Seq(Names) /\ Len(front) = i - 1
    OBVIOUS
  <1>2. back \in Seq(Names) /\ Len(back) = Len(s) - i + 1
    OBVIOUS
  <1>3. InsertAt(s, i, n) = front \o <<n>> \o back
    BY DEF InsertAt
  <1> HIDE DEF front, back
  <1>4. front \o <<n>> \in Seq(Names) /\ Len(front \o <<n>>) = Len(front) + 1
    BY <1>1
  <1>5. /\ (front \o <<n>>) \o back \in Seq(Names)
        /\ Len((front \o <<n>>) \o back) = Len(front) + 1 + Len(back)
    BY <1>2, <1>4
  <1>6. Len(s) \in Nat /\ i \in Nat
    OBVIOUS
  <1> QED BY <1>1, <1>2, <1>3, <1>5, <1>6

LEMMA InsertRowPanel ==
  ASSUME NEW l \in Panels, NEW i \in Nat \ {0}, NEW n \in Names
  PROVE  /\ InsertRow(l, i, n) \in Panels
         /\ i <= Len(l.rows) + 1 => InsertRow(l, i, n).rows = InsertAt(l.rows, i, n)
  <1>1. l.rows \in Seq(Names) /\ l.sel \in Nat /\ l.sel <= Len(l.rows) /\ Len(l.rows) \in Nat
    BY DEF Panels
  <1> DEFINE at == IF i > Len(l.rows) THEN Len(l.rows) + 1 ELSE i
             rows == InsertAt(l.rows, at, n)
             sel == IF l.sel >= at THEN l.sel + 1 ELSE l.sel
  <1>2. InsertRow(l, i, n) = [rows |-> rows, sel |-> sel]
    BY DEF InsertRow
  <1>3. at \in 1 .. Len(l.rows) + 1 /\ (i <= Len(l.rows) + 1 => at = i)
    BY <1>1
  <1>4. rows \in Seq(Names) /\ Len(rows) = Len(l.rows) + 1
    BY <1>1, <1>3, InsertAtType
  <1>5. sel \in Nat /\ sel <= Len(l.rows) + 1
    BY <1>1, <1>3
  <1>6. i <= Len(l.rows) + 1 => rows = InsertAt(l.rows, i, n)
    BY <1>3
  <1> HIDE DEF rows, sel
  <1>7. InsertRow(l, i, n) \in Panels /\ InsertRow(l, i, n).rows = rows
    BY <1>1, <1>2, <1>4, <1>5 DEF Panels
  <1> QED BY <1>6, <1>7

-----------------------------------------------------------------------------
(* smoothRebuild().                                                        *)
Merging == [list : Panels, o : Nat \ {0}, n : Nat \ {0}, at : Nat \ {0}]

(* The four things a turn may do: nothing is left, the row of a file that  *)
(* is gone goes, a new file gets one, or a row stays.                      *)
RowGoes(st) == [st EXCEPT !.list = DeleteRow(st.list, st.at), !.o = @ + 1]
RowComes(st, new) == [st EXCEPT !.list = InsertRow(st.list, st.at, new[st.n]), !.at = @ + 1, !.n = @ + 1]
RowStays(st) == [st EXCEPT !.at = @ + 1, !.o = @ + 1, !.n = @ + 1]

LEMMA MergeStepIs ==
  ASSUME NEW st \in Merging, NEW old \in Seq(Names), NEW new \in Seq(Names)
  PROVE  LET next == MergeStep(st, old, new)
         IN  \/ st.o > Len(old) /\ st.n > Len(new) /\ next = st
             \/ st.o <= Len(old) /\ next = RowGoes(st)
             \/ st.n <= Len(new) /\ next = RowComes(st, new)
             \/ /\ st.o <= Len(old) /\ st.n <= Len(new) /\ Key[old[st.o]] = Key[new[st.n]]
                /\ next = RowStays(st)
  <1> DEFINE hasOld == st.o <= Len(old)
             hasNew == st.n <= Len(new)
             a == Key[old[st.o]]
             b == Key[new[st.n]]
  <1>1. MergeStep(st, old, new) = CASE ~hasOld /\ ~hasNew -> st
                                    [] hasOld /\ (hasNew => a < b) -> RowGoes(st)
                                    [] hasNew /\ (hasOld => a > b) -> RowComes(st, new)
                                    [] OTHER -> RowStays(st)
    BY Zenon DEF MergeStep, RowGoes, RowComes, RowStays
  <1>2. st.o \in Nat \ {0} /\ st.n \in Nat \ {0} /\ Len(old) \in Nat /\ Len(new) \in Nat
    BY DEF Merging
  <1>3. hasOld => a \in Nat
    BY <1>2, KeyAssumption DEF KeyAssumption, Names
  <1>4. hasNew => b \in Nat
    BY <1>2, KeyAssumption DEF KeyAssumption, Names
  <1>5. (~hasOld => st.o > Len(old)) /\ (~hasNew => st.n > Len(new))
    BY <1>2
  <1>6. hasOld /\ hasNew => a < b \/ a > b \/ a = b
    BY <1>3, <1>4
  <1>7. hasOld /\ hasNew => ~(a < b /\ a > b) /\ ~(a = b /\ a < b) /\ ~(a = b /\ a > b)
    BY <1>3, <1>4
  <1> HIDE DEF hasOld, hasNew, a, b
  <1>8. \/ ~hasOld /\ ~hasNew /\ MergeStep(st, old, new) = st
        \/ hasOld /\ MergeStep(st, old, new) = RowGoes(st)
        \/ hasNew /\ MergeStep(st, old, new) = RowComes(st, new)
        \/ hasOld /\ hasNew /\ a = b /\ MergeStep(st, old, new) = RowStays(st)
    BY <1>1, <1>6, <1>7
  <1> QED BY <1>5, <1>8, Zenon DEF hasOld, hasNew, a, b

LEMMA MergeStepType ==
  ASSUME NEW st \in Merging, NEW old \in Seq(Names), NEW new \in Seq(Names)
  PROVE  MergeStep(st, old, new) \in Merging
  <1>1. /\ st.list \in Panels /\ st.o \in Nat \ {0} /\ st.n \in Nat \ {0} /\ st.at \in Nat \ {0}
        /\ st.o + 1 \in Nat \ {0} /\ st.n + 1 \in Nat \ {0} /\ st.at + 1 \in Nat \ {0}
    BY DEF Merging
  <1>2. DeleteRow(st.list, st.at) \in Panels
    BY <1>1, DeleteRowPanel
  <1>3. st.n <= Len(new) => InsertRow(st.list, st.at, new[st.n]) \in Panels
    <2>1. st.n <= Len(new) => new[st.n] \in Names
      BY <1>1
    <2> QED BY <1>1, <2>1, InsertRowPanel
  <1>4. RowGoes(st) \in Merging
    BY <1>1, <1>2 DEF Merging, RowGoes
  <1>5. st.n <= Len(new) => RowComes(st, new) \in Merging
    BY <1>1, <1>3 DEF Merging, RowComes
  <1>6. RowStays(st) \in Merging
    BY <1>1 DEF Merging, RowStays
  <1> QED BY <1>4, <1>5, <1>6, MergeStepIs

MergeStart(l) == [list |-> l, o |-> 1, n |-> 1, at |-> 1]

LEMMA MergingRecursion ==
  ASSUME NEW a \in Merging, NEW G \in [Merging -> Merging]
  PROVE  \E f \in [Nat -> Merging] : f[0] = a /\ \A k \in Nat : f[k + 1] = G[f[k]]
  BY Recursion

LEMMA MergesStep ==
  ASSUME NEW l \in Panels, NEW old \in Seq(Names), NEW new \in Seq(Names)
  PROVE  /\ Merges(l, old, new)[0] = MergeStart(l)
         /\ \A k \in Nat : /\ Merges(l, old, new)[k] \in Merging
                           /\ Merges(l, old, new)[k + 1] = MergeStep(Merges(l, old, new)[k], old, new)
  <1> DEFINE t == Merges(l, old, new)
             start == MergeStart(l)
             G == [u \in Merging |-> MergeStep(u, old, new)]
  <1>1. G \in [Merging -> Merging]
    BY MergeStepType
  <1>2. start \in Merging
    BY DEF MergeStart, Merging
  <1>3. PICK f \in [Nat -> Merging] : f[0] = start /\ \A k \in Nat : f[k + 1] = G[f[k]]
    <2> HIDE DEF G, start
    <2> QED BY <1>1, <1>2, MergingRecursion
  <1>4. f = [k \in Nat |-> IF k = 0 THEN start ELSE MergeStep(f[k - 1], old, new)]
    <2>1. ASSUME NEW k \in Nat PROVE f[k] = IF k = 0 THEN start ELSE MergeStep(f[k - 1], old, new)
      <3>1. CASE k = 0
        BY <1>3, <3>1
      <3>2. CASE k # 0
        <4>1. k - 1 \in Nat /\ (k - 1) + 1 = k
          BY <3>2
        <4>2. f[(k - 1) + 1] = G[f[k - 1]] /\ f[k - 1] \in Merging
          BY <1>3, <4>1
        <4> QED BY <3>2, <4>1, <4>2
      <3> QED BY <3>1, <3>2
    <2> QED BY <2>1
  <1>5. t = [k \in Nat |-> IF k = 0 THEN start ELSE MergeStep(t[k - 1], old, new)]
    BY <1>4, Zenon DEF Merges, MergeStart
  <1> HIDE DEF t, start
  <1>6. ASSUME NEW k \in Nat PROVE t[k] = IF k = 0 THEN start ELSE MergeStep(t[k - 1], old, new)
    BY <1>5, Zenon
  <1>7. t[0] = start
    BY <1>6
  <1>8. ASSUME NEW k \in Nat PROVE t[k + 1] = MergeStep(t[k], old, new)
    <2>1. k + 1 \in Nat /\ k + 1 # 0 /\ (k + 1) - 1 = k
      OBVIOUS
    <2> QED BY <2>1, <1>6
  <1>9. \A k \in Nat : t[k] \in Merging
    <2> DEFINE S == {k \in Nat : t[k] \in Merging}
    <2>1. 0 \in S
      BY <1>2, <1>7
    <2>2. ASSUME NEW k \in Nat, k \in S PROVE k + 1 \in S
      <3>1. t[k] \in Merging
        BY <2>2
      <3>2. MergeStep(t[k], old, new) \in Merging
        BY <3>1, MergeStepType
      <3>3. t[k + 1] \in Merging
        BY <1>8, <3>2
      <3> QED BY <3>3
    <2>3. \A k \in Nat : k \in S
      <3> HIDE DEF S
      <3> QED BY <2>1, <2>2, Induction
    <2> QED BY <2>3
  <1> QED BY <1>7, <1>8, <1>9 DEF t, start

LEMMA RemoveAtElements ==
  ASSUME NEW s \in Seq(Names), NEW i \in 1 .. Len(s), NEW j \in 1 .. Len(s) - 1
  PROVE  RemoveAt(s, i)[j] = IF j < i THEN s[j] ELSE s[j + 1]
  <1> DEFINE front == SubSeq(s, 1, i - 1)
             back  == SubSeq(s, i + 1, Len(s))
  <1>1. front \in Seq(Names) /\ Len(front) = i - 1 /\ \A x \in 1 .. i - 1 : front[x] = s[x]
    OBVIOUS
  <1>2. /\ back \in Seq(Names) /\ Len(back) = Len(s) - i
        /\ \A x \in 1 .. Len(s) - i : back[x] = s[x + i]
    OBVIOUS
  <1>3. RemoveAt(s, i) = front \o back
    BY DEF RemoveAt
  <1> HIDE DEF front, back
  <1>4. Len(s) \in Nat /\ i \in Nat /\ j \in Nat
    OBVIOUS
  <1>5. CASE j < i
    <2>1. (front \o back)[j] = front[j]
      BY <1>1, <1>2, <1>4, <1>5
    <2> QED BY <1>1, <1>3, <1>4, <1>5, <2>1
  <1>6. CASE ~(j < i)
    <2>1. (front \o back)[j] = back[j - (i - 1)]
      BY <1>1, <1>2, <1>4, <1>6
    <2>2. back[j - (i - 1)] = s[(j - (i - 1)) + i]
      BY <1>2, <1>4, <1>6
    <2>3. (j - (i - 1)) + i = j + 1
      BY <1>4
    <2> QED BY <1>3, <1>6, <2>1, <2>2, <2>3
  <1> QED BY <1>5, <1>6

LEMMA InsertAtElements ==
  ASSUME NEW s \in Seq(Names), NEW i \in 1 .. Len(s) + 1, NEW n \in Names, NEW j \in 1 .. Len(s) + 1
  PROVE  InsertAt(s, i, n)[j] = IF j < i THEN s[j] ELSE IF j = i THEN n ELSE s[j - 1]
  <1> DEFINE front == SubSeq(s, 1, i - 1)
             back  == SubSeq(s, i, Len(s))
             most  == front \o <<n>>
  <1>1. front \in Seq(Names) /\ Len(front) = i - 1 /\ \A x \in 1 .. i - 1 : front[x] = s[x]
    OBVIOUS
  <1>2. /\ back \in Seq(Names) /\ Len(back) = Len(s) - i + 1
        /\ \A x \in 1 .. Len(s) - i + 1 : back[x] = s[x + i - 1]
    OBVIOUS
  <1>3. InsertAt(s, i, n) = most \o back
    BY DEF InsertAt
  <1> HIDE DEF front, back
  <1>4. Len(s) \in Nat /\ i \in Nat /\ j \in Nat
    OBVIOUS
  <1>5. /\ most \in Seq(Names) /\ Len(most) = i
        /\ \A x \in 1 .. i - 1 : most[x] = s[x]
        /\ most[i] = n
    BY <1>1, <1>4
  <1> HIDE DEF most
  <1>6. CASE j <= i
    <2>1. (most \o back)[j] = most[j]
      BY <1>2, <1>4, <1>5, <1>6
    <2> QED BY <1>3, <1>4, <1>5, <1>6, <2>1
  <1>7. CASE ~(j <= i)
    <2>1. (most \o back)[j] = back[j - i]
      BY <1>2, <1>4, <1>5, <1>7
    <2>2. back[j - i] = s[(j - i) + i - 1]
      BY <1>2, <1>4, <1>7
    <2>3. (j - i) + i - 1 = j - 1
      BY <1>4
    <2> QED BY <1>3, <1>4, <1>7, <2>1, <2>2, <2>3
  <1> QED BY <1>6, <1>7

(* Where the merge stands: the rows before lv_idx are those of the new     *)
(* listing, the others what is left of the old one.                        *)
Halves(rows, old, new, o, n) ==
  /\ n <= Len(new) + 1 /\ o <= Len(old) + 1
  /\ Len(rows) = (n - 1) + (Len(old) + 1 - o)
  /\ \A j \in 1 .. n - 1 : rows[j] = new[j]
  /\ \A j \in n .. Len(rows) : rows[j] = old[j - n + o]

LEMMA HalvesGoes ==
  ASSUME NEW rows \in Seq(Names), NEW old \in Seq(Names), NEW new \in Seq(Names),
         NEW o \in Nat \ {0}, NEW n \in Nat \ {0}, Halves(rows, old, new, o, n), o <= Len(old)
  PROVE  n \in 1 .. Len(rows) /\ Halves(RemoveAt(rows, n), old, new, o + 1, n)
  <1> DEFINE rest == RemoveAt(rows, n)
  <1>1. /\ n <= Len(new) + 1 /\ o <= Len(old) + 1
        /\ Len(rows) = (n - 1) + (Len(old) + 1 - o)
        /\ Len(rows) \in Nat /\ Len(old) \in Nat /\ Len(new) \in Nat
    BY DEF Halves
  <1>2. n \in 1 .. Len(rows)
    BY <1>1
  <1>3. rest \in Seq(Names) /\ Len(rest) = Len(rows) - 1
    BY <1>2, RemoveAtType
  <1>4. \A j \in 1 .. Len(rows) - 1 : rest[j] = IF j < n THEN rows[j] ELSE rows[j + 1]
    BY <1>2, RemoveAtElements
  <1> HIDE DEF rest
  <1>5. ASSUME NEW j \in 1 .. n - 1 PROVE rest[j] = new[j]
    <2>1. j \in 1 .. Len(rows) - 1 /\ j < n
      BY <1>1, <1>2
    <2> QED BY <1>4, <2>1 DEF Halves
  <1>6. ASSUME NEW j \in n .. Len(rest) PROVE rest[j] = old[j - n + (o + 1)]
    <2>1. j \in 1 .. Len(rows) - 1 /\ ~(j < n) /\ j + 1 \in n .. Len(rows)
      BY <1>1, <1>3
    <2>2. rest[j] = rows[j + 1]
      BY <1>4, <2>1
    <2>3. rows[j + 1] = old[(j + 1) - n + o]
      BY <2>1 DEF Halves
    <2>4. (j + 1) - n + o = j - n + (o + 1)
      OBVIOUS
    <2> QED BY <2>2, <2>3, <2>4
  <1>7. Len(rest) = (n - 1) + (Len(old) + 1 - (o + 1)) /\ o + 1 <= Len(old) + 1
    BY <1>1, <1>3
  <1>8. Halves(rest, old, new, o + 1, n)
    BY <1>1, <1>5, <1>6, <1>7 DEF Halves
  <1> QED BY <1>2, <1>8 DEF rest

LEMMA HalvesComes ==
  ASSUME NEW rows \in Seq(Names), NEW old \in Seq(Names), NEW new \in Seq(Names),
         NEW o \in Nat \ {0}, NEW n \in Nat \ {0}, Halves(rows, old, new, o, n), n <= Len(new)
  PROVE  n <= Len(rows) + 1 /\ Halves(InsertAt(rows, n, new[n]), old, new, o, n + 1)
  <1> DEFINE more == InsertAt(rows, n, new[n])
  <1>1. /\ n <= Len(new) + 1 /\ o <= Len(old) + 1
        /\ Len(rows) = (n - 1) + (Len(old) + 1 - o)
        /\ Len(rows) \in Nat /\ Len(old) \in Nat /\ Len(new) \in Nat
    BY DEF Halves
  <1>2. n \in 1 .. Len(rows) + 1
    BY <1>1
  <1>a. new[n] \in Names
    <2>1. n \in 1 .. Len(new)
      BY <1>1
    <2> QED BY <2>1
  <1>3. more \in Seq(Names) /\ Len(more) = Len(rows) + 1
    BY <1>2, <1>a, InsertAtType
  <1>4. \A j \in 1 .. Len(rows) + 1 :
          more[j] = IF j < n THEN rows[j] ELSE IF j = n THEN new[n] ELSE rows[j - 1]
    BY <1>2, <1>a, InsertAtElements
  <1> HIDE DEF more
  <1>5. ASSUME NEW j \in 1 .. (n + 1) - 1 PROVE more[j] = new[j]
    <2>1. j \in 1 .. Len(rows) + 1 /\ (j < n \/ j = n) /\ (j < n => j \in 1 .. n - 1)
      BY <1>1, <1>2
    <2> QED BY <1>4, <2>1 DEF Halves
  <1>6. ASSUME NEW j \in n + 1 .. Len(more) PROVE more[j] = old[j - (n + 1) + o]
    <2>1. j \in 1 .. Len(rows) + 1 /\ ~(j < n) /\ j # n /\ j - 1 \in n .. Len(rows)
      BY <1>1, <1>3
    <2>2. more[j] = rows[j - 1]
      BY <1>4, <2>1
    <2>3. rows[j - 1] = old[(j - 1) - n + o]
      BY <2>1 DEF Halves
    <2>4. (j - 1) - n + o = j - (n + 1) + o
      OBVIOUS
    <2> QED BY <2>2, <2>3, <2>4
  <1>7. Len(more) = ((n + 1) - 1) + (Len(old) + 1 - o) /\ n + 1 <= Len(new) + 1
    BY <1>1, <1>3
  <1>8. Halves(more, old, new, o, n + 1)
    BY <1>1, <1>5, <1>6, <1>7 DEF Halves
  <1> QED BY <1>2, <1>8 DEF more

LEMMA HalvesStays ==
  ASSUME NEW rows \in Seq(Names), NEW old \in Seq(Names), NEW new \in Seq(Names),
         NEW o \in Nat \ {0}, NEW n \in Nat \ {0}, Halves(rows, old, new, o, n),
         o <= Len(old), n <= Len(new), old[o] = new[n]
  PROVE  Halves(rows, old, new, o + 1, n + 1)
  <1>1. /\ n <= Len(new) + 1 /\ o <= Len(old) + 1
        /\ Len(rows) = (n - 1) + (Len(old) + 1 - o)
        /\ Len(rows) \in Nat /\ Len(old) \in Nat /\ Len(new) \in Nat
    BY DEF Halves
  <1>2. rows[n] = new[n]
    <2>1. n \in n .. Len(rows) /\ n - n + o = o
      BY <1>1
    <2>2. rows[n] = old[n - n + o]
      BY <2>1 DEF Halves
    <2> QED BY <2>1, <2>2
  <1>3. ASSUME NEW j \in 1 .. (n + 1) - 1 PROVE rows[j] = new[j]
    <2>1. j = n \/ j \in 1 .. n - 1
      OBVIOUS
    <2> QED BY <1>2, <2>1 DEF Halves
  <1>4. ASSUME NEW j \in n + 1 .. Len(rows) PROVE rows[j] = old[j - (n + 1) + (o + 1)]
    <2>1. j \in n .. Len(rows) /\ j - n + o = j - (n + 1) + (o + 1)
      BY <1>1
    <2>2. rows[j] = old[j - n + o]
      BY <2>1 DEF Halves
    <2> QED BY <2>1, <2>2
  <1>5. /\ Len(rows) = ((n + 1) - 1) + (Len(old) + 1 - (o + 1))
        /\ n + 1 <= Len(new) + 1 /\ o + 1 <= Len(old) + 1
    BY <1>1
  <1> QED BY <1>3, <1>4, <1>5 DEF Halves

(* Names that differ only in case are one name for the merge.              *)
Unique == \A m, n \in Names : Key[m] = Key[n] => m = n

MergedSoFar(st, old, new) == st.at = st.n /\ Halves(st.list.rows, old, new, st.o, st.n)

LEMMA MergeStepMerges ==
  ASSUME Unique, NEW st \in Merging, NEW old \in Seq(Names), NEW new \in Seq(Names),
         MergedSoFar(st, old, new)
  PROVE  LET next == MergeStep(st, old, new)
         IN  /\ MergedSoFar(next, old, new)
             /\ st.o <= Len(old) \/ st.n <= Len(new) => next.o + next.n > st.o + st.n
  <1> DEFINE rows == st.list.rows
             o == st.o
             n == st.n
             next == MergeStep(st, old, new)
  <1>1. /\ st.list \in Panels /\ rows \in Seq(Names)
        /\ o \in Nat \ {0} /\ n \in Nat \ {0} /\ Len(old) \in Nat /\ Len(new) \in Nat
    BY DEF Merging, Panels
  <1>2. st.at = n /\ Halves(rows, old, new, o, n)
    BY DEF MergedSoFar
  <1>3. CASE o > Len(old) /\ n > Len(new) /\ next = st
    BY <1>1, <1>3
  <1>4. CASE o <= Len(old) /\ next = RowGoes(st)
    <2>1. n \in 1 .. Len(rows) /\ Halves(RemoveAt(rows, n), old, new, o + 1, n)
      BY <1>1, <1>2, <1>4, HalvesGoes
    <2>2. next.list = DeleteRow(st.list, n) /\ next.o = o + 1 /\ next.n = n /\ next.at = n
      BY <1>2, <1>4 DEF RowGoes, Merging
    <2>3. next.list.rows = RemoveAt(rows, n)
      BY <1>1, <2>1, <2>2, DeleteRowPanel
    <2>4. MergedSoFar(next, old, new)
      BY <2>1, <2>2, <2>3 DEF MergedSoFar
    <2>5. next.o + next.n > o + n
      BY <1>1, <2>2
    <2> QED BY <2>4, <2>5
  <1>5. CASE n <= Len(new) /\ next = RowComes(st, new)
    <2>1. n <= Len(rows) + 1 /\ Halves(InsertAt(rows, n, new[n]), old, new, o, n + 1)
      BY <1>1, <1>2, <1>5, HalvesComes
    <2>2. next.list = InsertRow(st.list, n, new[n]) /\ next.o = o /\ next.n = n + 1 /\ next.at = n + 1
      BY <1>2, <1>5 DEF RowComes, Merging
    <2>3. new[n] \in Names
      BY <1>1, <1>5
    <2>4. next.list.rows = InsertAt(rows, n, new[n])
      <3> DEFINE name == new[n]
      <3>1. name \in Names /\ st.list \in Panels /\ n \in Nat \ {0} /\ n <= Len(st.list.rows) + 1
        BY <1>1, <2>1, <2>3
      <3> HIDE DEF name, n
      <3>2. InsertRow(st.list, n, name).rows = InsertAt(st.list.rows, n, name)
        BY <3>1, InsertRowPanel
      <3> QED BY <2>2, <3>2 DEF name
    <2>5. MergedSoFar(next, old, new)
      BY <2>1, <2>2, <2>4 DEF MergedSoFar
    <2>6. next.o + next.n > o + n
      BY <1>1, <2>2
    <2> QED BY <2>5, <2>6
  <1>6. CASE o <= Len(old) /\ n <= Len(new) /\ Key[old[o]] = Key[new[n]] /\ next = RowStays(st)
    <2>1. old[o] = new[n]
      <3>1. old[o] \in Names /\ new[n] \in Names
        BY <1>1, <1>6
      <3> QED BY <1>6, <3>1 DEF Unique
    <2>2. Halves(rows, old, new, o + 1, n + 1)
      BY <1>1, <1>2, <1>6, <2>1, HalvesStays
    <2>3. next.list = st.list /\ next.o = o + 1 /\ next.n = n + 1 /\ next.at = n + 1
      BY <1>2, <1>6 DEF RowStays, Merging
    <2>4. MergedSoFar(next, old, new)
      BY <2>2, <2>3 DEF MergedSoFar
    <2>5. next.o + next.n > o + n
      BY <1>1, <2>3
    <2> QED BY <2>4, <2>5
  <1> QED BY <1>3, <1>4, <1>5, <1>6, MergeStepIs

(* After smoothRebuild() the rows of the panel are the new listing, as long*)
(* as they were the old one.                                               *)
LEMMA SmoothRebuildShows ==
  ASSUME Unique, NEW l \in Panels, NEW new \in Seq(Names), NEW idx
  PROVE  /\ SmoothRebuild(l, l.rows, new, idx).rows = new
         /\ idx \in 1 .. Len(new) => SmoothRebuild(l, l.rows, new, idx).sel = idx
  <1> DEFINE old == l.rows
             m == Merges(l, old, new)
             total == Len(old) + Len(new)
             Far(k) == \/ m[k].o > Len(old) /\ m[k].n > Len(new)
                       \/ k + 2 <= m[k].o + m[k].n
             S == {k \in Nat : MergedSoFar(m[k], old, new) /\ Far(k)}
  <1>1. old \in Seq(Names) /\ Len(old) \in Nat /\ Len(new) \in Nat
    BY DEF Panels
  <1>2. m[0] = MergeStart(l) /\ \A k \in Nat : m[k] \in Merging /\ m[k + 1] = MergeStep(m[k], old, new)
    BY <1>1, MergesStep
  <1> HIDE DEF m
  <1>3. 0 \in S
    <2>1. Halves(old, old, new, 1, 1)
      BY <1>1 DEF Halves
    <2>2. m[0].list = l /\ m[0].o = 1 /\ m[0].n = 1 /\ m[0].at = 1
      BY <1>2 DEF MergeStart
    <2> QED BY <2>1, <2>2 DEF MergedSoFar
  <1>4. ASSUME NEW k \in Nat, k \in S PROVE k + 1 \in S
    <2>1. m[k] \in Merging /\ m[k + 1] \in Merging /\ m[k + 1] = MergeStep(m[k], old, new)
      BY <1>2
    <2>2. MergedSoFar(m[k], old, new) /\ Far(k)
      BY <1>4
    <2>3. /\ MergedSoFar(m[k + 1], old, new)
          /\ m[k].o <= Len(old) \/ m[k].n <= Len(new) => m[k + 1].o + m[k + 1].n > m[k].o + m[k].n
      BY <1>1, <2>1, <2>2, MergeStepMerges
    <2>4. m[k].o \in Nat /\ m[k].n \in Nat /\ m[k + 1].o \in Nat /\ m[k + 1].n \in Nat
      BY <2>1 DEF Merging
    <2>5. Far(k + 1)
      <3>1. CASE m[k].o > Len(old) /\ m[k].n > Len(new)
        <4>1. m[k + 1] = m[k]
          BY <1>1, <2>1, <2>4, <3>1, MergeStepIs
        <4> QED BY <3>1, <4>1
      <3>2. CASE ~(m[k].o > Len(old) /\ m[k].n > Len(new))
        <4>1. m[k].o <= Len(old) \/ m[k].n <= Len(new)
          BY <1>1, <2>4, <3>2
        <4>2. k + 2 <= m[k].o + m[k].n
          BY <2>2, <3>2
        <4>3. m[k + 1].o + m[k + 1].n > m[k].o + m[k].n
          BY <2>3, <4>1
        <4>4. (k + 1) + 2 <= m[k + 1].o + m[k + 1].n
          <5> DEFINE p == m[k].o + m[k].n
                     q == m[k + 1].o + m[k + 1].n
          <5>1. p \in Nat /\ q \in Nat /\ k + 2 <= p /\ q > p
            <6>1. p \in Nat
              BY <2>4
            <6>2. q \in Nat
              BY <2>4
            <6>3. k + 2 <= p
              BY <4>2
            <6>4. q > p
              BY <4>3
            <6> QED BY <6>1, <6>2, <6>3, <6>4
          <5> HIDE DEF p, q
          <5>2. (k + 1) + 2 <= q
            BY <5>1
          <5> QED BY <5>2 DEF q
        <4> QED BY <4>4
      <3> QED BY <3>1, <3>2
    <2> QED BY <2>3, <2>5
  <1>5. \A k \in Nat : k \in S
    <2> HIDE DEF S
    <2> QED BY <1>3, <1>4, Induction
  <1>6. total \in Nat /\ m[total] \in Merging
    <2>1. total \in Nat
      BY <1>1
    <2> HIDE DEF total
    <2> QED BY <1>2, <2>1
  <1>7. MergedSoFar(m[total], old, new) /\ Far(total)
    BY <1>5, <1>6
  <1>8. /\ m[total].list \in Panels /\ m[total].o \in Nat /\ m[total].n \in Nat
        /\ Halves(m[total].list.rows, old, new, m[total].o, m[total].n)
    BY <1>6, <1>7 DEF MergedSoFar, Merging
  <1>9. m[total].o = Len(old) + 1 /\ m[total].n = Len(new) + 1
    <2>1. m[total].o <= Len(old) + 1 /\ m[total].n <= Len(new) + 1
      BY <1>8 DEF Halves
    <2>2. \/ m[total].o > Len(old) /\ m[total].n > Len(new)
          \/ Len(old) + Len(new) + 2 <= m[total].o + m[total].n
      BY <1>7
    <2> HIDE DEF total
    <2> QED BY <1>1, <1>8, <2>1, <2>2
  <1>10. m[total].list.rows = new
    <2> DEFINE rows == m[total].list.rows
    <2>1. rows \in Seq(Names)
      BY <1>8 DEF Panels
    <2> HIDE DEF rows
    <2>2. Halves(rows, old, new, Len(old) + 1, Len(new) + 1)
      BY <1>8, <1>9 DEF rows
    <2>3. Len(rows) = Len(new) /\ \A j \in 1 .. Len(new) : rows[j] = new[j]
      BY <1>1, <2>1, <2>2 DEF Halves
    <2>4. rows = new
      BY <2>1, <2>3
    <2> QED BY <2>4 DEF rows
  <1>11. SmoothRebuild(l, old, new, idx) = SelectRow(m[total].list, idx)
    BY DEF SmoothRebuild, m
  <1> HIDE DEF total
  <1> QED BY <1>8, <1>10, <1>11, SelectRowPanel

(* Whatever the rows were, the panel stays well formed.                    *)
LEMMA SmoothRebuildPanel ==
  ASSUME NEW l \in Panels, NEW old \in Seq(Names), NEW new \in Seq(Names), NEW idx
  PROVE  SmoothRebuild(l, old, new, idx) \in Panels
  <1>1. Len(old) + Len(new) \in Nat
    OBVIOUS
  <1>2. Merges(l, old, new)[Len(old) + Len(new)] \in Merging
    BY <1>1, MergesStep
  <1>3. Merges(l, old, new)[Len(old) + Len(new)].list \in Panels
    BY <1>2 DEF Merging
  <1> QED BY <1>3, SelectRowPanel DEF SmoothRebuild

-----------------------------------------------------------------------------
(* The other operations of the panel.                                      *)
LEMMA MoveSelectionPanel ==
  ASSUME NEW l \in Panels, NEW oldIdx, NEW newIdx \in Nat, NEW count \in Nat
  PROVE  LET m == MoveSelection(l, oldIdx, newIdx, count)
         IN  /\ m \in Panels /\ m.rows = l.rows
             /\ newIdx \in 1 .. Len(l.rows) /\ newIdx <= count => m.sel = newIdx
  <1> DEFINE cleared == IF oldIdx # 0 /\ l.sel = oldIdx THEN [l EXCEPT !.sel = 0] ELSE l
             m == MoveSelection(l, oldIdx, newIdx, count)
  <1>1. cleared \in Panels /\ cleared.rows = l.rows
    BY DEF Panels
  <1>2. m = IF newIdx <= count THEN SelectRow(cleared, newIdx) ELSE cleared
    BY DEF MoveSelection
  <1> HIDE DEF cleared, m
  <1>3. /\ SelectRow(cleared, newIdx) \in Panels /\ SelectRow(cleared, newIdx).rows = l.rows
        /\ newIdx \in 1 .. Len(l.rows) => SelectRow(cleared, newIdx).sel = newIdx
    BY <1>1, SelectRowPanel
  <1>4. m \in Panels /\ m.rows = l.rows /\ (newIdx \in 1 .. Len(l.rows) /\ newIdx <= count => m.sel = newIdx)
    BY <1>1, <1>2, <1>3
  <1> QED BY <1>4 DEF m

LEMMA RebuildPanel ==
  ASSUME NEW l, NEW files \in Seq(Names), NEW idx
  PROVE  LET r == Rebuild(l, files, idx)
         IN  r \in Panels /\ r.rows = files /\ (idx \in 1 .. Len(files) => r.sel = idx)
  <1> DEFINE fresh == [rows |-> files, sel |-> 0]
  <1>1. fresh \in Panels /\ fresh.rows = files
    BY DEF Panels
  <1> HIDE DEF fresh
  <1>2. Rebuild(l, files, idx) = SelectRow(fresh, idx)
    BY DEF Rebuild, fresh
  <1> QED BY <1>1, <1>2, SelectRowPanel

LEMMA NoRowsPanel == NoRows \in Panels /\ NoRows.rows = <<>>
  BY DEF NoRows, Panels

-----------------------------------------------------------------------------
(* Whatever becomes of an open(), the selected row is one of the rows.     *)
LEMMA ConcludePanel ==
  ASSUME list \in Panels, call \in Activations,
         NEW newDir, NEW files \in Seq(Names), NEW idx \in 0 .. Len(files), NEW n,
         Conclude(newDir, files, idx, n)
  PROVE  list' \in Panels
  <1>1. call.old \in Seq(Names) /\ call.prevIdx \in Nat /\ idx \in Nat /\ Len(files) \in Nat
    BY DEF Activations
  <1>2. \/ list' = MoveSelection(list, call.prevIdx, idx, Len(files))
        \/ list' = SmoothRebuild(list, call.old, files, idx)
        \/ list' = Rebuild(list, files, idx)
    BY DEF Conclude
  <1> QED BY <1>1, <1>2, MoveSelectionPanel, SmoothRebuildPanel, RebuildPanel

LEMMA ShowPanel ==
  ASSUME DocType, list \in Panels, call # None, NEW n, Decoded(n) \/ Undecodable(n)
  PROVE  list' \in Panels
  <1>1. CASE Undecodable(n)
    BY <1>1 DEF Undecodable
  <1>2. CASE Decoded(n) /\ call.force /\ ~call.scanned
    BY <1>2 DEF Decoded
  <1>3. CASE Decoded(n) /\ ~(call.force /\ ~call.scanned)
    <2>1. Conclude(dir, dirfiles, IndexOf(dirfiles, n), n)
      BY <1>3 DEF Decoded
    <2>2. dirfiles \in Seq(Names) /\ call \in Activations
      BY DEF DocType
    <2>3. IndexOf(dirfiles, n) \in 0 .. Len(dirfiles)
      BY <2>2, IndexOfSound
    <2> QED BY <2>1, <2>2, <2>3, ConcludePanel
  <1> QED BY <1>1, <1>2, <1>3

LEMMA PanelNext ==
  ASSUME DocType, list \in Panels, Next
  PROVE  list' \in Panels
  <1>1. call # None => call \in Activations
    BY DEF DocType
  <1>2. CASE OpenSucceeds \/ RetrySucceeds
    BY <1>2, ShowPanel DEF OpenSucceeds, RetrySucceeds
  <1>3. CASE OpenFails \/ Reconnects
    BY <1>3 DEF OpenFails, Reconnects
  <1>4. CASE ScanSucceeds
    <2>1. ClearOpenState \/ UNCHANGED <<shown, trail, list>>
      BY <1>4 DEF ScanSucceeds
    <2> QED BY <2>1, NoRowsPanel DEF ClearOpenState
  <1>5. CASE RetryFails
    <2>1. call.old \in Seq(Names) /\ dirfiles \in Seq(Names)
      BY <1>1, <1>5 DEF RetryFails, DocType, Activations
    <2> QED BY <1>5, <2>1, SmoothRebuildPanel DEF RetryFails
  <1>6. CASE RescanSucceeds
    <2>1. PICK s \in Listings(call.fs, call.dir) :
            Conclude(call.dir, s, IndexIgnoringCase(s, call.name), call.name)
      BY <1>6 DEF RescanSucceeds
    <2>2. s \in Seq(Names)
      BY ListingSound
    <2>3. IndexIgnoringCase(s, call.name) \in 0 .. Len(s)
      BY <2>2, IndexIgnoringCaseSound
    <2>4. call \in Activations
      BY <1>1, <1>6 DEF RescanSucceeds
    <2> QED BY <2>1, <2>2, <2>3, <2>4, ConcludePanel
  <1>7. CASE ListingFails \/ ReconnectFails
    BY <1>7, NoRowsPanel DEF ListingFails, ReconnectFails, ClearOpenState
  <1>8. CASE OpenFile \/ Navigate \/ Refresh \/ SlideShow \/ DeleteRemoteFails
    BY <1>8 DEF OpenFile, Navigate, Refresh, SlideShow, DeleteRemoteFails, vars
  <1>9. CASE Click
    BY <1>9, SelectRowPanel DEF Click
  <1>10. CASE DeleteRemote \/ DeleteLocalDone
    <2>1. PICK i, deleted, gone : AfterDelete(i, deleted, gone)
      BY <1>10 DEF DeleteRemote, DeleteLocalDone
    <2>2. list' = NoRows \/ list' = DeleteRow(list, i)
      BY <2>1 DEF AfterDelete, RemoveItem
    <2> QED BY <2>2, NoRowsPanel, DeleteRowPanel
  <1>11. CASE DeleteLocal \/ DeleteLocalFails \/ DeleteLocalAborted \/ Others
    BY <1>11 DEF DeleteLocal, DeleteLocalFails, DeleteLocalAborted, Others
  <1>12. CASE DeleteDies
    BY <1>12, NoRowsPanel DEF DeleteDies, ClearOpenState
  <1> QED BY <1>2, <1>3, <1>4, <1>5, <1>6, <1>7, <1>8, <1>9, <1>10, <1>11, <1>12
          DEF Next, CallStep, User, Shell

LEMMA SpecPanel == Spec => [](list \in Panels)
  <1>1. Init => list \in Panels
    BY NoRowsPanel DEF Init
  <1>2. DocType /\ list \in Panels /\ [Next]_vars => (list \in Panels)'
    <2>1. ASSUME list \in Panels, UNCHANGED vars PROVE list' \in Panels
      BY <2>1 DEF vars
    <2> QED BY <2>1, PanelNext
  <1> QED BY <1>1, <1>2, DocTypeCorrect, PTL DEF Spec

(* The document and the panel are always well formed: smoothRebuild() and  *)
(* the other operations of FileList keep the selected row within the rows, *)
(* whatever listing they are given (FileList.cpp:86-210).                  *)
THEOREM DocAndPanelTypeCorrect == Spec => []TypeOK
  <1>1. DocType /\ list \in Panels => TypeOK
    BY DEF TypeOK, PanelType, Panels
  <1> QED BY <1>1, DocTypeCorrect, SpecPanel, PTL

-----------------------------------------------------------------------------
(* The panel in step with the document.  A click selects another row       *)
(* before open() has opened its file; from the fallback or the rescan on,  *)
(* the rows are those of the listing that open() has put aside.            *)
Distinct(s) == \A i, j \in DOMAIN s : s[i] = s[j] => i = j

Followed ==
  /\ list \in Panels
  /\ call = None \/ call.at = "open" =>
       /\ list.rows = dirfiles /\ Distinct(dirfiles)
       /\ diridx # 0 => image \in Universe
  /\ diridx # 0 /\ (call = None \/ (call.at = "open" /\ call.hint = "none")) => list.sel = diridx
  /\ call # None /\ call.at # "open" => list.rows = call.old
  /\ call # None /\ call.at = "retry" => Distinct(dirfiles)
  /\ call # None /\ call.at = "rescan" => image \in Universe /\ call.force

LEMMA ListingDistinct ==
  ASSUME NEW fs, NEW d, NEW s \in Listings(fs, d)
  PROVE  Distinct(s)
  <1> DEFINE names == {n \in Names : File(fs, d, n) \in disk}
             D == 1 .. Cardinality(names)
  <1>1. s \in {f \in [D -> names] : \A i, j \in D : i # j => f[i] # f[j]}
    BY DEF Listings, SetToSeqs
  <1> HIDE DEF names, D
  <1>2. DOMAIN s = D /\ \A i, j \in D : i # j => s[i] # s[j]
    BY <1>1
  <1> QED BY <1>2 DEF Distinct

LEMMA RemoveAtDistinct ==
  ASSUME NEW s \in Seq(Names), NEW i \in 1 .. Len(s), Distinct(s)
  PROVE  Distinct(RemoveAt(s, i))
  <1> DEFINE rest == RemoveAt(s, i)
  <1>1. rest \in Seq(Names) /\ Len(rest) = Len(s) - 1 /\ Len(s) \in Nat /\ i \in Nat
    BY RemoveAtType
  <1>2. \A j \in 1 .. Len(s) - 1 : rest[j] = IF j < i THEN s[j] ELSE s[j + 1]
    BY RemoveAtElements
  <1> HIDE DEF rest
  <1>3. DOMAIN rest = 1 .. Len(s) - 1 /\ DOMAIN s = 1 .. Len(s)
    BY <1>1
  <1>4. ASSUME NEW j \in DOMAIN rest, NEW k \in DOMAIN rest, rest[j] = rest[k] PROVE j = k
    <2> DEFINE x == IF j < i THEN j ELSE j + 1
               y == IF k < i THEN k ELSE k + 1
    <2>1. x \in DOMAIN s /\ y \in DOMAIN s /\ rest[j] = s[x] /\ rest[k] = s[y]
      BY <1>1, <1>2, <1>3
    <2> HIDE DEF x, y
    <2>2. x = y
      BY <1>4, <2>1 DEF Distinct
    <2> QED BY <1>1, <1>3, <2>2 DEF x, y
  <1>5. Distinct(rest)
    BY <1>4 DEF Distinct
  <1> QED BY <1>5 DEF rest

LEMMA NothingFollowed ==
  ASSUME list' = NoRows, dirfiles' = <<>>, diridx' = 0, call' = None
  PROVE  Followed'
  <1>1. list' \in Panels /\ list'.rows = <<>>
    BY NoRowsPanel
  <1>2. Distinct(<<>>)
    BY DEF Distinct
  <1>3. Distinct(dirfiles')
    BY <1>2
  <1> QED BY <1>1, <1>3 DEF Followed

LEMMA ConcludeFollowed ==
  ASSUME Calm, list \in Panels, call \in Activations, NEW newDir,
         NEW files \in Seq(Names), Distinct(files), NEW idx \in 0 .. Len(files), NEW n,
         Conclude(newDir, files, idx, n), idx # 0 => image' \in Universe,
         IF ~call.force /\ ~call.scanned THEN list.rows = files ELSE list.rows = call.old
  PROVE  Followed'
  <1>1. /\ call' = None /\ dirfiles' = files /\ diridx' = idx
        /\ list' = IF ~call.force /\ ~call.scanned
                    THEN MoveSelection(list, call.prevIdx, idx, Len(files))
                    ELSE IF newDir = call.prevDir THEN SmoothRebuild(list, call.old, files, idx)
                    ELSE Rebuild(list, files, idx)
    BY DEF Conclude
  <1>2. idx \in Nat /\ Len(files) \in Nat /\ (idx # 0 => idx \in 1 .. Len(files) /\ idx <= Len(files))
    OBVIOUS
  <1>3. list' \in Panels /\ list'.rows = files /\ (idx # 0 => list'.sel = idx)
    <2>1. CASE ~call.force /\ ~call.scanned
      <3>1. list' = MoveSelection(list, call.prevIdx, idx, Len(files)) /\ list.rows = files
        BY <1>1, <2>1
      <3> QED BY <1>2, <3>1, MoveSelectionPanel
    <2>2. CASE ~(~call.force /\ ~call.scanned) /\ newDir = call.prevDir
      <3>1. list' = SmoothRebuild(list, list.rows, files, idx)
        BY <1>1, <2>2
      <3>2. Unique
        BY DEF Calm, Unique
      <3>3. list.rows \in Seq(Names)
        BY DEF Panels
      <3>4. list' \in Panels
        BY <3>1, <3>3, SmoothRebuildPanel
      <3> QED BY <1>2, <3>1, <3>2, <3>4, SmoothRebuildShows
    <2>3. CASE ~(~call.force /\ ~call.scanned) /\ newDir # call.prevDir
      <3>1. list' = Rebuild(list, files, idx)
        BY <1>1, <2>3
      <3> QED BY <1>2, <3>1, RebuildPanel
    <2> QED BY <2>1, <2>2, <2>3
  <1>4. Distinct(dirfiles')
    BY <1>1
  <1> QED BY <1>1, <1>3, <1>4 DEF Followed

LEMMA ShowFollowed ==
  ASSUME Calm, Decodes, OnTarget, Followed, call # None, NEW n, File(call.fs, call.dir, n) \in disk,
         Decoded(n) \/ Undecodable(n), call.at \in {"open", "retry"}
  PROVE  Followed'
  <1>1. Decoded(n)
    BY DEF Undecodable, Decodes
  <1>2. call \in Activations /\ dirfiles \in Seq(Names) /\ list \in Panels
    BY DEF OnTarget, DocType, Followed
  <1>3. image' \in Universe
    BY <1>1 DEF Decoded, OnTarget, DocType
  <1>4. call.at = "open" => ~call.scanned
    BY DEF OnTarget, StepShown
  <1>5. call.at = "retry" => call.scanned
    BY DEF OnTarget, StepShown
  <1>6. CASE call.force /\ ~call.scanned
    <2>1. call.at = "open" /\ list.rows = dirfiles
      BY <1>5, <1>6 DEF Followed
    <2>2. call' = [call EXCEPT !.at = "rescan", !.old = dirfiles] /\ diridx' = 0 /\ list' = list
      BY <1>1, <1>6 DEF Decoded
    <2>3. call'.at = "rescan" /\ call'.old = dirfiles /\ call'.force /\ call' \in Activations
      BY <1>2, <1>6, <2>2 DEF Activations, Steps
    <2>4. call' # None
      BY <2>3, NoneAssumption
    <2> QED BY <1>2, <1>3, <2>1, <2>2, <2>3, <2>4 DEF Followed
  <1>7. CASE ~(call.force /\ ~call.scanned)
    <2>1. Conclude(dir, dirfiles, IndexOf(dirfiles, n), n)
      BY <1>1, <1>7 DEF Decoded
    <2>2. IndexOf(dirfiles, n) \in 0 .. Len(dirfiles)
      BY <1>2, IndexOfSound
    <2>3. Distinct(dirfiles)
      BY DEF Followed
    <2>4. IF ~call.force /\ ~call.scanned THEN list.rows = dirfiles ELSE list.rows = call.old
      BY <1>4, <1>5, <1>7 DEF Followed
    <2> QED BY <1>2, <1>3, <2>1, <2>2, <2>3, <2>4, ConcludeFollowed
  <1> QED BY <1>6, <1>7

LEMMA CallStepFollowed ==
  ASSUME Calm, Decodes, OnTarget, Followed, CallStep
  PROVE  Followed'
  <1>1. call # None /\ call \in Activations /\ list \in Panels
    BY DEF CallStep, OpenSucceeds, OpenFails, ScanSucceeds, RetrySucceeds, RetryFails,
           RescanSucceeds, ListingFails, Reconnects, ReconnectFails, OnTarget, DocType, Followed
  <1>2. CASE OpenSucceeds \/ RetrySucceeds
    BY <1>2, ShowFollowed DEF OpenSucceeds, RetrySucceeds
  <1>3. CASE OpenFails
    <2>1. PICK lost \in BOOLEAN :
            call' = IF call.hint = "none" THEN None
                    ELSE [call EXCEPT !.at = "scan", !.old = dirfiles, !.lost = lost]
      BY <1>3 DEF OpenFails
    <2>2. call.at = "open" /\ dirfiles' = dirfiles /\ diridx' = diridx /\ image' = image /\ list' = list
      BY <1>3 DEF OpenFails, shown, place
    <2>3. CASE call.hint = "none"
      BY <2>1, <2>2, <2>3 DEF Followed
    <2>4. CASE call.hint # "none"
      <3>1. call' = [call EXCEPT !.at = "scan", !.old = dirfiles, !.lost = lost]
        BY <2>1, <2>4
      <3>2. call' \in Activations /\ call'.at = "scan" /\ call'.old = dirfiles
        BY <1>1, <3>1 DEF Activations, Steps, OnTarget, DocType
      <3>3. call' # None
        BY <3>2, NoneAssumption
      <3> QED BY <2>2, <3>2, <3>3 DEF Followed
    <2> QED BY <2>3, <2>4
  <1>4. CASE ScanSucceeds
    <2>1. PICK s \in Listings(call.fs, call.dir) :
            IF s = <<>> THEN ClearOpenState /\ call' = None
            ELSE LET i == NearestIndex(s, call.name, call.hint)
                 IN  /\ dir' = call.dir /\ dirfiles' = s /\ diridx' = i
                     /\ call' = [call EXCEPT !.at = "retry", !.target = s[i], !.scanned = TRUE]
                     /\ UNCHANGED <<shown, trail, list>>
      BY <1>4 DEF ScanSucceeds
    <2>2. CASE s = <<>>
      BY <2>1, <2>2, NothingFollowed DEF ClearOpenState
    <2>3. CASE s # <<>>
      <3> DEFINE target == s[NearestIndex(s, call.name, call.hint)]
      <3>1. s \in Seq(Names) /\ Distinct(s)
        BY ListingSound, ListingDistinct
      <3>2. target \in Names
        BY <2>3, <3>1, NearestIndexType
      <3>3. dirfiles' = s /\ call' = [call EXCEPT !.at = "retry", !.target = target, !.scanned = TRUE]
            /\ list' = list
        BY <2>1, <2>3
      <3> HIDE DEF target
      <3>4. call'.at = "retry" /\ call'.old = call.old /\ call' \in Activations
        BY <1>1, <3>2, <3>3 DEF Activations, Steps
      <3>5. call' # None
        BY <3>4, NoneAssumption
      <3>6. list'.rows = call'.old
        BY <1>1, <1>4, <3>3, <3>4 DEF ScanSucceeds, Followed
      <3>7. Distinct(dirfiles')
        BY <3>1, <3>3
      <3> QED BY <1>1, <3>3, <3>4, <3>5, <3>6, <3>7 DEF Followed
    <2> QED BY <2>2, <2>3
  <1>5. CASE RetryFails
    <2>1. File(call.fs, call.dir, call.target) \in disk
      BY <1>5 DEF RetryFails, OnTarget, StepShown
    <2> QED BY <1>5, <2>1 DEF RetryFails, FileRefused, LostAgain, Calm
  <1>6. CASE RescanSucceeds
    <2>1. PICK s \in Listings(call.fs, call.dir) :
            Conclude(call.dir, s, IndexIgnoringCase(s, call.name), call.name)
      BY <1>6 DEF RescanSucceeds
    <2>2. s \in Seq(Names) /\ Distinct(s)
      BY ListingSound, ListingDistinct
    <2>3. IndexIgnoringCase(s, call.name) \in 0 .. Len(s)
      BY <2>2, IndexIgnoringCaseSound
    <2>4. image' \in Universe /\ list.rows = call.old
      BY <1>1, <1>6 DEF RescanSucceeds, shown, Followed
    <2>5. call.force
      BY <1>1, <1>6 DEF RescanSucceeds, Followed
    <2> QED BY <1>1, <2>1, <2>2, <2>3, <2>4, <2>5, ConcludeFollowed
  <1>7. CASE ListingFails \/ ReconnectFails
    BY <1>7, NothingFollowed DEF ListingFails, ReconnectFails, ClearOpenState
  <1>8. CASE Reconnects
    <2>1. call' = [call EXCEPT !.retried = TRUE]
      BY <1>8 DEF Reconnects
    <2>2. /\ call'.at = call.at /\ call'.old = call.old /\ call'.hint = call.hint
          /\ call'.force = call.force
          /\ call' \in Activations
      BY <1>1, <2>1 DEF Activations
    <2>3. call' # None
      BY <2>2, NoneAssumption
    <2>4. image' = image /\ list' = list
      BY <1>8 DEF Reconnects, shown
    <2>5. call.at \notin {"scan", "rescan"} => dirfiles' = dirfiles /\ diridx' = diridx
      BY <1>8 DEF Reconnects, place
    <2>6. CASE call.at \in {"scan", "rescan"}
      <3>1. diridx' = 0
        BY <1>8, <2>6 DEF Reconnects
      <3> QED BY <1>1, <2>2, <2>3, <2>4, <2>6, <3>1 DEF Followed
    <2>7. CASE call.at \notin {"scan", "rescan"}
      BY <1>1, <2>2, <2>3, <2>4, <2>5, <2>7 DEF Followed
    <2> QED BY <2>6, <2>7
  <1> QED BY <1>2, <1>3, <1>4, <1>5, <1>6, <1>7, <1>8 DEF CallStep
LEMMA StartFollowed ==
  ASSUME DocType, Followed, call = None, NEW fs, NEW d, NEW n, NEW force, NEW hint,
         Start(fs, d, n, force, hint), list' = list
  PROVE  Followed'
  <1>1. call' # None => call'.at = "open"
    BY DEF Start, Activation
  <1>2. dirfiles' = dirfiles /\ diridx' = diridx /\ image' = image
    BY DEF Start, shown, place
  <1> QED BY <1>1, <1>2 DEF Followed

LEMMA ClickFollowed ==
  ASSUME OnTarget, DisplayedIsPath, Followed, Click
  PROVE  Followed'
  <1>1. call = None
    BY DEF Click, Ready
  <1>2. /\ list \in Panels /\ list.rows = dirfiles /\ Distinct(dirfiles)
        /\ diridx # 0 => image \in Universe /\ list.sel = diridx /\ image = FileAtIndex
    BY <1>1 DEF Followed, OnTarget, IndexShown
  <1>3. PICK i \in DOMAIN list.rows \ {list.sel} :
          /\ list' = SelectRow(list, i)
          /\ IF i \in DOMAIN dirfiles /\ path # PathOf(dir, dirfiles[i])
             THEN Start(unifs, dir, dirfiles[i], FALSE, "after")
             ELSE UNCHANGED <<disk, shown, place, trail, call, deleting>>
    BY DEF Click
  <1>4. list' \in Panels /\ list'.rows = dirfiles
    BY <1>2, <1>3, SelectRowPanel
  <1>5. dirfiles' = dirfiles /\ diridx' = diridx /\ image' = image
    BY <1>3 DEF Start, shown, place
  <1>6. CASE path # PathOf(dir, dirfiles[i])
    <2>1. Start(unifs, dir, dirfiles[i], FALSE, "after")
      BY <1>2, <1>3, <1>6
    <2>2. call' # None => call'.at = "open" /\ call'.hint = "after"
      BY <2>1 DEF Start, Activation
    <2>3. diridx # 0 => call' # None
      <3>1. SUFFICES ASSUME diridx # 0 PROVE call' # None
        OBVIOUS
      <3>2. FileAtIndex \in Universe
        BY <1>2, <3>1
      <3>3. unifs \in FileSystems /\ dir \in Dirs /\ dirfiles[diridx] \in Names
        BY <3>2, FileParts DEF FileAtIndex
      <3>4. unifs # None
        BY <3>3, DocAssumption DEF DocAssumption
      <3>5. dirfiles[i] \in Names /\ diridx \in Nat
        BY <1>2, <1>3 DEF OnTarget, DocType
      <3>6. Activation(unifs, dir, dirfiles[i], FALSE, "after", diridx, None) \in Activations
        BY <3>3, <3>4, <3>5 DEF Activation, Activations, Steps, Hints, OnTarget, DocType
      <3> QED BY <2>1, <3>6, NoneAssumption DEF Start
    <2> QED BY <1>2, <1>4, <1>5, <2>2, <2>3 DEF Followed
  <1>7. CASE path = PathOf(dir, dirfiles[i])
    <2>1. call' = call
      BY <1>3, <1>7
    <2>2. diridx = 0
      <3>1. SUFFICES ASSUME diridx # 0 PROVE FALSE
        OBVIOUS
      <3>2. image # None
        BY <1>2, <3>1, DocAssumption DEF DocAssumption
      <3>3. image = File(unifs, path.dir, path.name)
        BY <3>2 DEF DisplayedIsPath
      <3>4. dirfiles[diridx] = path.name
        BY <1>2, <3>1, <3>3 DEF FileAtIndex, File
      <3>5. dirfiles[diridx] = dirfiles[i]
        BY <1>7, <3>4 DEF PathOf
      <3>6. diridx \in DOMAIN dirfiles
        BY <3>1 DEF OnTarget, DocType
      <3>7. diridx = i
        BY <1>2, <1>3, <3>5, <3>6 DEF Distinct
      <3> QED BY <1>2, <1>3, <3>1, <3>7
    <2> QED BY <1>1, <1>2, <1>4, <1>5, <2>1, <2>2 DEF Followed
  <1> QED BY <1>6, <1>7

LEMMA DeleteFollowed ==
  ASSUME DocType, Followed, call = None, NEW i \in 1 .. Len(dirfiles), NEW deleted, NEW gone,
         AfterDelete(i, deleted, gone)
  PROVE  Followed'
  <1> DEFINE files == RemoveAt(dirfiles, i)
  <1>1. list \in Panels /\ list.rows = dirfiles /\ Distinct(dirfiles) /\ dirfiles \in Seq(Names)
    BY DEF Followed, DocType
  <1>2. Distinct(files)
    BY <1>1, RemoveAtDistinct
  <1>3. CASE files = <<>>
    BY <1>3, NothingFollowed DEF AfterDelete
  <1>4. CASE files # <<>>
    <2>1. /\ dirfiles' = files /\ diridx' = 0 /\ list' = DeleteRow(list, i)
          /\ call' # None => call'.at = "open"
      BY <1>4 DEF AfterDelete, RemoveItem, Activation
    <2>2. list' \in Panels /\ list'.rows = files
      BY <1>1, <2>1, DeleteRowPanel
    <2>3. Distinct(dirfiles')
      BY <1>2, <2>1
    <2> QED BY <2>1, <2>2, <2>3 DEF Followed
  <1> QED BY <1>3, <1>4

LEMMA OthersFollowed ==
  ASSUME Calm, OnTarget, DisplayedIsPath, Followed, User \/ Shell \/ SlideShow \/ Others
  PROVE  Followed'
  <1> USE DEF OnTarget
  <1>1. CASE OpenFile \/ Navigate \/ Refresh
    BY <1>1, StartFollowed DEF OpenFile, Navigate, Refresh, Ready
  <1>2. CASE DeleteRemote
    <2>1. diridx \in 1 .. Len(dirfiles) /\ call = None
      BY <1>2 DEF DeleteRemote, Ready, DocType
    <2> QED BY <1>2, <2>1, DeleteFollowed DEF DeleteRemote
  <1>3. CASE DeleteLocalDone
    <2>1. deleting.idx \in 1 .. Len(dirfiles) /\ call = None
      BY <1>3 DEF DeleteLocalDone, DocType, Deletions
    <2> QED BY <1>3, <2>1, DeleteFollowed DEF DeleteLocalDone
  <1>4. CASE DeleteRemoteFails
    <2>1. CASE path = None
      BY <1>4, <2>1 DEF DeleteRemoteFails, vars, shown, place, Followed
    <2>2. CASE path # None
      BY <1>4, <2>2, StartFollowed DEF DeleteRemoteFails, Ready
    <2> QED BY <2>1, <2>2
  <1>5. CASE DeleteLocalFails
    <2>1. /\ call = None /\ (call' # None => call'.at = "open")
          /\ dirfiles' = dirfiles /\ diridx' = diridx /\ image' = image /\ list' = list
      BY <1>5 DEF DeleteLocalFails, Activation, shown, place
    <2> QED BY <2>1 DEF Followed
  <1>6. CASE DeleteLocal \/ DeleteLocalAborted \/ Others
    <2>1. /\ call' = call
          /\ dirfiles' = dirfiles /\ diridx' = diridx /\ image' = image /\ list' = list
      BY <1>6 DEF DeleteLocal, DeleteLocalAborted, Others, shown, place
    <2> QED BY <2>1 DEF Followed
  <1>7. ~SlideShow
    BY DEF SlideShow, Calm
  <1>8. CASE DeleteDies
    BY <1>8, NothingFollowed DEF DeleteDies, Ready, ClearOpenState
  <1> QED BY <1>1, <1>2, <1>3, <1>4, <1>5, <1>6, <1>7, <1>8, ClickFollowed DEF User, Shell

(* Under the circumstances of Calm, the panel shows the listing and its    *)
(* selected row is the current file between the calls: through clicks,     *)
(* failed opens, reconnects, rescans that move every row, and deletions    *)
(* (Doc::open Step 4 with the operations of FileList.cpp).                 *)
THEOREM PanelFollows == ASSUME Calm, Decodes PROVE Spec => []ListFollowsDoc
  <1>1. Init => Followed
    <2>1. Distinct(<<>>)
      BY DEF Distinct
    <2> QED BY <2>1, NoRowsPanel DEF Init, Followed
  <1>2. OnTarget /\ DisplayedIsPath /\ Followed /\ [Next]_vars => Followed'
    <2> SUFFICES ASSUME OnTarget, DisplayedIsPath, Followed, [Next]_vars PROVE Followed'
      OBVIOUS
    <2>1. CASE UNCHANGED vars
      BY <2>1 DEF vars, shown, place, Followed
    <2> QED BY <2>1, CallStepFollowed, OthersFollowed DEF Next
  <1>3. Followed => ListFollowsDoc
    BY DEF Followed, ListFollowsDoc, Ready
  <1> QED BY <1>1, <1>2, <1>3, SpecOnTarget, DisplayIsConsistent, PTL DEF Spec

-----------------------------------------------------------------------------
(* The direction of travel.  Under Calm the listing has each place of the  *)
(* order at most once, also after a deletion.                              *)
Rising(s) == \A j, k \in DOMAIN s : j < k => Key[s[j]] < Key[s[k]]

LEMMA ListingRising ==
  ASSUME Calm, NEW fs, NEW d, NEW s \in Listings(fs, d)
  PROVE  Rising(s)
  <1>1. Sorted(s)
    BY DEF Listings
  <1>2. Distinct(s) /\ s \in Seq(Names)
    BY ListingDistinct, ListingSound
  <1> SUFFICES ASSUME NEW j \in DOMAIN s, NEW k \in DOMAIN s, j < k
               PROVE  Key[s[j]] < Key[s[k]]
    BY DEF Rising
  <1>3. s[j] \in Names /\ s[k] \in Names /\ j \in Nat /\ k \in Nat
    BY <1>2
  <1>4. s[j] # s[k]
    BY <1>2, <1>3 DEF Distinct
  <1>5. Key[s[j]] # Key[s[k]] /\ Key[s[j]] \in Nat /\ Key[s[k]] \in Nat
    BY <1>3, <1>4, KeyAssumption DEF Calm, Names
  <1>6. Key[s[j]] <= Key[s[k]]
    BY <1>1 DEF Sorted
  <1> QED BY <1>5, <1>6

LEMMA RemoveAtRising ==
  ASSUME NEW s \in Seq(Names), NEW i \in 1 .. Len(s), Rising(s)
  PROVE  Rising(RemoveAt(s, i))
  <1> DEFINE rest == RemoveAt(s, i)
  <1>1. rest \in Seq(Names) /\ Len(rest) = Len(s) - 1 /\ Len(s) \in Nat /\ i \in Nat
    BY RemoveAtType
  <1>2. \A j \in 1 .. Len(s) - 1 : rest[j] = IF j < i THEN s[j] ELSE s[j + 1]
    BY RemoveAtElements
  <1> HIDE DEF rest
  <1>3. DOMAIN rest = 1 .. Len(s) - 1 /\ DOMAIN s = 1 .. Len(s)
    BY <1>1
  <1>4. ASSUME NEW j \in DOMAIN rest, NEW k \in DOMAIN rest, j < k
        PROVE  Key[rest[j]] < Key[rest[k]]
    <2> DEFINE x == IF j < i THEN j ELSE j + 1
               y == IF k < i THEN k ELSE k + 1
    <2>1. x \in DOMAIN s /\ y \in DOMAIN s /\ rest[j] = s[x] /\ rest[k] = s[y] /\ x < y
      BY <1>1, <1>2, <1>3, <1>4
    <2> HIDE DEF x, y
    <2> QED BY <2>1 DEF Rising
  <1>5. Rising(rest)
    BY <1>4 DEF Rising
  <1> QED BY <1>5 DEF rest

(* What AfterDelete opens: the neighbour on the far side of the deleted    *)
(* file, seen from the file before.                                        *)
LEMMA NextIsOnward ==
  ASSUME NEW s \in Seq(Names), Rising(s), NEW i \in 1 .. Len(s),
         prevFile \in Names, prevFile # None, Key[prevFile] # Key[s[i]],
         NEW j \in DOMAIN RemoveAt(s, i),
         IF Key[prevFile] < Key[s[i]] THEN Key[RemoveAt(s, i)[j]] > Key[s[i]]
                                      ELSE Key[RemoveAt(s, i)[j]] < Key[s[i]]
  PROVE  LET files == RemoveAt(s, i)
             name  == files[NextIndex(files, i, s[i])]
         IN  IF Key[prevFile] < Key[s[i]]
             THEN Key[name] > Key[s[i]] /\ Key[name] <= Key[files[j]]
             ELSE Key[name] < Key[s[i]] /\ Key[name] >= Key[files[j]]
  <1> DEFINE files == RemoveAt(s, i)
             next  == NextIndex(files, i, s[i])
             here  == Key[s[i]]
  <1>1. files \in Seq(Names) /\ Len(files) = Len(s) - 1 /\ Len(s) \in Nat /\ i \in Nat
    BY RemoveAtType
  <1>2. \A k \in 1 .. Len(s) - 1 : files[k] = IF k < i THEN s[k] ELSE s[k + 1]
    BY RemoveAtElements
  <1>3. next = IF Key[prevFile] > here /\ i > 1 THEN i - 1 ELSE Min({i, Len(files)})
    BY DEF NextIndex
  <1>a. /\ j \in DOMAIN files
        /\ IF Key[prevFile] < here THEN Key[files[j]] > here ELSE Key[files[j]] < here
    OBVIOUS
  <1> HIDE DEF files, next, here
  <1>4. Rising(files)
    BY RemoveAtRising DEF files
  <1>5. j \in 1 .. Len(files) /\ j \in Nat
    BY <1>1, <1>a
  <1>6. here \in Nat /\ Key[prevFile] \in Nat /\ Key[prevFile] # here
    BY KeyAssumption DEF Names, here
  <1>7. Key[files[j]] \in Nat
    BY <1>1, <1>a, KeyAssumption DEF Names
  <1>8. \A k \in 1 .. Len(files) : IF k < i THEN Key[files[k]] < here ELSE Key[files[k]] > here
    <2> SUFFICES ASSUME NEW k \in 1 .. Len(files)
                 PROVE  IF k < i THEN Key[files[k]] < here ELSE Key[files[k]] > here
      OBVIOUS
    <2>1. CASE k < i
      <3>1. files[k] = s[k] /\ k \in DOMAIN s /\ i \in DOMAIN s
        BY <1>1, <1>2, <2>1
      <3>2. Key[s[k]] < Key[s[i]]
        BY <2>1, <3>1 DEF Rising
      <3> QED BY <2>1, <3>1, <3>2 DEF here
    <2>2. CASE ~(k < i)
      <3>1. files[k] = s[k + 1] /\ k + 1 \in DOMAIN s /\ i < k + 1 /\ i \in DOMAIN s
        BY <1>1, <1>2, <2>2
      <3>2. Key[s[i]] < Key[s[k + 1]]
        BY <3>1 DEF Rising
      <3>3. Key[s[k + 1]] \in Nat
        BY <3>1, KeyAssumption DEF Names
      <3> QED BY <1>6, <2>2, <3>1, <3>2, <3>3 DEF here
    <2> QED BY <2>1, <2>2
  <1>9. CASE Key[prevFile] < here
    <2>1. ~(j < i)
      BY <1>5, <1>6, <1>7, <1>8, <1>9, <1>a
    <2>2. i \in 1 .. Len(files) /\ i <= j
      BY <1>1, <1>5, <2>1
    <2>3. next = i
      <3>1. Min({i, Len(files)}) = i
        BY <1>1, <2>2, MinOfTwo
      <3> QED BY <1>3, <1>6, <1>9, <3>1
    <2>4. Key[files[i]] > here
      BY <1>1, <1>8, <2>2
    <2>5. Key[files[i]] <= Key[files[j]]
      <3>1. Key[files[i]] \in Nat
        BY <1>1, <2>2, KeyAssumption DEF Names
      <3>2. CASE i = j
        BY <3>1, <3>2
      <3>3. CASE i # j
        <4>1. i < j /\ i \in DOMAIN files /\ j \in DOMAIN files
          BY <1>1, <1>5, <2>2, <3>3
        <4>2. Key[files[i]] < Key[files[j]]
          BY <1>4, <4>1 DEF Rising
        <4> QED BY <1>7, <3>1, <4>2
      <3> QED BY <3>2, <3>3
    <2> QED BY <1>9, <2>3, <2>4, <2>5 DEF files, next, here
  <1>10. CASE ~(Key[prevFile] < here)
    <2>1. j < i
      BY <1>1, <1>5, <1>6, <1>7, <1>8, <1>10, <1>a
    <2>2. i - 1 \in 1 .. Len(files) /\ j <= i - 1 /\ i > 1
      BY <1>1, <1>5, <2>1
    <2>3. next = i - 1
      BY <1>3, <1>6, <1>10, <2>2
    <2>4. Key[files[i - 1]] < here
      BY <1>1, <1>8, <2>2
    <2>5. Key[files[i - 1]] >= Key[files[j]]
      <3>1. Key[files[i - 1]] \in Nat
        BY <1>1, <2>2, KeyAssumption DEF Names
      <3>2. CASE i - 1 = j
        BY <3>1, <3>2
      <3>3. CASE i - 1 # j
        <4>1. j < i - 1 /\ j \in DOMAIN files /\ i - 1 \in DOMAIN files
          BY <1>1, <1>5, <2>2, <3>3
        <4>2. Key[files[j]] < Key[files[i - 1]]
          BY <1>4, <4>1 DEF Rising
        <4> QED BY <1>7, <3>1, <4>2
      <3> QED BY <3>2, <3>3
    <2> QED BY <1>10, <2>3, <2>4, <2>5 DEF files, next, here
  <1> QED BY <1>9, <1>10
-----------------------------------------------------------------------------
(* Where the user came from.  While an image is there, _dir is its         *)
(* directory, _curFile its name, and _prevFile that of the file before it, *)
(* if it was of the same directory.  An open() under way goes by the       *)
(* directory it began in.                                                  *)
TrailIs(d) ==
  image # None =>
    /\ image.dir = d /\ curFile = image.name
    /\ travel # None /\ travel.dir = d => prevFile = travel.name

TrailShown ==
  /\ call = None => TrailIs(dir)
  /\ call # None /\ call.at # "rescan" => TrailIs(call.prevDir)
  /\ call # None /\ call.at = "open" => call.prevDir = dir
  /\ call # None /\ call.at = "rescan" /\ travel # None /\ travel.dir = call.dir =>
       call.dir = call.prevDir /\ curFile = travel.name

DeletingShown ==
  deleting # None =>
    /\ call = None /\ diridx # 0
    /\ deleting = [idx |-> diridx, name |-> dirfiles[diridx], file |-> FileAtIndex]

Journey ==
  /\ TrailShown /\ DeletingShown
  /\ travel # None => travel # image
  /\ Rising(dirfiles)

(* The open() succeeds with file n at Step 2.                              *)
LEMMA ShowJourney ==
  ASSUME Calm, OnTarget, Journey, call # None, NEW n, File(call.fs, call.dir, n) \in disk,
         Decoded(n) \/ Undecodable(n), UNCHANGED deleting,
         \/ call.at = "open" /\ n = call.name
         \/ call.at = "retry" /\ n = call.target
  PROVE  Journey'
  <1>1. SUFFICES ASSUME Decoded(n) PROVE Journey'
    BY DEF Undecodable, Journey, TrailShown, TrailIs, DeletingShown, Rising
  <1>2. call \in Activations
    BY DEF OnTarget, DocType
  <1>3. image' # None /\ image'.dir = call.dir /\ image'.name = n
    <2>1. image' = File(call.fs, call.dir, n) /\ image' \in disk
      BY <1>1 DEF Decoded
    <2> QED BY <2>1, DocAssumption DEF File, OnTarget, DocType
  <1>4. TrailIs(call.prevDir)
    BY DEF Journey, TrailShown
  <1>5. travel' = IF image' = image THEN None ELSE image
    BY <1>1 DEF Decoded
  <1>6. travel' # None =>
          travel' = image /\ travel' # image' /\ travel'.dir = call.prevDir /\ curFile = travel'.name
    BY <1>4, <1>5 DEF TrailIs
  <1>7. deleting' = None
    BY DEF Journey, DeletingShown
  <1>8. CASE call.force /\ ~call.scanned
    <2>1. call' = [call EXCEPT !.at = "rescan", !.old = dirfiles] /\ dirfiles' = dirfiles
          /\ curFile' = curFile
      BY <1>1, <1>8 DEF Decoded, trail
    <2>2. call'.at = "rescan" /\ call'.dir = call.dir /\ call'.prevDir = call.prevDir
      BY <1>2, <2>1 DEF Activations
    <2>3. call' # None
      <3>1. call' \in Activations
        BY <1>2, <2>1 DEF Activations, Steps, OnTarget, DocType
      <3> QED BY <3>1, NoneAssumption
    <2>4. TrailShown'
      BY <1>6, <2>1, <2>2, <2>3 DEF TrailShown
    <2> QED BY <1>6, <1>7, <2>1, <2>4 DEF Journey, DeletingShown
  <1>9. CASE ~(call.force /\ ~call.scanned)
    <2>1. Conclude(dir, dirfiles, IndexOf(dirfiles, n), n)
      BY <1>1, <1>9 DEF Decoded
    <2>2. call.dir = dir
      BY <1>9 DEF OnTarget, StepShown
    <2>3. /\ call' = None /\ dir' = dir /\ dirfiles' = dirfiles /\ curFile' = n
          /\ prevFile' = IF dir = call.prevDir THEN curFile ELSE None
      BY <2>1 DEF Conclude
    <2>4. TrailIs(dir)'
      BY <1>3, <1>6, <2>2, <2>3 DEF TrailIs
    <2> QED BY <1>6, <1>7, <2>3, <2>4 DEF Journey, TrailShown, DeletingShown
  <1> QED BY <1>8, <1>9

LEMMA ClearJourney ==
  ASSUME ClearOpenState, call' = None, deleting' = None
  PROVE  Journey'
  BY DEF ClearOpenState, Journey, TrailShown, TrailIs, DeletingShown, Rising

(* A step of an open() that leaves the image alone and does not end it.    *)
LEMMA OnwardJourney ==
  ASSUME Journey, call # None, call' # None, UNCHANGED <<shown, trail, deleting>>,
         call.at = "open" => call'.at # "rescan",
         call'.at = "rescan" => call.at = "rescan" /\ call'.dir = call.dir,
         call'.at = "open" => call.at = "open" /\ dir' = dir,
         call'.prevDir = call.prevDir, Rising(dirfiles'),
         call.at # "rescan" \/ call'.at = "rescan"
  PROVE  Journey'
  BY DEF Journey, TrailShown, TrailIs, DeletingShown, shown, trail

LEMMA CallStepJourney ==
  ASSUME Calm, OnTarget, Journey, CallStep
  PROVE  Journey'
  <1>1. call # None /\ call \in Activations
    BY DEF CallStep, OpenSucceeds, OpenFails, ScanSucceeds, RetrySucceeds, RetryFails,
           RescanSucceeds, ListingFails, Reconnects, ReconnectFails, OnTarget, DocType
  <1>2. UNCHANGED deleting /\ deleting = None
    BY <1>1 DEF CallStep, OpenSucceeds, OpenFails, ScanSucceeds, RetrySucceeds, RetryFails,
           RescanSucceeds, ListingFails, Reconnects, ReconnectFails, Journey, DeletingShown
  <1>3. CASE OpenSucceeds \/ RetrySucceeds
    BY <1>2, <1>3, ShowJourney DEF OpenSucceeds, RetrySucceeds
  <1>4. CASE OpenFails
    <2>1. PICK lost \in BOOLEAN :
            call' = IF call.hint = "none" THEN None
                    ELSE [call EXCEPT !.at = "scan", !.old = dirfiles, !.lost = lost]
      BY <1>4 DEF OpenFails
    <2>2. call.at = "open" /\ UNCHANGED <<shown, place, trail>>
      BY <1>4 DEF OpenFails
    <2>3. CASE call.hint = "none"
      BY <1>1, <1>2, <2>1, <2>2, <2>3
        DEF Journey, TrailShown, TrailIs, DeletingShown, shown, place, trail
    <2>4. CASE call.hint # "none"
      <3>1. call'.at = "scan" /\ call'.prevDir = call.prevDir
        BY <1>1, <2>1, <2>4 DEF Activations
      <3>2. call' \in Activations
        BY <1>1, <2>1, <2>4 DEF Activations, Steps, OnTarget, DocType
      <3>3. call' # None
        BY <3>2, NoneAssumption
      <3>4. Rising(dirfiles')
        BY <2>2 DEF place, Journey
      <3> QED BY <1>1, <1>2, <2>2, <3>1, <3>3, <3>4, OnwardJourney
    <2> QED BY <2>3, <2>4
  <1>5. CASE ScanSucceeds
    <2>1. PICK s \in Listings(call.fs, call.dir) :
            IF s = <<>> THEN ClearOpenState /\ call' = None
            ELSE /\ dirfiles' = s
                 /\ call' = [call EXCEPT !.at = "retry", !.scanned = TRUE,
                                         !.target = s[NearestIndex(s, call.name, call.hint)]]
                 /\ UNCHANGED <<shown, trail, list>>
      BY <1>5 DEF ScanSucceeds
    <2>2. CASE s = <<>>
      BY <1>2, <2>1, <2>2, ClearJourney
    <2>3. CASE s # <<>>
      <3> DEFINE n == s[NearestIndex(s, call.name, call.hint)]
      <3>1. s \in Seq(Names)
        BY ListingSound
      <3>2. n \in Names
        BY <2>3, <3>1, NearestIndexType
      <3>3. call' = [call EXCEPT !.at = "retry", !.scanned = TRUE, !.target = n]
        BY <2>1, <2>3
      <3> HIDE DEF n
      <3>4. call'.at = "retry" /\ call'.prevDir = call.prevDir
        BY <1>1, <3>3 DEF Activations
      <3>5. call' \in Activations
        BY <1>1, <3>2, <3>3 DEF Activations, Steps
      <3>6. call' # None /\ call.at = "scan"
        BY <1>5, <3>5, NoneAssumption DEF ScanSucceeds
      <3>7. Rising(dirfiles')
        BY <2>1, <2>3, ListingRising
      <3> QED BY <1>1, <1>2, <2>1, <2>3, <3>4, <3>6, <3>7, OnwardJourney
    <2> QED BY <2>2, <2>3
  <1>6. CASE RetryFails
    <2>1. File(call.fs, call.dir, call.target) \in disk
      BY <1>6 DEF RetryFails, OnTarget, StepShown
    <2> QED BY <1>6, <2>1 DEF RetryFails, FileRefused, LostAgain, Calm
  <1>7. CASE RescanSucceeds
    <2>1. PICK s \in Listings(call.fs, call.dir) :
            Conclude(call.dir, s, IndexIgnoringCase(s, call.name), call.name)
      BY <1>7 DEF RescanSucceeds
    <2>2. /\ call' = None /\ dir' = call.dir /\ dirfiles' = s /\ curFile' = call.name
          /\ prevFile' = IF call.dir = call.prevDir THEN curFile ELSE None
      BY <2>1 DEF Conclude
    <2>3. /\ call.at = "rescan" /\ UNCHANGED <<image, travel>>
          /\ image = File(call.fs, call.dir, call.name)
      BY <1>1, <1>7 DEF RescanSucceeds, OnTarget, StepShown, shown
    <2>4. image.dir = call.dir /\ image.name = call.name
      BY <2>3 DEF File
    <2>5. TrailIs(dir)'
      BY <1>1, <2>2, <2>3, <2>4 DEF Journey, TrailShown, TrailIs
    <2>6. Rising(dirfiles')
      BY <2>2, ListingRising
    <2> QED BY <1>2, <2>2, <2>3, <2>5, <2>6 DEF Journey, TrailShown, DeletingShown
  <1>8. CASE ListingFails \/ ReconnectFails
    BY <1>2, <1>8, ClearJourney DEF ListingFails, ReconnectFails
  <1>9. CASE Reconnects
    <2>1. call' = [call EXCEPT !.retried = TRUE]
      BY <1>9 DEF Reconnects
    <2>2. call'.at = call.at /\ call'.dir = call.dir /\ call'.prevDir = call.prevDir
      BY <1>1, <2>1 DEF Activations
    <2>3. call' # None
      <3>1. call' \in Activations
        BY <1>1, <2>1 DEF Activations
      <3> QED BY <3>1, NoneAssumption
    <2>4. UNCHANGED <<shown, trail, deleting>> /\ (call.at = "open" => dir' = dir)
          /\ (dirfiles' = dirfiles \/ dirfiles' = <<>>)
      BY <1>9 DEF Reconnects, place
    <2>5. Rising(dirfiles')
      <3>1. CASE dirfiles' = dirfiles
        BY <3>1 DEF Journey
      <3>2. CASE dirfiles' = <<>>
        BY <3>2 DEF Rising
      <3> QED BY <2>4, <3>1, <3>2
    <2> QED BY <1>1, <2>2, <2>3, <2>4, <2>5, OnwardJourney
  <1> QED BY <1>3, <1>4, <1>5, <1>6, <1>7, <1>8, <1>9 DEF CallStep

LEMMA StartJourney ==
  ASSUME Journey, call = None, deleting = None, NEW fs, NEW d, NEW n, NEW force, NEW hint,
         Start(fs, d, n, force, hint)
  PROVE  Journey'
  <1>1. call' # None => call'.at = "open" /\ call'.prevDir = dir
    BY DEF Start, Activation
  <1>2. UNCHANGED <<shown, place, trail, deleting>>
    BY DEF Start
  <1> QED BY <1>1, <1>2 DEF Journey, TrailShown, TrailIs, DeletingShown, shown, place, trail

LEMMA StayJourney ==
  ASSUME Journey, UNCHANGED <<shown, place, trail, call>>, UNCHANGED deleting \/ deleting' = None
  PROVE  Journey'
  BY DEF Journey, TrailShown, TrailIs, DeletingShown, FileAtIndex, shown, place, trail

LEMMA UserJourney ==
  ASSUME Journey, OpenFile \/ Navigate \/ Click \/ Refresh \/ DeleteRemoteFails
  PROVE  Journey'
  <1>1. call = None /\ deleting = None
    BY DEF OpenFile, Navigate, Click, Refresh, DeleteRemoteFails, Ready
  <1>2. CASE Click
    <2>1. PICK i \in DOMAIN list.rows :
            IF i \in DOMAIN dirfiles /\ path # PathOf(dir, dirfiles[i])
            THEN Start(unifs, dir, dirfiles[i], FALSE, "after")
            ELSE UNCHANGED <<disk, shown, place, trail, call, deleting>>
      BY <1>2 DEF Click
    <2> QED BY <1>1, <2>1, StartJourney, StayJourney
  <1>3. CASE DeleteRemoteFails
    <2>1. CASE path = None
      BY <1>3, <2>1, StayJourney DEF DeleteRemoteFails, vars
    <2>2. CASE path # None
      BY <1>1, <1>3, <2>2, StartJourney DEF DeleteRemoteFails
    <2> QED BY <2>1, <2>2
  <1>4. CASE OpenFile \/ Navigate \/ Refresh
    BY <1>1, <1>4, StartJourney DEF OpenFile, Navigate, Refresh
  <1> QED BY <1>2, <1>3, <1>4

(* The file is gone, and the next one is opened.                           *)
LEMMA AfterDeleteJourney ==
  ASSUME Calm, OnTarget, Journey, call = None, diridx # 0, FileAtIndex \in disk,
         AfterDelete(diridx, dirfiles[diridx], FileAtIndex), deleting' = None
  PROVE  Journey' /\ KeepsDirection
  <1> DEFINE files == RemoveAt(dirfiles, diridx)
             next  == NextIndex(files, diridx, dirfiles[diridx])
  <1>1. dirfiles \in Seq(Names) /\ diridx \in 1 .. Len(dirfiles)
    BY DEF OnTarget, DocType
  <1>2. files \in Seq(Names) /\ Rising(files)
    BY <1>1, RemoveAtType, RemoveAtRising DEF Journey
  <1>3. files # <<>> => next \in DOMAIN files
    <2>1. Len(files) = Len(dirfiles) - 1 /\ diridx \in 1 .. Len(files) + 1
      BY <1>1, RemoveAtType
    <2> HIDE DEF files
    <2>2. files # <<>> => next \in 1 .. Len(files)
      BY <1>2, <2>1, NextIndexType
    <2> QED BY <1>2, <2>2
  <1>4. CASE files = <<>>
    <2>1. image' = None /\ travel' = None /\ dirfiles' = <<>> /\ call' = None
      BY <1>4 DEF AfterDelete
    <2> QED BY <2>1 DEF Journey, TrailShown, TrailIs, DeletingShown, KeepsDirection, Rising
  <1>5. CASE files # <<>>
    <2>1. /\ dirfiles' = files /\ UNCHANGED <<shown, dir, trail>>
          /\ call' = Activation(unifs, dir, files[next], FALSE,
                                IF next >= diridx THEN "after" ELSE "before", 0, FileAtIndex)
      BY <1>5 DEF AfterDelete
    <2> HIDE DEF files, next
    <2>2. call' # None => /\ call'.at = "open" /\ call'.prevDir = dir /\ call'.dir = dir
                          /\ call'.fs = unifs /\ call'.name = files[next]
                          /\ call'.gone = FileAtIndex
      BY <2>1 DEF Activation
    <2>3. Journey'
      BY <1>2, <2>1, <2>2 DEF Journey, TrailShown, TrailIs, DeletingShown, shown, trail
    <2>4. SUFFICES ASSUME call' # None, travel # None, travel.fs = unifs, travel.dir = dir,
                          NEW n \in ToSet(files),
                          IF Key[travel.name] < Key[dirfiles[diridx]]
                          THEN Key[n] > Key[dirfiles[diridx]]
                          ELSE Key[n] < Key[dirfiles[diridx]]
                   PROVE  IF Key[travel.name] < Key[dirfiles[diridx]]
                          THEN Key[files[next]] > Key[dirfiles[diridx]] /\ Key[files[next]] <= Key[n]
                          ELSE Key[files[next]] < Key[dirfiles[diridx]] /\ Key[files[next]] >= Key[n]
      <3>1. FileAtIndex.name = dirfiles[diridx]
        BY DEF FileAtIndex, File
      <3>2. CASE call' = None
        BY <2>3, <3>2 DEF KeepsDirection
      <3>3. CASE call' # None
        <4>1. ToSet(files) # {} => files[next] \in ToSet(files)
          BY <1>3, <1>5 DEF ToSet
        <4> QED BY <2>1, <2>2, <2>3, <2>4, <3>1, <3>3, <4>1 DEF KeepsDirection
      <3> QED BY <3>2, <3>3
    <2>5. image = FileAtIndex /\ image # None
      <3>1. image = FileAtIndex
        BY DEF OnTarget, IndexShown
      <3> QED BY <3>1, DocAssumption DEF OnTarget, DocType
    <2>6. prevFile = travel.name /\ travel # image
      BY <2>4, <2>5 DEF Journey, TrailShown, TrailIs
    <2>7. travel \in Universe
      BY <2>4 DEF OnTarget, DocType
    <2>8. travel.name \in Names /\ travel = [fs |-> travel.fs, dir |-> travel.dir, name |-> travel.name]
      BY <2>7, DocAssumption
    <2>9. travel.name # dirfiles[diridx]
      BY <2>4, <2>5, <2>6, <2>8 DEF FileAtIndex, File
    <2>10. dirfiles[diridx] \in Names
      BY <1>1
    <2>11. Key[prevFile] # Key[dirfiles[diridx]] /\ prevFile \in Names /\ prevFile # None
      BY <2>6, <2>8, <2>9, <2>10, DocAssumption DEF Calm
    <2>12. PICK j \in DOMAIN files : files[j] = n
      BY <2>4 DEF ToSet
    <2>13. Rising(dirfiles)
      BY DEF Journey
    <2> QED BY <1>1, <2>4, <2>6, <2>11, <2>12, <2>13, NextIsOnward DEF files, next
  <1> QED BY <1>4, <1>5

LEMMA DeleteJourney ==
  ASSUME Calm, OnTarget, Journey, DeleteRemote \/ DeleteDies \/ DeleteLocal \/ Shell
  PROVE  Journey' /\ (call' # None /\ call'.gone # None => KeepsDirection)
  <1>1. CASE DeleteRemote
    BY <1>1, AfterDeleteJourney DEF DeleteRemote, Ready
  <1>2. CASE DeleteLocalDone
    BY <1>2, AfterDeleteJourney DEF DeleteLocalDone, Journey, DeletingShown
  <1>3. CASE DeleteDies
    BY <1>3, ClearJourney DEF DeleteDies, Ready
  <1>4. CASE DeleteLocal
    BY <1>4 DEF DeleteLocal, Ready, Journey, TrailShown, TrailIs, DeletingShown, FileAtIndex,
                shown, place, trail
  <1>5. CASE DeleteLocalFails
    <2>1. call' # None => call'.at = "open" /\ call'.prevDir = dir /\ call'.gone = None
      BY <1>5 DEF DeleteLocalFails, Activation
    <2> QED BY <1>5, <2>1 DEF DeleteLocalFails, Journey, TrailShown, TrailIs, DeletingShown,
                              shown, place, trail
  <1>6. CASE DeleteLocalAborted
    BY <1>6, StayJourney DEF DeleteLocalAborted
  <1> QED BY <1>1, <1>2, <1>3, <1>4, <1>5, <1>6 DEF Shell

LEMMA SpecJourney == ASSUME Calm PROVE Spec => [](OnTarget /\ Journey)
  <1>1. Init => Journey
    BY DEF Init, Journey, TrailShown, TrailIs, DeletingShown, Rising
  <1>2. OnTarget /\ Journey /\ [Next]_vars => Journey'
    <2> SUFFICES ASSUME OnTarget, Journey, [Next]_vars PROVE Journey'
      OBVIOUS
    <2>1. CASE CallStep
      BY <2>1, CallStepJourney
    <2>2. CASE User \/ Shell
      BY <2>2, UserJourney, DeleteJourney DEF User
    <2>3. CASE SlideShow
      BY <2>3 DEF SlideShow, Calm
    <2>4. CASE Others
      BY <2>4, StayJourney DEF Others
    <2>5. CASE UNCHANGED vars
      BY <2>5, StayJourney DEF vars
    <2> QED BY <2>1, <2>2, <2>3, <2>4, <2>5 DEF Next
  <1> QED BY <1>1, <1>2, SpecOnTarget, PTL DEF Spec

(* removeCurrentFile() opens the next file (Doc.cpp:640-686): under the    *)
(* circumstances of Calm, and whatever other programs did to the directory *)
(* before, it chooses the neighbour of the deleted file in the direction of*)
(* travel, and the deleted file does not stay on display when the open()   *)
(* that follows has ended.                                                 *)
THEOREM DeleteGoesOn == ASSUME Calm PROVE Spec => DeleteMovesOn
  <1>1. Init => GoneIsGone
    BY DEF Init, GoneIsGone
  <1>2. OnTarget /\ Journey /\ GoneIsGone /\ [Next]_vars =>
          GoneIsGone' /\ [LeavesDeleted /\ KeepsDirection]_vars
    <2> SUFFICES ASSUME OnTarget, Journey, GoneIsGone, [Next]_vars
                 PROVE  GoneIsGone' /\ ((LeavesDeleted /\ KeepsDirection) \/ UNCHANGED vars)
      OBVIOUS
    <2>1. ~SlideShow
      BY DEF SlideShow, Calm
    <2>2. CASE CallStep
      <3>1. call # None
        BY <2>2 DEF CallStep, OpenSucceeds, OpenFails, ScanSucceeds, RetrySucceeds, RetryFails,
                    RescanSucceeds, ListingFails, Reconnects, ReconnectFails
      <3> QED BY <2>2, <3>1, GoneCallStep DEF LeavesDeleted, KeepsDirection
    <2>3. CASE User \/ Shell \/ Others \/ UNCHANGED vars
      <3>1. GoneIsGone' /\ (UNCHANGED vars \/ LeavesDeleted)
        BY <2>3, GoneElse DEF LeavesDeleted
      <3>2. call' # None /\ call'.gone # None => KeepsDirection
        <4>1. CASE DeleteRemote \/ DeleteDies \/ DeleteLocal \/ Shell
          BY <4>1, DeleteJourney
        <4>2. CASE Others \/ UNCHANGED vars
          BY <4>2 DEF Others, vars, KeepsDirection
        <4>3. CASE OpenFile \/ Navigate \/ Click \/ Refresh \/ DeleteRemoteFails
          <5>1. call' = call \/ call' = None \/ call'.gone = None
            BY <4>3 DEF OpenFile, Navigate, Click, Refresh, DeleteRemoteFails, Start, Activation,
                        vars
          <5> QED BY <5>1 DEF KeepsDirection
        <4> QED BY <2>3, <4>1, <4>2, <4>3 DEF User
      <3>3. KeepsDirection
        BY <3>2 DEF KeepsDirection
      <3> QED BY <3>1, <3>3
    <2> QED BY <2>1, <2>2, <2>3 DEF Next
  <1>3. Spec => [](OnTarget /\ Journey)
    BY SpecJourney
  <1> QED BY <1>1, <1>2, <1>3, PTL DEF Spec, DeleteMovesOn
=============================================================================
