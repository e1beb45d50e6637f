---------------------------- MODULE LibraryProofs ----------------------------
(***************************************************************************)
(* The ladder of the gallery only ever rises, for any number of savers,    *)
(* images, edits and restarts.                                             *)
(*                                                                         *)
(* It is the enrichment thread that could let it fall: it writes a level   *)
(* next to what it read some steps before.  It does not because it is one: *)
(* nobody else raises a level, so the row is never above what the thread   *)
(* knows of it, not even when its id has been given to another image.      *)
(***************************************************************************)
EXTENDS Library, FiniteSetTheorems, SequenceTheorems, TLAPS

(* There is a thread to start, and the gallery has room for the first      *)
(* image.                                                                  *)
LibraryAssumption ==
  Workers # {} /\ MaxImages \in Nat \ {0} /\ MaxQueue \in Nat

Rows == [image : {0} \cup Images, trashed : BOOLEAN, tags : SUBSET {"mine", "auto"},
         caption : {0} \cup Images, level : Saved .. Embedded,
         hashed : BOOLEAN, missing : BOOLEAN]
Places == {"none", "idle", "read", "hash", "open", "caption", "captioned",
           "keywords", "tagged", "embed", "emit"}
Turns == [at : Places, id : {0} \cup Ids, image : {0} \cup Images,
          level : Saved .. Embedded, tags : SUBSET {"mine", "auto"}]
Saving == [at : {"idle", "saved", "tag", "collect", "enqueue"}, image : {0} \cup Images,
           id : {0} \cup Ids, how : {"", "image", "video", "import"}]
Names == [by : {"collection", "preset"}, id : Ids]

-----------------------------------------------------------------------------
(* The inductive invariant.                                                *)

(* _START_LOCK: there is one enrichment thread, once one was started.      *)
OneThread ==
  /\ \A v, w \in Workers : worker[v].at # "none" /\ worker[w].at # "none" => v = w
  /\ ~started => \A w \in Workers : worker[w].at = "none"

(* The row of a turn is not above what the thread knows of it, and a write *)
(* that is due brings the level the thread has noted.                      *)
Knows(w) ==
  /\ worker[w].at \notin {"none", "idle"} => worker[w].id \in Ids
  /\ worker[w].at \in {"hash", "open", "caption", "captioned", "keywords", "tagged"} =>
       rows[worker[w].id].level <= worker[w].level
  /\ worker[w].at = "captioned" => worker[w].level = Captioned
  /\ worker[w].at = "tagged" => worker[w].level = Tagged

(* A save knows its row once it is added.                                  *)
Named(m) == maker[m].at \in {"tag", "collect", "enqueue"} => maker[m].id \in Ids

IInv ==
  /\ TypeOK /\ OneThread
  /\ (\A w \in Workers : Knows(w)) /\ (\A m \in Makers : Named(m))

-----------------------------------------------------------------------------
(* Types.                                                                  *)

(* What TypeOK says, one variable at a time.                               *)
LEMMA TypesOf ==
  TypeOK <=> /\ rows \in [Ids -> Rows] /\ files \subseteq Images /\ made \in 0 .. MaxImages
             /\ named \subseteq Names /\ maker \in [Makers -> Saving]
             /\ queue \in Seq(Ids) /\ Len(queue) <= MaxQueue
             /\ worker \in [Workers -> Turns]
BY DEF TypeOK, Rows, Saving, Turns, Names, Places

LEMMA TypesNow ==
  ASSUME rows' \in [Ids -> Rows], files' \subseteq Images, made' \in 0 .. MaxImages,
         named' \subseteq Names, maker' \in [Makers -> Saving],
         queue' \in Seq(Ids), Len(queue') <= MaxQueue, worker' \in [Workers -> Turns]
  PROVE  TypeOK'
BY DEF TypeOK, Rows, Saving, Turns, Names, Places

(* The rungs are numbers.                                                  *)
LEMMA Rungs ==
  /\ Saved = 0 /\ Captioned = 1 /\ Tagged = 2 /\ Embedded = 3
  /\ \A r \in Rows : r.level \in 0 .. 3
  /\ \A x \in Turns : x.level \in 0 .. 3
BY DEF Saved, Captioned, Tagged, Embedded, Rows, Turns

(* A row keeps its type through what is written to it.                     *)
LEMMA RowType ==
  ASSUME NEW r \in Rows
  PROVE  /\ \A s \in SUBSET {"mine", "auto"} : [r EXCEPT !.tags = s] \in Rows
         /\ \A b \in BOOLEAN :
              /\ [r EXCEPT !.trashed = b] \in Rows
              /\ [r EXCEPT !.missing = b] \in Rows
              /\ [r EXCEPT !.hashed = b] \in Rows
         /\ \A s \in SUBSET {"mine", "auto"}, l \in Saved .. Embedded :
              [r EXCEPT !.tags = s, !.level = l] \in Rows
         /\ \A s \in SUBSET {"mine", "auto"}, l \in Saved .. Embedded, c \in {0} \cup Images :
              [r EXCEPT !.caption = c, !.level = l, !.tags = s] \in Rows
         /\ \A l \in Saved .. Embedded : [r EXCEPT !.level = l] \in Rows
BY DEF Rows

(* So does the row of a new image, and the one of none.                    *)
LEMMA NewRowType ==
  /\ NoRow \in Rows /\ NoRow.level = Saved /\ NoRow.image = 0
  /\ \A i \in {0} \cup Images, h \in BOOLEAN :
       LET r == [NoRow EXCEPT !.image = i, !.hashed = h]
       IN  r \in Rows /\ r.level = Saved
<1>1. 0 \in Saved .. Embedded /\ Saved = 0
  BY DEF Saved, Embedded
<1>2. NoRow \in Rows /\ NoRow.level = Saved /\ NoRow.image = 0
  BY <1>1 DEF NoRow, Rows
<1>3. ASSUME NEW i \in {0} \cup Images, NEW h \in BOOLEAN
      PROVE  [NoRow EXCEPT !.image = i, !.hashed = h] \in Rows
  BY <1>2 DEF Rows
<1>4. ASSUME NEW i \in {0} \cup Images, NEW h \in BOOLEAN
      PROVE  [NoRow EXCEPT !.image = i, !.hashed = h].level = Saved
  BY DEF NoRow
<1> QED
  BY <1>2, <1>3, <1>4

(* The thread's turn keeps its type.                                       *)
LEMMA TurnType ==
  /\ NoWork \in Turns /\ [NoWork EXCEPT !.at = "idle"] \in Turns
  /\ \A i \in Ids : [NoWork EXCEPT !.at = "read", !.id = i] \in Turns
<1>1. 0 \in Saved .. Embedded /\ Saved = 0
  BY DEF Saved, Embedded
<1>2. NoWork \in Turns
  BY <1>1 DEF NoWork, Turns, Places
<1> QED
  BY <1>2 DEF Turns, Places

LEMMA TurnKeeps ==
  ASSUME NEW x \in Turns, NEW p \in Places, NEW l \in Saved .. Embedded
  PROVE  /\ [x EXCEPT !.at = p] \in Turns
         /\ \A i \in {0} \cup Images : [x EXCEPT !.at = p, !.image = i, !.level = l] \in Turns
         /\ [x EXCEPT !.at = p, !.level = l] \in Turns
         /\ \A s \in SUBSET {"mine", "auto"} : [x EXCEPT !.at = p, !.level = l, !.tags = s] \in Turns
BY DEF Turns

(* The ids of a query are a sequence of ids.                               *)
LEMMA InOrderType ==
  ASSUME LibraryAssumption, NEW S \in SUBSET Ids, NEW s \in InOrder(S)
  PROVE  s \in Seq(Ids) /\ Len(s) = Cardinality(S) /\ Cardinality(S) \in Nat
<1>1. IsFiniteSet(Ids)
  BY FS_Interval DEF Ids, LibraryAssumption
<1>2. Cardinality(S) \in Nat
  BY <1>1, FS_Subset, FS_CardinalityType
<1>3. s \in [1 .. Cardinality(S) -> Ids]
  BY DEF InOrder
<1> QED
  BY <1>2, <1>3

-----------------------------------------------------------------------------
(* Starting the thread.                                                    *)

(* Whether it was there or not, there is one afterwards, and no turn is    *)
(* touched.                                                                *)
LEMMA StartOne ==
  ASSUME LibraryAssumption, IInv, Start
  PROVE  /\ worker' \in [Workers -> Turns] /\ OneThread'
         /\ \A w \in Workers : worker'[w] = worker[w] \/ worker'[w].at = "idle"
<1>1. worker \in [Workers -> Turns]
  BY TypesOf DEF IInv
<1>2. CASE started
  BY <1>1, <1>2 DEF Start, IInv, OneThread
<1>3. CASE ~started
  <2>1. PICK v \in Workers :
          worker' = [worker EXCEPT ![v] = [NoWork EXCEPT !.at = "idle"]] /\ started'
    BY <1>3 DEF Start, IInv, OneThread, LibraryAssumption
  <2>2. \A w \in Workers : worker[w].at = "none"
    BY <1>3 DEF IInv, OneThread
  <2>3. [NoWork EXCEPT !.at = "idle"].at = "idle"
    BY DEF NoWork
  <2>4. worker' \in [Workers -> Turns]
    BY <1>1, <2>1, TurnType
  <2>5. \A w \in Workers : IF w = v THEN worker'[w].at = "idle" ELSE worker'[w] = worker[w]
    BY <1>1, <2>1, <2>3
  <2> QED
    BY <2>1, <2>2, <2>4, <2>5 DEF OneThread
<1> QED
  BY <1>2, <1>3

(* A thread that rests knows nothing, and one whose row has not risen      *)
(* knows as much of it as before.                                          *)
LEMMA StillKnows ==
  ASSUME IInv, NEW w \in Workers,
         worker'[w] = worker[w] \/ worker'[w].at \in {"none", "idle"},
         \A i \in Ids : rows'[i].level \in Nat /\ rows'[i].level <= rows[i].level
  PROVE  Knows(w)'
<1>1. CASE worker'[w].at \in {"none", "idle"}
  BY <1>1 DEF Knows
<1>2. CASE worker'[w] = worker[w] /\ worker[w].at \notin {"none", "idle"}
  <2>1. Knows(w) /\ worker[w].id \in Ids /\ worker[w].level \in 0 .. 3
    BY <1>2, TypesOf, Rungs DEF IInv, Knows
  <2>2. rows[worker[w].id].level \in 0 .. 3
    BY <2>1, TypesOf, Rungs DEF IInv
  <2> QED
    BY <1>2, <2>1, <2>2 DEF Knows
<1> QED
  BY <1>1, <1>2

-----------------------------------------------------------------------------
(* What is done to the gallery.                                            *)

(* Nobody but the thread raises a row: a row keeps its level, or it is new *)
(* or gone.  Then the thread knows as much as before, and nothing fell.    *)
Beside(i) ==
  \/ rows'[i].level = rows[i].level
  \/ rows'[i].level = Saved /\ (rows[i].image = 0 \/ rows'[i].image = 0)

LEMMA GalleryStep ==
  ASSUME IInv, UNCHANGED ladder,
         rows' \in [Ids -> Rows], files' \subseteq Images, made' \in 0 .. MaxImages,
         named' \subseteq Names, maker' \in [Makers -> Saving],
         \A i \in Ids : Beside(i), \A m \in Makers : Named(m)'
  PROVE  IInv' /\ Rises
<1>1. TypeOK'
  <2>1. queue' \in Seq(Ids) /\ Len(queue') <= MaxQueue /\ worker' \in [Workers -> Turns]
    BY TypesOf DEF IInv, ladder
  <2> QED
    BY <2>1, TypesNow
<1>2. OneThread'
  BY DEF IInv, OneThread, ladder
<1>3. ASSUME NEW i \in Ids
      PROVE  rows'[i].level \in Nat /\ rows'[i].level <= rows[i].level
  <2>1. rows[i].level \in 0 .. 3 /\ rows'[i].level \in 0 .. 3
    BY <1>3, TypesOf, Rungs DEF IInv
  <2> QED
    BY <1>3, <2>1, Rungs DEF Beside
<1>4. ASSUME NEW w \in Workers PROVE Knows(w)'
  <2>1. worker'[w] = worker[w]
    BY DEF ladder
  <2> QED
    BY <1>3, <1>4, <2>1, StillKnows
<1>5. ASSUME NEW i \in Ids, rows[i].image # 0, rows'[i].image = rows[i].image
      PROVE  rows'[i].level >= rows[i].level
  <2>1. rows[i].level \in 0 .. 3
    BY <1>5, TypesOf, Rungs DEF IInv
  <2> QED
    BY <1>5, <2>1 DEF Beside
<1> QED
  BY <1>1, <1>2, <1>4, <1>5 DEF IInv, Rises

(* Of the variables a step of the gallery touches only some.               *)
LEMMA RowsOnly ==
  ASSUME IInv, UNCHANGED <<made, named, maker, ladder>>,
         rows' \in [Ids -> Rows], files' \subseteq Images, \A i \in Ids : Beside(i)
  PROVE  IInv' /\ Rises
<1>1. \A m \in Makers : Named(m)'
  BY DEF IInv, Named
<1>2. made' \in 0 .. MaxImages /\ named' \subseteq Names /\ maker' \in [Makers -> Saving]
  BY TypesOf DEF IInv
<1> QED
  BY <1>1, <1>2, GalleryStep

LEMMA NamesOnly ==
  ASSUME IInv, UNCHANGED <<rows, files, made, maker, ladder>>, named' \subseteq Names
  PROVE  IInv' /\ Rises
<1>1. \A m \in Makers : Named(m)'
  BY DEF IInv, Named
<1>2. /\ rows' \in [Ids -> Rows] /\ files' \subseteq Images /\ made' \in 0 .. MaxImages
      /\ maker' \in [Makers -> Saving]
  BY TypesOf DEF IInv
<1>3. \A i \in Ids : Beside(i)
  BY DEF Beside
<1> QED
  BY <1>1, <1>2, <1>3, GalleryStep

(* One save goes a step further.                                           *)
LEMMA SaveStep ==
  ASSUME IInv, NEW m \in Makers, NEW x \in Saving,
         maker' = [maker EXCEPT ![m] = x],
         x.at \in {"tag", "collect", "enqueue"} => x.id \in Ids
  PROVE  maker' \in [Makers -> Saving] /\ \A n \in Makers : Named(n)'
<1>1. maker \in [Makers -> Saving]
  BY TypesOf DEF IInv
<1> QED
  BY <1>1 DEF IInv, Named

(* Files are numbered on.                                                  *)
LEMMA NextImage ==
  ASSUME LibraryAssumption, IInv, made < MaxImages
  PROVE  made + 1 \in Images /\ made + 1 \in 0 .. MaxImages
BY TypesOf DEF IInv, Images, LibraryAssumption

LEMMA Save ==
  ASSUME LibraryAssumption, IInv, NEW m \in Makers, SaveImage(m) \/ SaveVideo(m)
  PROVE  IInv' /\ Rises
<1>1. PICK how \in {"image", "import", "video"} :
        /\ made < MaxImages
        /\ maker' = [maker EXCEPT ![m] = [at |-> "saved", image |-> made + 1, id |-> 0, how |-> how]]
        /\ made' = made + 1 /\ files' = files \cup {made + 1}
        /\ UNCHANGED <<rows, named, ladder>>
  BY DEF SaveImage, SaveVideo
<1>2. made + 1 \in Images /\ made' \in 0 .. MaxImages
  BY <1>1, NextImage
<1>3. [at |-> "saved", image |-> made + 1, id |-> 0, how |-> how] \in Saving
  BY <1>2 DEF Saving
<1>4. maker' \in [Makers -> Saving] /\ \A n \in Makers : Named(n)'
  BY <1>1, <1>3, SaveStep
<1>5. rows' \in [Ids -> Rows] /\ files' \subseteq Images /\ named' \subseteq Names
  BY <1>1, <1>2, TypesOf DEF IInv
<1>6. \A i \in Ids : Beside(i)
  BY <1>1 DEF Beside
<1> QED
  BY <1>1, <1>2, <1>4, <1>5, <1>6, GalleryStep

LEMMA Add ==
  ASSUME LibraryAssumption, IInv, NEW m \in Makers, AddAsset(m)
  PROVE  IInv' /\ Rises
<1>1. PICK i \in Ids, hashed \in BOOLEAN :
        /\ NextId(i)
        /\ rows'  = [rows EXCEPT ![i] = [NoRow EXCEPT !.image = maker[m].image, !.hashed = hashed]]
        /\ maker' = [maker EXCEPT ![m].id = i,
                                  ![m].at = IF maker[m].how = "import" THEN "tag" ELSE "enqueue"]
  BY DEF AddAsset
<1>2. UNCHANGED <<files, made, named, ladder>>
  BY DEF AddAsset
<1> DEFINE x == [maker[m] EXCEPT !.id = i,
                                 !.at = IF maker[m].how = "import" THEN "tag" ELSE "enqueue"]
           r == [NoRow EXCEPT !.image = maker[m].image, !.hashed = hashed]
<1>3. maker \in [Makers -> Saving] /\ rows \in [Ids -> Rows]
  BY TypesOf DEF IInv
<1>4. x \in Saving /\ x.id \in Ids /\ maker[m].image \in {0} \cup Images
  BY <1>3 DEF Saving
<1>5. maker' = [maker EXCEPT ![m] = x]
  BY <1>1, <1>3
<1>6. maker' \in [Makers -> Saving] /\ \A n \in Makers : Named(n)'
  <2> HIDE DEF x
  <2> QED
    BY <1>4, <1>5, SaveStep
<1>7. r \in Rows /\ r.level = Saved
  BY <1>4, NewRowType
<1>8. rows' \in [Ids -> Rows] /\ \A j \in Ids : rows'[j] = IF j = i THEN r ELSE rows[j]
  <2> HIDE DEF r
  <2>1. rows' = [rows EXCEPT ![i] = r]
    BY <1>1 DEF r
  <2> QED
    BY <1>3, <1>7, <2>1
<1>9. rows[i].image = 0
  <2>1. i <= i
    BY DEF Ids
  <2> QED
    BY <1>1, <2>1 DEF NextId, Present
<1>10. \A j \in Ids : Beside(j)
  <2> HIDE DEF r
  <2> QED
    BY <1>7, <1>8, <1>9 DEF Beside
<1>11. files' \subseteq Images /\ made' \in 0 .. MaxImages /\ named' \subseteq Names
  BY <1>2, TypesOf DEF IInv
<1> QED
  BY <1>2, <1>6, <1>8, <1>10, <1>11, GalleryStep

(* A save that goes on keeps its row.                                      *)
LEMMA GoesOn ==
  ASSUME IInv, NEW m \in Makers, NEW p \in {"collect", "enqueue"},
         maker[m].at \in {"tag", "collect"}, Saves(m, p)
  PROVE  maker' \in [Makers -> Saving] /\ \A n \in Makers : Named(n)'
<1> DEFINE x == [maker[m] EXCEPT !.at = p]
<1>1. maker \in [Makers -> Saving] /\ maker[m].id \in Ids
  BY TypesOf DEF IInv, Named
<1>2. x \in Saving /\ x.id \in Ids
  BY <1>1 DEF Saving
<1>3. maker' = [maker EXCEPT ![m] = x]
  BY <1>1 DEF Saves
<1> HIDE DEF x
<1> QED
  BY <1>2, <1>3, SaveStep

(* One row is written, and its level with it.                              *)
LEMMA WriteRow ==
  ASSUME IInv, NEW i \in Ids, NEW r \in Rows, rows' = [rows EXCEPT ![i] = r]
  PROVE  rows' \in [Ids -> Rows] /\ \A j \in Ids : rows'[j] = IF j = i THEN r ELSE rows[j]
BY TypesOf DEF IInv

(* The fields a row can change without its level.                          *)
LEMMA SameLevel ==
  ASSUME NEW r \in Rows
  PROVE  /\ \A s \in SUBSET {"mine", "auto"} :
              [r EXCEPT !.tags = s] \in Rows /\ [r EXCEPT !.tags = s].level = r.level
         /\ \A b \in BOOLEAN :
              /\ [r EXCEPT !.trashed = b] \in Rows /\ [r EXCEPT !.trashed = b].level = r.level
              /\ [r EXCEPT !.missing = b] \in Rows /\ [r EXCEPT !.missing = b].level = r.level
              /\ [r EXCEPT !.hashed = b] \in Rows /\ [r EXCEPT !.hashed = b].level = r.level
BY RowType DEF Rows

LEMMA SameRung ==
  ASSUME IInv, NEW i \in Ids, NEW r \in Rows, r.level = rows[i].level,
         rows' = [rows EXCEPT ![i] = r]
  PROVE  rows' \in [Ids -> Rows] /\ \A j \in Ids : rows'[j].level = rows[j].level
BY WriteRow

LEMMA ImportGoesOn ==
  ASSUME IInv, NEW m \in Makers, ImportTags(m) \/ ImportCollect(m)
  PROVE  IInv' /\ Rises
<1>1. maker[m].id \in Ids /\ rows \in [Ids -> Rows] /\ named \subseteq Names
      /\ files \subseteq Images /\ made \in 0 .. MaxImages
  BY TypesOf DEF IInv, Named, ImportTags, ImportCollect
<1>2. CASE ImportTags(m)
  <2>1. maker' \in [Makers -> Saving] /\ \A n \in Makers : Named(n)'
    BY <1>2, GoesOn DEF ImportTags
  <2>2. UNCHANGED <<files, made, named, ladder>>
    BY <1>2 DEF ImportTags
  <2>3. rows' \in [Ids -> Rows] /\ \A j \in Ids : rows'[j].level = rows[j].level
    <3>1. CASE rows' = rows
      BY <1>1, <3>1
    <3>2. CASE rows' = [rows EXCEPT ![maker[m].id].tags = {"mine"}]
      <4> DEFINE r == [rows[maker[m].id] EXCEPT !.tags = {"mine"}]
      <4>1. r \in Rows /\ r.level = rows[maker[m].id].level
        BY <1>1, SameLevel
      <4>2. rows' = [rows EXCEPT ![maker[m].id] = r]
        BY <1>1, <3>2
      <4> HIDE DEF r
      <4> QED
        BY <1>1, <4>1, <4>2, SameRung
    <3> QED
      BY <1>2, <3>1, <3>2 DEF ImportTags
  <2> QED
    BY <1>1, <2>1, <2>2, <2>3, GalleryStep DEF Beside
<1>3. CASE ImportCollect(m)
  <2>1. maker' \in [Makers -> Saving] /\ \A n \in Makers : Named(n)'
    BY <1>3, GoesOn DEF ImportCollect
  <2>2. named' \subseteq Names
    BY <1>1, <1>3 DEF ImportCollect, Names
  <2>3. UNCHANGED <<rows, files, made, ladder>>
    BY <1>3 DEF ImportCollect
  <2> QED
    BY <1>1, <2>1, <2>2, <2>3, GalleryStep DEF Beside
<1> QED
  BY <1>2, <1>3

LEMMA UserEdits ==
  ASSUME IInv, NEW i \in Ids, SetTags(i) \/ Trash(i) \/ Restore(i)
  PROVE  IInv' /\ Rises
<1>1. rows \in [Ids -> Rows] /\ files \subseteq Images /\ rows[i] \in Rows
  BY TypesOf DEF IInv
<1>2. PICK r \in Rows : rows' = [rows EXCEPT ![i] = r] /\ r.level = rows[i].level
  <2>1. CASE SetTags(i)
    <3>1. PICK tags \in {{}, {"mine"}} : rows' = [rows EXCEPT ![i].tags = tags]
      BY <2>1 DEF SetTags
    <3>2. rows' = [rows EXCEPT ![i] = [rows[i] EXCEPT !.tags = tags]]
      BY <1>1, <3>1
    <3>3. tags \in SUBSET {"mine", "auto"}
      BY <3>1
    <3> DEFINE r == [rows[i] EXCEPT !.tags = tags]
    <3>4. r \in Rows /\ r.level = rows[i].level
      BY <1>1, <3>3, SameLevel
    <3> HIDE DEF r
    <3> QED
      BY <3>2, <3>4 DEF r
  <2>2. ASSUME NEW b \in BOOLEAN, rows' = [rows EXCEPT ![i].trashed = b]
        PROVE  \E r \in Rows : rows' = [rows EXCEPT ![i] = r] /\ r.level = rows[i].level
    <3> DEFINE r == [rows[i] EXCEPT !.trashed = b]
    <3>1. rows' = [rows EXCEPT ![i] = r]
      BY <1>1, <2>2
    <3>2. r \in Rows /\ r.level = rows[i].level
      BY <1>1, <2>2, SameLevel
    <3> HIDE DEF r
    <3> QED
      BY <3>1, <3>2
  <2> QED
    BY <2>1, <2>2 DEF Trash, Restore
<1>3. rows' \in [Ids -> Rows] /\ \A j \in Ids : rows'[j].level = rows[j].level
  BY <1>2, SameRung
<1>4. UNCHANGED <<files, made, named, maker, ladder>>
  BY DEF SetTags, Trash, Restore
<1> QED
  BY <1>1, <1>3, <1>4, RowsOnly DEF Beside

LEMMA NamesChange ==
  ASSUME IInv, NEW i \in Ids, Collect(i) \/ Uncollect(i) \/ SetPreview(i)
  PROVE  IInv' /\ Rises
<1>1. named \subseteq Names
  BY TypesOf DEF IInv
<1>2. named' \subseteq Names
  BY <1>1 DEF Collect, Uncollect, SetPreview, Names
<1>3. UNCHANGED <<rows, files, made, maker, ladder>>
  BY DEF Collect, Uncollect, SetPreview
<1> QED
  BY <1>2, <1>3, NamesOnly

(* Rows that go leave none behind.                                         *)
LEMMA RowsGo ==
  ASSUME IInv, NEW S \in SUBSET Ids, UNCHANGED <<made, named, maker, ladder>>,
         files' \subseteq files,
         rows' = [i \in Ids |-> IF i \in S THEN NoRow ELSE rows[i]]
  PROVE  IInv' /\ Rises
<1>1. rows \in [Ids -> Rows] /\ files' \subseteq Images
  BY TypesOf DEF IInv
<1>2. \A i \in Ids : rows'[i] = IF i \in S THEN NoRow ELSE rows[i]
  OBVIOUS
<1>3. rows' \in [Ids -> Rows]
  BY <1>1, NewRowType
<1>4. \A i \in Ids : Beside(i)
  BY <1>2, NewRowType DEF Beside
<1> QED
  BY <1>1, <1>3, <1>4, RowsOnly

LEMMA Emptied ==
  ASSUME IInv, ClearAll \/ \E S \in {Ids} \cup {{i} : i \in Ids} : Purge(S)
  PROVE  IInv' /\ Rises
<1>1. CASE ClearAll
  BY <1>1, RowsGo DEF ClearAll
<1>2. ASSUME NEW S \in {Ids} \cup {{i} : i \in Ids}, Purge(S)
      PROVE  IInv' /\ Rises
  <2> DEFINE doomed == {i \in S : Present(i) /\ rows[i].trashed}
  <2>1. doomed \in SUBSET Ids
    BY <1>2
  <2>2. /\ rows' = [i \in Ids |-> IF i \in doomed THEN NoRow ELSE rows[i]]
        /\ files' = files \ {rows[i].image : i \in doomed}
        /\ UNCHANGED <<made, named, maker, ladder>>
    BY <1>2 DEF Purge
  <2> HIDE DEF doomed
  <2> QED
    BY <2>1, <2>2, RowsGo
<1> QED
  BY <1>1, <1>2

-----------------------------------------------------------------------------
(* What is put on the queue.                                               *)

LEMMA QueueStep ==
  ASSUME LibraryAssumption, IInv, UNCHANGED <<rows, files, made, named>>,
         queue' \in Seq(Ids), Len(queue') <= MaxQueue, Start,
         maker' \in [Makers -> Saving], \A m \in Makers : Named(m)'
  PROVE  IInv' /\ Rises
<1>1. /\ worker' \in [Workers -> Turns] /\ OneThread'
      /\ \A w \in Workers : worker'[w] = worker[w] \/ worker'[w].at = "idle"
  BY StartOne
<1>2. /\ rows' \in [Ids -> Rows] /\ files' \subseteq Images /\ made' \in 0 .. MaxImages
      /\ named' \subseteq Names
  BY TypesOf DEF IInv
<1>3. TypeOK'
  BY <1>1, <1>2, TypesNow
<1>4. \A i \in Ids : rows'[i].level \in Nat /\ rows'[i].level <= rows[i].level
  BY TypesOf, Rungs DEF IInv
<1>5. ASSUME NEW w \in Workers PROVE Knows(w)'
  BY <1>1, <1>4, <1>5, StillKnows
<1>6. Rises
  BY <1>4 DEF Rises
<1> QED
  BY <1>1, <1>3, <1>5, <1>6 DEF IInv

LEMMA Enqueued ==
  ASSUME LibraryAssumption, IInv, NEW m \in Makers, Enrich(m)
  PROVE  IInv' /\ Rises
<1>1. maker[m].id \in Ids
  BY DEF Enrich, IInv, Named
<1>2. queue \in Seq(Ids) /\ maker \in [Makers -> Saving]
  BY TypesOf DEF IInv
<1>3. queue' \in Seq(Ids) /\ Len(queue') <= MaxQueue
  BY <1>1, <1>2 DEF Enrich, Enqueue, LibraryAssumption
<1>4. maker' \in [Makers -> Saving] /\ \A n \in Makers : Named(n)'
  <2>1. NoSave \in Saving /\ NoSave.at = "idle"
    BY DEF NoSave, Saving
  <2> QED
    BY <2>1, SaveStep DEF Enrich
<1> QED
  BY <1>3, <1>4, QueueStep DEF Enrich, Enqueue

LEMMA AllEnqueued ==
  ASSUME LibraryAssumption, IInv, EnrichAll \/ Backfill
  PROVE  IInv' /\ Rises
<1>1. PICK S \in SUBSET Ids : EnqueueAll(S)
  BY DEF EnrichAll, Backfill
<1>2. UNCHANGED gallery
  BY DEF EnrichAll, Backfill
<1>3. maker' \in [Makers -> Saving] /\ \A n \in Makers : Named(n)'
  BY <1>2, TypesOf DEF IInv, Named, gallery
<1>4. CASE S = {}
  <2>1. UNCHANGED ladder
    BY <1>1, <1>4 DEF EnqueueAll
  <2> QED
    BY <1>2, <2>1, TypesOf, RowsOnly DEF IInv, gallery, Beside
<1>5. CASE S # {}
  <2>1. PICK s \in InOrder(S) : queue' = queue \o s
    BY <1>1, <1>5 DEF EnqueueAll
  <2>2. Len(queue) + Cardinality(S) <= MaxQueue /\ Start
    BY <1>1, <1>5 DEF EnqueueAll
  <2>3. s \in Seq(Ids) /\ Len(s) = Cardinality(S) /\ Cardinality(S) \in Nat
    BY InOrderType
  <2>4. queue \in Seq(Ids)
    BY TypesOf DEF IInv
  <2>5. queue' \in Seq(Ids) /\ Len(queue') <= MaxQueue
    <3>1. queue' \in Seq(Ids) /\ Len(queue') = Len(queue) + Len(s)
      BY <2>1, <2>3, <2>4, ConcatProperties
    <3> QED
      BY <2>2, <2>3, <3>1
  <2> QED
    BY <1>2, <1>3, <2>2, <2>5, QueueStep DEF gallery
<1> QED
  BY <1>4, <1>5

(* A server that stops leaves the gallery as it is.                        *)
LEMMA Stopped ==
  ASSUME LibraryAssumption, IInv, Stop
  PROVE  IInv' /\ Rises
<1>1. NoSave \in Saving /\ NoSave.at = "idle" /\ NoWork.at = "none"
  BY DEF NoSave, Saving, NoWork
<1>2. worker' = [w \in Workers |-> NoWork] /\ maker' = [m \in Makers |-> NoSave]
      /\ queue' = <<>> /\ UNCHANGED <<rows, files, made, named>>
  BY DEF Stop
<1>3. TypeOK'
  <2>1. worker' \in [Workers -> Turns] /\ maker' \in [Makers -> Saving]
    BY <1>1, <1>2, TurnType
  <2>2. queue' \in Seq(Ids) /\ Len(queue') <= MaxQueue
    BY <1>2 DEF LibraryAssumption
  <2>3. /\ rows' \in [Ids -> Rows] /\ files' \subseteq Images /\ made' \in 0 .. MaxImages
        /\ named' \subseteq Names
    BY <1>2, TypesOf DEF IInv
  <2> QED
    BY <2>1, <2>2, <2>3, TypesNow
<1>4. \A w \in Workers : worker'[w].at = "none"
  BY <1>1, <1>2
<1>5. \A m \in Makers : maker'[m].at = "idle"
  BY <1>1, <1>2
<1>6. \A i \in Ids : rows[i].level \in 0 .. 3
  BY TypesOf, Rungs DEF IInv
<1>7. Rises
  BY <1>2, <1>6 DEF Rises
<1> QED
  BY <1>3, <1>4, <1>5, <1>7 DEF IInv, OneThread, Knows, Named

-----------------------------------------------------------------------------
(* What the enrichment thread does.                                        *)

(* It is the only one.                                                     *)
LEMMA WorkerStep ==
  ASSUME IInv, NEW w \in Workers, worker[w].at # "none", NEW x \in Turns,
         worker' = [worker EXCEPT ![w] = x],
         UNCHANGED <<files, made, named, maker, started>>,
         rows' \in [Ids -> Rows], queue' \in Seq(Ids), Len(queue') <= MaxQueue,
         Knows(w)'
  PROVE  IInv'
<1>1. worker \in [Workers -> Turns]
  BY TypesOf DEF IInv
<1>2. worker' \in [Workers -> Turns] /\ \A v \in Workers : worker'[v] = IF v = w THEN x ELSE worker[v]
  BY <1>1
<1>3. started /\ \A v \in Workers \ {w} : worker[v].at = "none"
  BY DEF IInv, OneThread
<1>4. OneThread'
  BY <1>2, <1>3 DEF OneThread
<1>5. \A v \in Workers : Knows(v)'
  BY <1>2, <1>3 DEF Knows
<1>6. \A m \in Makers : Named(m)'
  BY DEF IInv, Named
<1>7. TypeOK'
  <2>1. files' \subseteq Images /\ made' \in 0 .. MaxImages /\ named' \subseteq Names
        /\ maker' \in [Makers -> Saving]
    BY TypesOf DEF IInv
  <2> QED
    BY <1>2, <2>1, TypesNow
<1> QED
  BY <1>4, <1>5, <1>6, <1>7 DEF IInv

(* A step that reads.                                                      *)
LEMMA Reads ==
  ASSUME IInv, NEW w \in Workers, worker[w].at # "none", NEW x \in Turns,
         worker' = [worker EXCEPT ![w] = x], UNCHANGED <<gallery, started>>,
         queue' \in Seq(Ids), Len(queue') <= MaxQueue, Knows(w)'
  PROVE  IInv' /\ Rises
<1>1. rows' = rows /\ rows \in [Ids -> Rows] /\ \A i \in Ids : rows[i].level \in 0 .. 3
  BY TypesOf, Rungs DEF IInv, gallery
<1>2. Rises
  BY <1>1 DEF Rises
<1> QED
  BY <1>1, <1>2, WorkerStep DEF gallery

(* A turn that ends.                                                       *)
LEMMA RestStep ==
  ASSUME IInv, NEW w \in Workers, worker[w].at # "none", Rests(w),
         UNCHANGED <<files, made, named, maker, queue, started>>,
         rows' \in [Ids -> Rows]
  PROVE  IInv'
<1> DEFINE x == [NoWork EXCEPT !.at = "idle"]
<1>1. x \in Turns /\ x.at = "idle" /\ worker' = [worker EXCEPT ![w] = x]
  BY TurnType DEF Rests, NoWork
<1>2. worker \in [Workers -> Turns] /\ queue' \in Seq(Ids) /\ Len(queue') <= MaxQueue
  BY TypesOf DEF IInv
<1> HIDE DEF x
<1>3. worker'[w] = x
  BY <1>1, <1>2
<1>4. Knows(w)'
  BY <1>1, <1>3 DEF Knows
<1> QED
  BY <1>1, <1>2, <1>4, WorkerStep

LEMMA Rest ==
  ASSUME IInv, NEW w \in Workers, worker[w].at # "none", Rests(w),
         UNCHANGED <<gallery, queue, started>>
  PROVE  IInv' /\ Rises
<1>1. rows' = rows /\ rows \in [Ids -> Rows] /\ \A i \in Ids : rows[i].level \in 0 .. 3
  BY TypesOf, Rungs DEF IInv, gallery
<1>2. Rises
  BY <1>1 DEF Rises
<1> QED
  BY <1>1, <1>2, RestStep DEF gallery

(* A step that goes on to the next place.                                  *)
LEMMA WorksType ==
  ASSUME IInv, NEW w \in Workers, NEW p \in Places, Works(w, p)
  PROVE  \E x \in Turns : /\ worker' = [worker EXCEPT ![w] = x] /\ worker'[w] = x
                          /\ x.at = p /\ x.id = worker[w].id /\ x.level = worker[w].level
                          /\ x.image = worker[w].image /\ x.tags = worker[w].tags
<1> DEFINE x == [worker[w] EXCEPT !.at = p]
<1>1. worker \in [Workers -> Turns] /\ worker[w] \in Turns
  BY TypesOf DEF IInv
<1>2. x \in Turns /\ x.at = p /\ x.id = worker[w].id /\ x.level = worker[w].level
      /\ x.image = worker[w].image /\ x.tags = worker[w].tags
  BY <1>1 DEF Turns
<1>3. worker' = [worker EXCEPT ![w] = x]
  BY <1>1 DEF Works
<1> HIDE DEF x
<1>4. worker'[w] = x
  BY <1>1, <1>3
<1> QED
  BY <1>2, <1>3, <1>4

LEMMA Taken ==
  ASSUME LibraryAssumption, IInv, NEW w \in Workers, Take(w)
  PROVE  IInv' /\ Rises
<1> DEFINE x == [NoWork EXCEPT !.at = "read", !.id = Head(queue)]
<1>1. queue \in Seq(Ids) /\ queue # <<>> /\ Len(queue) <= MaxQueue /\ MaxQueue \in Nat
      /\ worker \in [Workers -> Turns]
  BY TypesOf DEF IInv, Take, LibraryAssumption
<1>2. Head(queue) \in Ids /\ queue' \in Seq(Ids) /\ Len(queue') = Len(queue) - 1
  BY <1>1, HeadTailProperties DEF Take
<1>3. Len(queue) \in Nat
  BY <1>1
<1>4. x \in Turns /\ x.at = "read" /\ x.id \in Ids
  BY <1>2, TurnType DEF NoWork
<1>5. worker' = [worker EXCEPT ![w] = x] /\ worker[w].at = "idle" /\ UNCHANGED <<gallery, started>>
  BY DEF Take
<1> HIDE DEF x
<1>6. worker'[w] = x
  BY <1>1, <1>5
<1>7. Knows(w)'
  BY <1>4, <1>6 DEF Knows
<1>8. Len(queue') <= MaxQueue
  BY <1>1, <1>2, <1>3
<1> QED
  BY <1>2, <1>4, <1>5, <1>7, <1>8, Reads

(* What there is while the thread has a row.                               *)
LEMMA AtWork ==
  ASSUME IInv, NEW w \in Workers, worker[w].at \notin {"none", "idle"}
  PROVE  /\ worker \in [Workers -> Turns] /\ worker[w] \in Turns /\ worker[w].id \in Ids
         /\ rows \in [Ids -> Rows] /\ rows[worker[w].id] \in Rows
         /\ rows[worker[w].id].level \in 0 .. 3 /\ worker[w].level \in 0 .. 3
         /\ worker[w].tags \in SUBSET {"mine", "auto"} /\ worker[w].image \in {0} \cup Images
         /\ queue \in Seq(Ids) /\ Len(queue) <= MaxQueue
<1>1. /\ worker \in [Workers -> Turns] /\ worker[w] \in Turns /\ worker[w].id \in Ids
      /\ rows \in [Ids -> Rows] /\ queue \in Seq(Ids) /\ Len(queue) <= MaxQueue
  BY TypesOf DEF IInv, Knows
<1>2. rows[worker[w].id] \in Rows
  BY <1>1
<1>3. worker[w].tags \in SUBSET {"mine", "auto"} /\ worker[w].image \in {0} \cup Images
  BY <1>1 DEF Turns
<1> QED
  BY <1>1, <1>2, <1>3, Rungs

(* The thread moves on without a row it knows less of.                     *)
LEMMA OnlyMoves ==
  ASSUME IInv, NEW w \in Workers, NEW p \in Places,
         worker[w].at \notin {"none", "idle"}, Works(w, p),
         UNCHANGED <<gallery, queue, started>>,
         \/ p \notin {"captioned", "tagged"}
            /\ worker[w].at \in {"hash", "open", "caption", "captioned", "keywords", "tagged"}
         \/ p \in {"embed", "emit"}
  PROVE  IInv' /\ Rises
<1>1. PICK x \in Turns : /\ worker' = [worker EXCEPT ![w] = x] /\ worker'[w] = x
                         /\ x.at = p /\ x.id = worker[w].id /\ x.level = worker[w].level
  BY WorksType
<1>2. rows' = rows /\ Knows(w) /\ worker[w].id \in Ids /\ queue \in Seq(Ids) /\ Len(queue) <= MaxQueue
  BY AtWork DEF IInv, gallery
<1>3. Knows(w)'
  BY <1>1, <1>2 DEF Knows
<1> QED
  BY <1>1, <1>2, <1>3, Reads

(* The thread writes its row and moves on: the level it writes is at least *)
(* the row's, and what it knows afterwards covers what it wrote.           *)
LEMMA Writes ==
  ASSUME IInv, NEW w \in Workers, NEW p \in Places \ {"captioned", "tagged"},
         worker[w].at \notin {"none", "idle"}, Works(w, p), NEW r \in Rows,
         rows' = [rows EXCEPT ![worker[w].id] = r],
         r.level >= rows[worker[w].id].level,
         p \in {"hash", "open", "caption", "keywords"} => r.level <= worker[w].level,
         UNCHANGED <<files, made, named, maker, queue, started>>
  PROVE  IInv' /\ Rises
<1>1. PICK x \in Turns : /\ worker' = [worker EXCEPT ![w] = x] /\ worker'[w] = x
                         /\ x.at = p /\ x.id = worker[w].id /\ x.level = worker[w].level
  BY WorksType
<1>2. worker[w].id \in Ids /\ rows \in [Ids -> Rows] /\ queue \in Seq(Ids) /\ Len(queue) <= MaxQueue
      /\ \A i \in Ids : rows[i].level \in 0 .. 3
  BY AtWork, Rungs
<1>3. rows' \in [Ids -> Rows] /\ \A j \in Ids : rows'[j] = IF j = worker[w].id THEN r ELSE rows[j]
  BY <1>2, WriteRow
<1>4. r.level \in 0 .. 3
  BY Rungs
<1>5. Rises
  BY <1>2, <1>3, <1>4 DEF Rises
<1>6. Knows(w)'
  BY <1>1, <1>2, <1>3 DEF Knows
<1> QED
  BY <1>1, <1>2, <1>3, <1>5, <1>6, WorkerStep

LEMMA ReadRow ==
  ASSUME IInv, NEW w \in Workers, Read(w)
  PROVE  IInv' /\ Rises
<1> DEFINE i == worker[w].id
           x == [[[worker[w] EXCEPT !.at = IF rows[i].hashed THEN "open" ELSE "hash"]
                    EXCEPT !.image = rows[i].image] EXCEPT !.level = rows[i].level]
<1>1. /\ worker[w].at = "read" /\ UNCHANGED <<files, made, named, maker, queue, started>>
  BY DEF Read
<1>2. worker \in [Workers -> Turns] /\ worker[w] \in Turns /\ i \in Ids
      /\ rows \in [Ids -> Rows] /\ rows[i] \in Rows /\ queue \in Seq(Ids) /\ Len(queue) <= MaxQueue
  BY <1>1, AtWork
<1>3. CASE Rests(w) /\ UNCHANGED rows
  BY <1>1, <1>3, Rest DEF gallery
<1>4. CASE Rests(w) /\ rows' = [rows EXCEPT ![i].missing = TRUE]
  <2> DEFINE r == [rows[i] EXCEPT !.missing = TRUE]
  <2>1. r \in Rows /\ r.level = rows[i].level
    BY <1>2, SameLevel
  <2>2. rows' = [rows EXCEPT ![i] = r]
    BY <1>2, <1>4
  <2> HIDE DEF r
  <2>3. rows' \in [Ids -> Rows] /\ \A j \in Ids : rows'[j].level = rows[j].level
    BY <1>2, <2>1, <2>2, SameRung
  <2>4. Rises
    BY <1>2, <2>3, Rungs DEF Rises
  <2> QED
    BY <1>1, <1>4, <2>3, <2>4, RestStep
<1>5. CASE /\ worker' = [worker EXCEPT ![w].at = IF rows[i].hashed THEN "open" ELSE "hash",
                                       ![w].image = rows[i].image, ![w].level = rows[i].level]
           /\ UNCHANGED rows
  <2>1. x \in Turns /\ x.at \in {"open", "hash"} /\ x.id = i /\ x.level = rows[i].level
    BY <1>2 DEF Turns, Rows, Places
  <2>2. worker' = [worker EXCEPT ![w] = x]
    BY <1>2, <1>5
  <2> HIDE DEF x
  <2>3. worker'[w] = x
    BY <1>2, <2>2
  <2>4. rows[i].level \in 0 .. 3
    BY <1>2, Rungs
  <2>5. Knows(w)'
    BY <1>2, <1>5, <2>1, <2>3, <2>4 DEF Knows
  <2> QED
    BY <1>1, <1>2, <1>5, <2>1, <2>2, <2>5, Reads DEF gallery
<1> QED
  BY <1>3, <1>4, <1>5 DEF Read

LEMMA HashAttached ==
  ASSUME IInv, NEW w \in Workers, AttachHash(w)
  PROVE  IInv' /\ Rises
<1> DEFINE i == worker[w].id
<1>1. /\ worker[w].at = "hash" /\ Works(w, "open") /\ "open" \in Places
      /\ UNCHANGED <<files, made, named, maker, queue, started>>
  BY DEF AttachHash, Places
<1>2. i \in Ids /\ rows \in [Ids -> Rows] /\ rows[i] \in Rows /\ rows[i].level \in 0 .. 3
      /\ rows[i].level <= worker[w].level
  BY <1>1, AtWork DEF IInv, Knows
<1>3. PICK r \in Rows : r.level = rows[i].level /\ rows' = [rows EXCEPT ![i] = r]
  <2>1. CASE rows' = rows
    <3>1. rows' = [rows EXCEPT ![i] = rows[i]]
      BY <1>2, <2>1
    <3> QED
      BY <1>2, <3>1
  <2>2. CASE rows' = [rows EXCEPT ![i].hashed = TRUE]
    <3> DEFINE r == [rows[i] EXCEPT !.hashed = TRUE]
    <3>1. r \in Rows /\ r.level = rows[i].level
      BY <1>2, SameLevel
    <3>2. rows' = [rows EXCEPT ![i] = r]
      BY <1>2, <2>2
    <3> HIDE DEF r
    <3> QED
      BY <3>1, <3>2
  <2>3. CASE rows' = [rows EXCEPT ![i].missing = TRUE]
    <3> DEFINE r == [rows[i] EXCEPT !.missing = TRUE]
    <3>1. r \in Rows /\ r.level = rows[i].level
      BY <1>2, SameLevel
    <3>2. rows' = [rows EXCEPT ![i] = r]
      BY <1>2, <2>3
    <3> HIDE DEF r
    <3> QED
      BY <3>1, <3>2
  <2> QED
    BY <2>1, <2>2, <2>3 DEF AttachHash
<1>4. r.level >= rows[i].level
  BY <1>2, <1>3
<1> QED
  BY <1>1, <1>2, <1>3, <1>4, Writes

LEMMA Opened ==
  ASSUME IInv, NEW w \in Workers, Open(w)
  PROVE  IInv' /\ Rises
<1>1. worker[w].at = "open" /\ UNCHANGED <<gallery, queue, started>> /\ "caption" \in Places
  BY DEF Open, Places
<1>2. CASE Works(w, "caption")
  BY <1>1, <1>2, OnlyMoves
<1>3. CASE Rests(w)
  BY <1>1, <1>3, Rest
<1> QED
  BY <1>2, <1>3 DEF Open

(* The thread notes the level it is about to write.                        *)
LEMMA Notes ==
  ASSUME IInv, NEW w \in Workers, NEW x \in Turns,
         worker[w].at \notin {"none", "idle"}, worker' = [worker EXCEPT ![w] = x],
         UNCHANGED <<gallery, queue, started>>, x.id = worker[w].id,
         rows[worker[w].id].level <= x.level,
         x.at = "captioned" => x.level = Captioned, x.at = "tagged" => x.level = Tagged
  PROVE  IInv' /\ Rises
<1>1. worker \in [Workers -> Turns] /\ worker[w].id \in Ids /\ queue \in Seq(Ids) /\ Len(queue) <= MaxQueue
  BY AtWork
<1>2. worker'[w] = x
  BY <1>1
<1>3. Knows(w)'
  BY <1>1, <1>2 DEF Knows, gallery
<1> QED
  BY <1>1, <1>3, Reads

LEMMA CaptionMade ==
  ASSUME IInv, NEW w \in Workers, Caption(w)
  PROVE  IInv' /\ Rises
<1> DEFINE i == worker[w].id
<1>1. worker[w].at = "caption" /\ UNCHANGED <<gallery, queue, started>> /\ "keywords" \in Places
      /\ "captioned" \in Places
  BY DEF Caption, Places
<1>2. /\ worker \in [Workers -> Turns] /\ worker[w] \in Turns /\ i \in Ids
      /\ rows[i] \in Rows /\ rows[i].level \in 0 .. 3 /\ worker[w].level \in 0 .. 3
      /\ rows[i].level <= worker[w].level
  BY <1>1, AtWork DEF IInv, Knows
<1>3. Captioned \in Saved .. Embedded /\ Captioned = 1
  BY Rungs
<1>4. CASE Works(w, "keywords")
  BY <1>1, <1>4, OnlyMoves
<1>5. CASE /\ worker[w].level < Captioned
           /\ worker' = [worker EXCEPT ![w].at = "captioned", ![w].level = Captioned,
                                       ![w].tags = rows[i].tags]
  <2> DEFINE x == [worker[w] EXCEPT !.at = "captioned", !.level = Captioned, !.tags = rows[i].tags]
  <2>1. rows[i].tags \in SUBSET {"mine", "auto"}
    BY <1>2 DEF Rows
  <2>2. x \in Turns
    BY <1>1, <1>2, <1>3, <2>1, TurnKeeps
  <2>3. x.at = "captioned" /\ x.level = Captioned /\ x.id = i
    BY <1>2 DEF Turns
  <2>4. worker' = [worker EXCEPT ![w] = x]
    BY <1>2, <1>5
  <2> HIDE DEF x
  <2>5. rows[i].level <= x.level
    BY <1>2, <1>3, <1>5, <2>3
  <2>6. (x.at = "captioned" => x.level = Captioned) /\ (x.at = "tagged" => x.level = Tagged)
    BY <2>3
  <2>7. worker[w].at \notin {"none", "idle"}
    BY <1>1
  <2> QED
    BY <1>1, <2>2, <2>3, <2>4, <2>5, <2>6, <2>7, Notes
<1>6. CASE /\ worker[w].level < Captioned
           /\ worker' = [worker EXCEPT ![w].at = "keywords", ![w].level = Captioned]
  <2> DEFINE x == [worker[w] EXCEPT !.at = "keywords", !.level = Captioned]
  <2>1. x \in Turns
    BY <1>1, <1>2, <1>3, TurnKeeps
  <2>2. x.at = "keywords" /\ x.level = Captioned /\ x.id = i
    BY <1>2 DEF Turns
  <2>3. worker' = [worker EXCEPT ![w] = x]
    BY <1>2, <1>6
  <2> HIDE DEF x
  <2>4. rows[i].level <= x.level
    BY <1>2, <1>3, <1>6, <2>2
  <2>5. (x.at = "captioned" => x.level = Captioned) /\ (x.at = "tagged" => x.level = Tagged)
    BY <2>2
  <2>6. worker[w].at \notin {"none", "idle"}
    BY <1>1
  <2> QED
    BY <1>1, <2>1, <2>2, <2>3, <2>4, <2>5, <2>6, Notes
<1> QED
  BY <1>2, <1>3, <1>4, <1>5, <1>6 DEF Caption

LEMMA CaptionWritten ==
  ASSUME IInv, NEW w \in Workers, WriteCaption(w)
  PROVE  IInv' /\ Rises
<1> DEFINE i == worker[w].id
           r == [rows[i] EXCEPT !.caption = worker[w].image, !.level = Captioned,
                                !.tags = worker[w].tags]
<1>1. /\ worker[w].at = "captioned" /\ Works(w, "keywords")
      /\ "keywords" \in Places \ {"captioned", "tagged"}
      /\ UNCHANGED <<files, made, named, maker, queue, started>>
  BY DEF WriteCaption, Places
<1>2. /\ i \in Ids /\ rows \in [Ids -> Rows] /\ rows[i] \in Rows /\ rows[i].level \in 0 .. 3
      /\ rows[i].level <= worker[w].level /\ worker[w].level = Captioned
      /\ worker[w].tags \in SUBSET {"mine", "auto"} /\ worker[w].image \in {0} \cup Images
  BY <1>1, AtWork DEF IInv, Knows
<1>3. CASE UNCHANGED rows
  BY <1>1, <1>2, <1>3, OnlyMoves DEF gallery
<1>4. CASE rows' = [rows EXCEPT ![i].caption = worker[w].image, ![i].level = Captioned,
                                ![i].tags = worker[w].tags]
  <2>1. Captioned \in Saved .. Embedded /\ Captioned = 1
    BY Rungs
  <2>2. r \in Rows
    BY <1>2, <2>1, RowType
  <2>3. r.level = Captioned
    BY <1>2 DEF Rows
  <2>4. rows' = [rows EXCEPT ![i] = r]
    BY <1>2, <1>4
  <2> HIDE DEF r
  <2>5. /\ r.level >= rows[i].level /\ r.level <= worker[w].level
        /\ worker[w].at \notin {"none", "idle"}
    BY <1>1, <1>2, <2>1, <2>3
  <2> QED
    BY <1>1, <1>2, <2>2, <2>3, <2>4, <2>5, Writes
<1> QED
  BY <1>3, <1>4 DEF WriteCaption

LEMMA KeywordsMade ==
  ASSUME IInv, NEW w \in Workers, Keywords(w)
  PROVE  IInv' /\ Rises
<1> DEFINE i == worker[w].id
           s == rows[i].tags \cup {"auto"}
<1>1. worker[w].at = "keywords" /\ UNCHANGED <<gallery, queue, started>> /\ "embed" \in Places
      /\ "tagged" \in Places
  BY DEF Keywords, Places
<1>2. /\ worker \in [Workers -> Turns] /\ worker[w] \in Turns /\ i \in Ids
      /\ rows[i] \in Rows /\ rows[i].level \in 0 .. 3 /\ worker[w].level \in 0 .. 3
      /\ rows[i].level <= worker[w].level
  BY <1>1, AtWork DEF IInv, Knows
<1>3. Tagged \in Saved .. Embedded /\ Tagged = 2
  BY Rungs
<1>4. CASE worker' = [worker EXCEPT ![w].at = "embed"]
  BY <1>1, <1>4, OnlyMoves DEF Works
<1>5. CASE /\ worker[w].level < Tagged
           /\ worker' = [worker EXCEPT ![w].at = "tagged", ![w].level = Tagged, ![w].tags = s]
  <2> DEFINE x == [worker[w] EXCEPT !.at = "tagged", !.level = Tagged, !.tags = s]
  <2>1. s \in SUBSET {"mine", "auto"}
    BY <1>2 DEF Rows
  <2> HIDE DEF s
  <2>2. x \in Turns
    BY <1>1, <1>2, <1>3, <2>1, TurnKeeps
  <2>3. x.at = "tagged" /\ x.level = Tagged /\ x.id = i
    BY <1>2 DEF Turns
  <2>4. worker' = [worker EXCEPT ![w] = x]
    BY <1>2, <1>5
  <2> HIDE DEF x
  <2>5. rows[i].level <= x.level
    BY <1>2, <1>3, <1>5, <2>3
  <2>6. (x.at = "captioned" => x.level = Captioned) /\ (x.at = "tagged" => x.level = Tagged)
    BY <2>3
  <2>7. worker[w].at \notin {"none", "idle"}
    BY <1>1
  <2> QED
    BY <1>1, <2>2, <2>3, <2>4, <2>5, <2>6, <2>7, Notes
<1> QED
  BY <1>4, <1>5 DEF Keywords

LEMMA KeywordsWritten ==
  ASSUME IInv, NEW w \in Workers, WriteKeywords(w)
  PROVE  IInv' /\ Rises
<1> DEFINE i == worker[w].id
           r == [rows[i] EXCEPT !.tags = worker[w].tags, !.level = Tagged]
<1>1. /\ worker[w].at = "tagged" /\ Works(w, "embed") /\ "embed" \in Places \ {"captioned", "tagged"}
      /\ UNCHANGED <<files, made, named, maker, queue, started>>
  BY DEF WriteKeywords, Places
<1>2. /\ i \in Ids /\ rows \in [Ids -> Rows] /\ rows[i] \in Rows /\ rows[i].level \in 0 .. 3
      /\ rows[i].level <= worker[w].level /\ worker[w].level = Tagged
      /\ worker[w].tags \in SUBSET {"mine", "auto"}
  BY <1>1, AtWork DEF IInv, Knows
<1>3. CASE UNCHANGED rows
  BY <1>1, <1>2, <1>3, OnlyMoves DEF gallery
<1>4. CASE rows' = [rows EXCEPT ![i].tags = worker[w].tags, ![i].level = Tagged]
  <2>1. Tagged \in Saved .. Embedded /\ Tagged = 2
    BY Rungs
  <2>2. r \in Rows
    BY <1>2, <2>1, RowType
  <2>3. r.level = Tagged
    BY <1>2 DEF Rows
  <2>4. rows' = [rows EXCEPT ![i] = r]
    BY <1>2, <1>4
  <2> HIDE DEF r
  <2>5. r.level >= rows[i].level /\ worker[w].at \notin {"none", "idle"}
    BY <1>1, <1>2, <2>1, <2>3
  <2> QED
    BY <1>1, <1>2, <2>2, <2>3, <2>4, <2>5, Writes
<1> QED
  BY <1>3, <1>4 DEF WriteKeywords

LEMMA Embedding ==
  ASSUME IInv, NEW w \in Workers, Embed(w)
  PROVE  IInv' /\ Rises
<1> DEFINE i == worker[w].id
           r == [rows[i] EXCEPT !.level = Embedded]
<1>1. /\ worker[w].at = "embed" /\ Works(w, "emit") /\ "emit" \in Places \ {"captioned", "tagged"}
      /\ UNCHANGED <<files, made, named, maker, queue, started>>
  BY DEF Embed, Places
<1>2. i \in Ids /\ rows \in [Ids -> Rows] /\ rows[i] \in Rows /\ rows[i].level \in 0 .. 3
  BY <1>1, AtWork
<1>3. CASE UNCHANGED rows
  BY <1>1, <1>2, <1>3, OnlyMoves DEF gallery
<1>4. CASE rows' = [rows EXCEPT ![i].level = Embedded]
  <2>1. Embedded \in Saved .. Embedded /\ Embedded = 3
    BY Rungs
  <2>2. r \in Rows
    BY <1>2, <2>1, RowType
  <2>3. r.level = Embedded
    BY <1>2 DEF Rows
  <2>4. rows' = [rows EXCEPT ![i] = r]
    BY <1>2, <1>4
  <2> HIDE DEF r
  <2>5. r.level >= rows[i].level /\ worker[w].at \notin {"none", "idle"}
    BY <1>1, <1>2, <2>1, <2>3
  <2> QED
    BY <1>1, <1>2, <2>2, <2>3, <2>4, <2>5, Writes
<1> QED
  BY <1>3, <1>4 DEF Embed

LEMMA Emitted ==
  ASSUME IInv, NEW w \in Workers, Emit(w)
  PROVE  IInv' /\ Rises
BY Rest DEF Emit

-----------------------------------------------------------------------------
(* The theorems.                                                           *)

LEMMA InitHolds ==
  ASSUME LibraryAssumption, Init
  PROVE  IInv
<1>1. 1 \in Images /\ Ids = Images
  BY DEF Ids, Images, LibraryAssumption
<1>2. PICK lv \in {Saved, Tagged} :
        rows = [i \in Ids |-> IF i = 1 THEN [NoRow EXCEPT !.image = 1, !.level = lv,
                                                !.caption = IF lv = Tagged THEN 1 ELSE 0]
                                       ELSE NoRow]
  BY DEF Init
<1> DEFINE r == [NoRow EXCEPT !.image = 1, !.level = lv, !.caption = IF lv = Tagged THEN 1 ELSE 0]
<1>3. r \in Rows
  <2>1. lv \in Saved .. Embedded
    BY Rungs
  <2> QED
    BY <1>1, <2>1, NewRowType DEF Rows
<1>4. rows \in [Ids -> Rows]
  <2> HIDE DEF r
  <2>1. rows = [i \in Ids |-> IF i = 1 THEN r ELSE NoRow]
    BY <1>2 DEF r
  <2> QED
    BY <1>3, <2>1, NewRowType
<1>5. NoSave \in Saving /\ NoSave.at = "idle" /\ NoWork.at = "none" /\ NoWork \in Turns
  BY TurnType DEF NoSave, Saving, NoWork
<1>6. /\ files = {1} /\ made = 1 /\ named = {} /\ queue = <<>>
      /\ maker = [m \in Makers |-> NoSave] /\ worker = [w \in Workers |-> NoWork]
  BY DEF Init
<1>7. TypeOK
  <2>1. maker \in [Makers -> Saving] /\ worker \in [Workers -> Turns]
    BY <1>5, <1>6
  <2>2. made \in 0 .. MaxImages /\ queue \in Seq(Ids) /\ Len(queue) <= MaxQueue
        /\ files \subseteq Images /\ named \subseteq Names
    BY <1>1, <1>6 DEF LibraryAssumption
  <2> QED
    BY <1>4, <2>1, <2>2, TypesOf
<1> QED
  BY <1>5, <1>6, <1>7 DEF IInv, OneThread, Knows, Named

LEMMA StepHolds ==
  ASSUME LibraryAssumption, IInv, [Next]_vars
  PROVE  IInv' /\ [Rises]_vars
<1>1. CASE UNCHANGED vars
  BY <1>1 DEF vars, gallery, ladder, IInv, TypeOK, OneThread, Knows, Named
<1>2. ASSUME NEW m \in Makers, SaveImage(m) \/ SaveVideo(m) \/ AddAsset(m) \/ ImportTags(m)
                                 \/ ImportCollect(m) \/ Enrich(m)
      PROVE  IInv' /\ Rises
  BY <1>2, Save, Add, ImportGoesOn, Enqueued
<1>3. ASSUME NEW i \in Ids, SetTags(i) \/ Trash(i) \/ Restore(i) \/ Collect(i) \/ Uncollect(i)
                              \/ SetPreview(i)
      PROVE  IInv' /\ Rises
  BY <1>3, UserEdits, NamesChange
<1>4. CASE \E S \in {Ids} \cup {{i} : i \in Ids} : Purge(S)
  BY <1>4, Emptied
<1>5. CASE EnrichAll \/ ClearAll \/ Stop \/ Backfill
  BY <1>5, AllEnqueued, Emptied, Stopped
<1>6. ASSUME NEW w \in Workers, Take(w) \/ Read(w) \/ AttachHash(w) \/ Open(w) \/ Caption(w)
                \/ WriteCaption(w) \/ Keywords(w) \/ WriteKeywords(w) \/ Embed(w) \/ Emit(w)
      PROVE  IInv' /\ Rises
  BY <1>6, Taken, ReadRow, HashAttached, Opened, CaptionMade, CaptionWritten, KeywordsMade,
     KeywordsWritten, Embedding, Emitted
<1> QED
  BY <1>1, <1>2, <1>3, <1>4, <1>5, <1>6 DEF Next

(* There is one enrichment thread, whatever is saved, enqueued and         *)
(* restarted meanwhile (enrichment.py start under _START_LOCK), and it     *)
(* never knows less of its row than the row has.                           *)
THEOREM Invariant == ASSUME LibraryAssumption PROVE Spec => []IInv
<1>1. Init => IInv
  BY InitHolds
<1>2. IInv /\ [Next]_vars => IInv'
  BY StepHolds
<1> QED
  BY <1>1, <1>2, PTL DEF Spec

(* Every variable keeps its type.                                          *)
THEOREM TypeCorrect == ASSUME LibraryAssumption PROVE Spec => []TypeOK
<1>1. IInv => TypeOK
  BY DEF IInv
<1> QED
  BY <1>1, Invariant, PTL

(* The ladder only rises (models.py): no write of an enrichment that read  *)
(* its row earlier takes an asset below a rung it has reached, for any     *)
(* number of savers, images, edits and restarts.                           *)
THEOREM OnlyRises == ASSUME LibraryAssumption PROVE Spec => LadderOnlyRises
<1>1. IInv /\ [Next]_vars => [Rises]_vars
  BY StepHolds
<1> QED
  BY <1>1, Invariant, PTL DEF Spec, LadderOnlyRises
=============================================================================
