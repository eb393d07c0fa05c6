---------------------------- MODULE FileEditsProofs ----------------------------
(* Theorems about FileEdits, for any number of editors, chunks, edits and       *)
(* writes.  The first is about reads that take their three looks at one content *)
(* and agents that keep away from a save: the two assumptions without which TLC *)
(* refutes the property.  The second, on clean documents, needs neither.        *)
EXTENDS FileEdits, TLAPS

Sent == [at : {"sent", "matched", "emptied", "written", "rejected"}, by : Editors,
         base : Files, text : Files]
Stale == [at : {"stale"}, by : Editors, current : Files]
Reads == [at : {"stat", "hash", "range"}, chunk : FileChunks, size : Files,
          revision : Files \cup {None}, got : Files]
Uis == {"closed", "loading", "unavailable", "clean", "dirty", "saving", "conflicted", "offline"}
EditorStates == [ui : Uis, text : Files, base : Files, theirs : Files, more : BOOLEAN]

Shapes ==
    /\ onDisk \in Files
    /\ locked \in Writes \cup {None}
    /\ write \in [Writes -> {NotSent} \cup Sent \cup Stale]
    /\ editor \in [Editors -> EditorStates]
    /\ loading \in [Editors -> {NotLoading} \cup Reads]
    /\ waits \in [Editors -> Writes \cup {None}]
    /\ edits \in 0 .. MaxEdits
    /\ shown \in [Editors -> SUBSET Edits]

(* The write that holds the lock knows what is on disk.                           *)
LockInv ==
    /\ \A w \in Writes : write[w].at \in {"matched", "emptied"} <=> locked = w
    /\ \A w \in Writes : write[w].at = "matched" => onDisk = write[w].base
    /\ \A w \in Writes : write[w].at = "emptied" => onDisk = Blank

(* A read sees one content, and what it has got is a beginning of its revision.   *)
ReadOK(r) ==
    /\ r.at \in {"hash", "range"} => locked = None /\ r.size = onDisk
    /\ r.at = "range" => r.revision = onDisk
    /\ r.at # "idle" =>
          \A k \in FileChunks :
             IF k < r.chunk THEN r.revision # None /\ r.got[k] = r.revision[k] ELSE r.got[k] = {}

ReadInv == \A e \in Editors : ReadOK(loading[e])

(* Whoever writes against a base, or may, has been shown all that is in it.       *)
BaseInv ==
    /\ \A e \in Editors :
          /\ In(editor[e].text) \subseteq shown[e]
          /\ In(editor[e].base) \subseteq shown[e]
          /\ In(editor[e].theirs) \subseteq shown[e]
    /\ \A w \in Writes :
          write[w] \in Sent => /\ In(write[w].base) \subseteq shown[write[w].by]
                               /\ In(write[w].text) \subseteq shown[write[w].by]
    /\ \A e \in Editors : waits[e] # None => write[waits[e]].at # "idle" /\ write[waits[e]].by = e

SeenInv == Shapes /\ LockInv /\ ReadInv /\ BaseInv

(* Contents.                                                                      *)
LEMMA BlankFile == Blank \in Files /\ In(Blank) = {}
BY DEF Blank, Files, In

(* An edit is added to what is there.                                            *)
LEMMA AddedFile ==
    ASSUME NEW file \in Files, NEW k \in FileChunks, NEW x \in Edits
    PROVE  /\ Add(file, k, x) \in Files
           /\ In(file) \subseteq In(Add(file, k, x))
BY DEF Files, Add, In

(* A file holds edits.                                                           *)
LEMMA InEdits == ASSUME NEW file \in Files PROVE In(file) \in SUBSET Edits
BY DEF Files, In

(* The constants, as the steps use them.                                         *)
LEMMA Parameters ==
    /\ FirstChunk \in FileChunks /\ FileChunks \subseteq Nat \ {0}
    /\ \A k \in FileChunks : 1 .. k \subseteq FileChunks
    /\ None \notin Writes \cup Files /\ MaxEdits \in Nat
<1>1. PICK k \in FileChunks : TRUE
  BY FileEditsAssumption
<1>2. 1 \in 1 .. k /\ 1 .. k \subseteq FileChunks
  BY <1>1, FileEditsAssumption
<1> QED
  BY <1>2, FileEditsAssumption DEF FirstChunk

(* Files with equal chunks.                                                       *)
LEMMA FilesWhole ==
    ASSUME NEW f \in Files, NEW g \in Files, \A k \in FileChunks : f[k] = g[k]
    PROVE  f = g
BY DEF Files

(* A beginning of a file, and the next chunk.                                     *)
LEMMA NextChunk ==
    ASSUME NEW disk \in Files, NEW before \in Files, NEW k \in FileChunks,
           \A j \in FileChunks : IF j < k THEN before[j] = disk[j] ELSE before[j] = {}
    PROVE  LET got == [before EXCEPT ![k] = disk[k]]
           IN /\ got \in Files
              /\ Beyond(disk, k) => before = disk
              /\ Beyond(disk, k + 1) => got = disk
              /\ ~Beyond(disk, k + 1) => k + 1 \in FileChunks
              /\ \A j \in FileChunks : IF j < k + 1 THEN got[j] = disk[j] ELSE got[j] = {}
<1> DEFINE got == [before EXCEPT ![k] = disk[k]]
<1>1. k \in Nat /\ \A j \in FileChunks : j \in Nat
  BY Parameters
<1>2. got \in Files /\ got[k] = disk[k] /\ \A j \in FileChunks : j # k => got[j] = before[j]
  BY DEF Files
<1>3. \A j \in FileChunks : IF j < k + 1 THEN got[j] = disk[j] ELSE got[j] = {}
  <2>1. ASSUME NEW j \in FileChunks PROVE IF j < k + 1 THEN got[j] = disk[j] ELSE got[j] = {}
    <3>1. CASE j = k
      BY <1>1, <1>2, <3>1
    <3>2. CASE j # k
      <4>1. j \in Nat /\ k \in Nat /\ (j < k + 1 <=> j < k)
        BY <1>1, <3>2
      <4> QED
        BY <1>2, <3>2, <4>1
    <3> QED
      BY <3>1, <3>2
  <2> QED
    BY <2>1
<1>4. Beyond(disk, k) => before = disk
  <2>1. ASSUME Beyond(disk, k), NEW j \in FileChunks PROVE before[j] = disk[j]
    <3>1. j \in Nat /\ k \in Nat
      BY <1>1
    <3> QED
      BY <2>1, <3>1 DEF Beyond
  <2> QED
    BY <2>1, FilesWhole
<1>5. Beyond(disk, k + 1) => got = disk
  <2>1. ASSUME Beyond(disk, k + 1), NEW j \in FileChunks PROVE got[j] = disk[j]
    <3>1. j \in Nat /\ k \in Nat
      BY <1>1
    <3>2. j < k + 1 \/ j >= k + 1
      BY <3>1
    <3> QED
      BY <1>2, <1>3, <2>1, <3>1, <3>2 DEF Beyond
  <2> QED
    BY <1>2, <2>1, FilesWhole
<1>6. ~Beyond(disk, k + 1) => k + 1 \in FileChunks
  <2>1. ASSUME NEW j \in FileChunks, j >= k + 1 PROVE k + 1 \in FileChunks
    <3>1. k \in Nat \ {0} /\ j \in Nat /\ 1 .. j \subseteq FileChunks
      BY Parameters
    <3>2. k + 1 \in 1 .. j
      BY <2>1, <3>1
    <3> QED
      BY <3>1, <3>2
  <2> QED
    BY <2>1 DEF Beyond
<1> QED
  BY <1>2, <1>3, <1>4, <1>5, <1>6

(* An editor that takes a text, a base and a conflict it has been shown.          *)
LEMMA EditorsKept ==
    ASSUME SeenInv, UNCHANGED host, NEW e \in Editors, NEW changed \in EditorStates,
           Become(e, changed),
           NEW seen \in SUBSET Edits, shown' = [shown EXCEPT ![e] = @ \cup seen],
           In(changed.text) \subseteq shown[e] \cup seen,
           In(changed.base) \subseteq shown[e] \cup seen,
           In(changed.theirs) \subseteq shown[e] \cup seen,
           loading' \in [Editors -> {NotLoading} \cup Reads], edits' \in 0 .. MaxEdits,
           ReadInv',
           waits' = waits \/ waits' = [waits EXCEPT ![e] = None]
    PROVE  SeenInv'
<1>1. /\ onDisk' = onDisk /\ locked' = locked /\ write' = write
      /\ shown' \in [Editors -> SUBSET Edits] /\ shown'[e] = shown[e] \cup seen
      /\ \A f \in Editors : shown[f] \subseteq shown'[f]
      /\ \A f \in Editors \ {e} : editor'[f] = editor[f] /\ shown'[f] = shown[f]
      /\ editor' \in [Editors -> EditorStates] /\ editor'[e] = changed
      /\ waits' \in [Editors -> Writes \cup {None}]
      /\ \A f \in Editors : waits'[f] # None => waits'[f] = waits[f]
  BY DEF SeenInv, Shapes, host, Become
<1>2. Shapes'
  BY <1>1 DEF SeenInv, Shapes
<1>3. LockInv'
  BY <1>1 DEF SeenInv, LockInv, Blank
<1>4. BaseInv'
  <2>1. ASSUME NEW f \in Editors
        PROVE  /\ In(editor'[f].text) \subseteq shown'[f]
               /\ In(editor'[f].base) \subseteq shown'[f]
               /\ In(editor'[f].theirs) \subseteq shown'[f]
    BY <1>1 DEF SeenInv, BaseInv
  <2>2. ASSUME NEW w \in Writes, write[w] \in Sent
        PROVE  /\ In(write[w].base) \subseteq shown'[write[w].by]
               /\ In(write[w].text) \subseteq shown'[write[w].by]
    <3>1. write[w].by \in Editors
      BY <2>2 DEF Sent
    <3> QED
      BY <1>1, <2>2, <3>1 DEF SeenInv, BaseInv
  <2>3. ASSUME NEW f \in Editors, waits'[f] # None
        PROVE  write[waits'[f]].at # "idle" /\ write[waits'[f]].by = f
    BY <1>1, <2>3 DEF SeenInv, BaseInv
  <2> QED
    BY <1>1, <2>1, <2>2, <2>3 DEF BaseInv
<1> QED
  BY <1>2, <1>3, <1>4 DEF SeenInv

(* A read of one editor goes on.                                                  *)
LEMMA ReadsKept ==
    ASSUME SeenInv, UNCHANGED host, NEW e \in Editors, NEW r \in {NotLoading} \cup Reads,
           loading' = [loading EXCEPT ![e] = r], ReadOK(r)
    PROVE  loading' \in [Editors -> {NotLoading} \cup Reads] /\ ReadInv'
<1>1. onDisk' = onDisk /\ locked' = locked
  BY DEF host
<1>2. loading' \in [Editors -> {NotLoading} \cup Reads]
  BY DEF SeenInv, Shapes
<1>3. \A f \in Editors : loading'[f] = r \/ loading'[f] = loading[f]
  BY DEF SeenInv, Shapes
<1>4. \A f \in Editors : ReadOK(loading'[f])
  BY <1>3 DEF SeenInv, ReadInv
<1> QED
  BY <1>1, <1>2, <1>4 DEF ReadInv, ReadOK

(* Nothing is shown that was not, when nothing is.                                *)
LEMMA ShownSame ==
    ASSUME SeenInv, NEW e \in Editors
    PROVE  shown = [shown EXCEPT ![e] = @ \cup {}] /\ editor = [editor EXCEPT ![e] = editor[e]]
BY DEF SeenInv, Shapes

(* A closed editor has nothing.                                                  *)
LEMMA ClosedSafe ==
    ASSUME NEW u \in Uis
    PROVE  /\ [Closed EXCEPT !.ui = u] \in EditorStates
           /\ In([Closed EXCEPT !.ui = u].text) = {}
           /\ In([Closed EXCEPT !.ui = u].base) = {}
           /\ In([Closed EXCEPT !.ui = u].theirs) = {}
BY BlankFile DEF Closed, EditorStates, Uis

(* An editor without a document, whose read starts or ends.                       *)
LEMMA Resets ==
    ASSUME SeenInv, NEW e \in Editors, NEW u \in Uis, NEW r \in {NotLoading} \cup Reads,
           Become(e, [Closed EXCEPT !.ui = u]), loading' = [loading EXCEPT ![e] = r], ReadOK(r),
           UNCHANGED <<host, waits, edits, shown>>
    PROVE  SeenInv'
<1>1. loading' \in [Editors -> {NotLoading} \cup Reads] /\ ReadInv'
  BY ReadsKept
<1> QED
  BY <1>1, ClosedSafe, ShownSame, EditorsKept DEF SeenInv, Shapes

(* A read is begun.                                                              *)
LEMMA EditorOpens ==
    ASSUME SeenInv, NEW e \in Editors, OpenDocument(e)
    PROVE  SeenInv'
<1> DEFINE r == [at |-> "stat", chunk |-> FirstChunk, size |-> Blank, revision |-> None, got |-> Blank]
<1>1. r \in Reads
  BY BlankFile, Parameters DEF Reads
<1>2. ReadOK(r)
  BY Parameters DEF ReadOK, Blank, FirstChunk
<1>3. "loading" \in Uis
  BY DEF Uis
<1> QED
  BY <1>1, <1>2, <1>3, Resets DEF OpenDocument, fileHistory

(* A read is given up.                                                           *)
LEMMA Fails ==
    ASSUME SeenInv, NEW e \in Editors, Unavailable(e), UNCHANGED <<host, waits, edits>>
    PROVE  SeenInv'
<1>1. ReadOK(NotLoading)
  BY DEF ReadOK, NotLoading
<1>2. "unavailable" \in Uis
  BY DEF Uis
<1> QED
  BY <1>1, <1>2, Resets DEF Unavailable, fileHistory

(* A read goes on and shows nothing yet.                                          *)
LEMMA ReadsOn ==
    ASSUME SeenInv, NEW e \in Editors, NEW r \in Reads,
           loading' = [loading EXCEPT ![e] = r], ReadOK(r),
           UNCHANGED <<host, editor, waits, edits, shown>>
    PROVE  SeenInv'
<1>1. loading' \in [Editors -> {NotLoading} \cup Reads] /\ ReadInv'
  BY ReadsKept
<1>2. editor[e] \in EditorStates /\ Become(e, editor[e])
  BY ShownSame DEF Become, SeenInv, Shapes
<1>3. /\ In(editor[e].text) \subseteq shown[e] \cup {}
      /\ In(editor[e].base) \subseteq shown[e] \cup {}
      /\ In(editor[e].theirs) \subseteq shown[e] \cup {}
  BY DEF SeenInv, BaseInv
<1>4. edits' \in 0 .. MaxEdits /\ shown' = [shown EXCEPT ![e] = @ \cup {}] /\ waits' = waits
  BY ShownSame DEF SeenInv, Shapes
<1>5. {} \in SUBSET Edits
  OBVIOUS
<1> QED
  BY <1>1, <1>2, <1>3, <1>4, <1>5, EditorsKept

(* The size is that of the file under the hash.                                  *)
LEMMA Stats ==
    ASSUME SeenInv, ~TornReads, NEW e \in Editors, StatFile(e)
    PROVE  SeenInv'
<1> DEFINE r == [loading[e] EXCEPT !.at = "hash", !.size = onDisk]
<1>1. loading[e] \in Reads /\ loading[e].at = "stat" /\ ReadOK(loading[e])
  BY DEF StatFile, SeenInv, Shapes, ReadInv, NotLoading
<1>2. r \in Reads
  BY <1>1 DEF Reads, SeenInv, Shapes
<1>3. ReadOK(r)
  BY <1>1 DEF Reads, ReadOK, StatFile
<1>4. loading' = [loading EXCEPT ![e] = r]
  BY DEF StatFile
<1> QED
  BY <1>2, <1>3, <1>4, ReadsOn DEF StatFile, fileHistory

(* The hash is that of the file the size is of.                                  *)
LEMMA Hashes ==
    ASSUME SeenInv, NEW e \in Editors, HashFile(e)
    PROVE  SeenInv'
<1>1. CASE Unavailable(e)
  BY <1>1, Fails DEF HashFile
<1>2. CASE loading[e].revision \in {None, onDisk} /\ ~Unavailable(e)
  <2> DEFINE r == [loading[e] EXCEPT !.at = "range", !.revision = onDisk]
  <2>1. loading[e] \in Reads /\ loading[e].at = "hash" /\ ReadOK(loading[e])
    BY DEF HashFile, SeenInv, Shapes, ReadInv, NotLoading
  <2>2. onDisk \in Files /\ onDisk # None
    BY Parameters DEF SeenInv, Shapes
  <2>3. r \in Reads
    BY <2>1, <2>2 DEF Reads
  <2>4. ReadOK(r)
    BY <1>2, <2>1, <2>2 DEF Reads, ReadOK
  <2>5. loading' = [loading EXCEPT ![e] = r]
    BY <1>2 DEF HashFile
  <2> QED
    BY <1>2, <2>3, <2>4, <2>5, ReadsOn DEF HashFile, fileHistory
<1> QED
  BY <1>1, <1>2 DEF HashFile

(* What a read has got in the end is the file of its revision.                    *)
LEMMA ReadEnds ==
    ASSUME SeenInv, NEW e \in Editors, NEW text \in Files, Loaded(e, text),
           loading[e].revision = text, UNCHANGED <<host, waits, edits>>
    PROVE  SeenInv'
<1> DEFINE changed == [Closed EXCEPT !.ui = "clean", !.text = text, !.base = text]
<1>1. changed \in EditorStates /\ Become(e, changed)
  <2>1. changed \in EditorStates
    BY BlankFile DEF Closed, EditorStates, Uis
  <2> QED
    BY <2>1 DEF Loaded
<1>2. shown' = [shown EXCEPT ![e] = @ \cup In(text)] /\ In(text) \in SUBSET Edits
  BY InEdits DEF Loaded, Shows
<1>3. changed.text = text /\ changed.base = text /\ In(changed.theirs) = {}
  BY BlankFile DEF Closed
<1>4. ReadOK(NotLoading) /\ loading' = [loading EXCEPT ![e] = NotLoading]
  BY DEF ReadOK, NotLoading, Loaded
<1>5. loading' \in [Editors -> {NotLoading} \cup Reads] /\ ReadInv'
  BY <1>4, ReadsKept
<1> QED
  BY <1>1, <1>2, <1>3, <1>5, EditorsKept DEF SeenInv, Shapes

(* The range belongs to the hash.                                                *)
LEMMA ReadsRange ==
    ASSUME SeenInv, NEW e \in Editors, ReadRange(e)
    PROVE  SeenInv'
<1> DEFINE l == loading[e]
           k == l.chunk
           got == [l.got EXCEPT ![k] = onDisk[k]]
<1>1. /\ l \in Reads /\ l.at = "range" /\ ReadOK(l)
      /\ l.size = onDisk /\ l.revision = onDisk
  BY DEF ReadRange, SeenInv, Shapes, ReadInv, NotLoading, ReadOK
<1>2. /\ onDisk \in Files /\ l.got \in Files /\ k \in FileChunks /\ FileChunks \subseteq Nat \ {0}
      /\ onDisk # None
  BY <1>1, Parameters DEF Reads, SeenInv, Shapes
<1>3. \A j \in FileChunks : IF j < k THEN l.got[j] = onDisk[j] ELSE l.got[j] = {}
  BY <1>1 DEF ReadOK
<1>4. /\ got \in Files
      /\ Beyond(onDisk, k) => l.got = onDisk
      /\ Beyond(onDisk, k + 1) => got = onDisk
      /\ ~Beyond(onDisk, k + 1) => k + 1 \in FileChunks
      /\ \A j \in FileChunks : IF j < k + 1 THEN got[j] = onDisk[j] ELSE got[j] = {}
  BY <1>2, <1>3, NextChunk
<1>5. CASE Beyond(l.size, k) /\ Loaded(e, l.got)
  BY <1>1, <1>2, <1>4, <1>5, ReadEnds DEF ReadRange
<1>6. CASE Beyond(l.size, k + 1) /\ Loaded(e, got)
  BY <1>1, <1>2, <1>4, <1>6, ReadEnds DEF ReadRange
<1>7. CASE /\ ~Beyond(l.size, k + 1)
           /\ loading' = [loading EXCEPT ![e] = [@ EXCEPT !.at = "stat", !.chunk = k + 1, !.got = got]]
           /\ UNCHANGED <<editor, fileHistory>>
  <2> DEFINE r == [l EXCEPT !.at = "stat", !.chunk = k + 1, !.got = got]
  <2>1. k + 1 \in FileChunks
    BY <1>1, <1>4, <1>7
  <2>2. r \in Reads
    BY <1>1, <1>4, <2>1 DEF Reads
  <2>3. ReadOK(r)
    <3>1. r.at = "stat" /\ r.chunk = k + 1 /\ r.got = got /\ r.revision = onDisk
      BY <1>1 DEF Reads
    <3> QED
      BY <1>2, <1>4, <3>1 DEF ReadOK
  <2> QED
    BY <1>7, <2>2, <2>3, ReadsOn DEF ReadRange, fileHistory
<1> QED
  BY <1>5, <1>6, <1>7 DEF ReadRange

-------------------------------------------------------------------------------
(* Editing                                                                        *)

(* What is typed is shown.                                                       *)
LEMMA Types ==
    ASSUME SeenInv, NEW e \in Editors, NEW k \in FileChunks, TypeEdit(e, k)
    PROVE  SeenInv'
<1> DEFINE text == Add(editor[e].text, k, edits + 1)
           changed == [editor[e] EXCEPT !.text = text,
                          !.ui = IF @ \in {"saving", "conflicted"} THEN @ ELSE "dirty",
                          !.more = @ \/ Ui(e, {"saving"})]
<1>1. /\ editor[e] \in EditorStates /\ edits \in 0 .. MaxEdits /\ edits < MaxEdits
      /\ edits' = edits + 1
  BY DEF TypeEdit, NextEdit, SeenInv, Shapes
<1>2. edits' \in 0 .. MaxEdits /\ edits + 1 \in Edits
  BY <1>1, Parameters DEF Edits
<1>3. text \in Files
  BY <1>1, <1>2, AddedFile DEF EditorStates
<1>4. changed \in EditorStates
  BY <1>1, <1>3 DEF EditorStates, Uis, Ui
<1>5. changed.text = text /\ changed.base = editor[e].base /\ changed.theirs = editor[e].theirs
  BY <1>1 DEF EditorStates
<1>6. /\ Become(e, changed) /\ shown' = [shown EXCEPT ![e] = @ \cup In(text)]
      /\ UNCHANGED <<host, loading, waits>>
  BY DEF TypeEdit, Shows
<1>7. In(text) \in SUBSET Edits
  BY <1>3, InEdits
<1>8. In(editor[e].base) \subseteq shown[e] /\ In(editor[e].theirs) \subseteq shown[e]
  BY DEF SeenInv, BaseInv
<1>9. /\ In(changed.text) \subseteq shown[e] \cup In(text)
      /\ In(changed.base) \subseteq shown[e] \cup In(text)
      /\ In(changed.theirs) \subseteq shown[e] \cup In(text)
  BY <1>5, <1>8
<1>10. loading' \in [Editors -> {NotLoading} \cup Reads] /\ ReadInv'
  BY <1>6 DEF SeenInv, Shapes, ReadInv, ReadOK, host
<1> QED
  BY <1>2, <1>4, <1>6, <1>7, <1>9, <1>10, EditorsKept

(* An editor changes what it has, among texts and bases it was shown before.      *)
LEMMA EditorMoves ==
    ASSUME SeenInv, NEW e \in Editors, NEW changed \in EditorStates, Become(e, changed),
           In(changed.text) \subseteq shown[e], In(changed.base) \subseteq shown[e],
           In(changed.theirs) \subseteq shown[e],
           UNCHANGED <<host, loading, edits, shown>>,
           waits' = waits \/ waits' = [waits EXCEPT ![e] = None]
    PROVE  SeenInv'
<1>1. loading' \in [Editors -> {NotLoading} \cup Reads] /\ ReadInv'
  BY DEF SeenInv, Shapes, ReadInv, ReadOK, host
<1>2. edits' \in 0 .. MaxEdits /\ shown' = [shown EXCEPT ![e] = @ \cup {}]
  BY ShownSame DEF SeenInv, Shapes
<1>3. {} \in SUBSET Edits
  OBVIOUS
<1>4. /\ In(changed.text) \subseteq shown[e] \cup {} /\ In(changed.base) \subseteq shown[e] \cup {}
      /\ In(changed.theirs) \subseteq shown[e] \cup {}
  OBVIOUS
<1> QED
  BY <1>1, <1>2, <1>3, <1>4, EditorsKept

(* The other text was shown with the conflict.                                   *)
LEMMA TakesTheirs ==
    ASSUME SeenInv, NEW e \in Editors, ResolveTakeTheirs(e)
    PROVE  SeenInv'
<1> DEFINE changed == [editor[e] EXCEPT !.ui = "clean", !.text = editor[e].theirs, !.base = editor[e].theirs]
<1>1. editor[e] \in EditorStates
  BY DEF SeenInv, Shapes
<1>2. changed \in EditorStates /\ changed.text = editor[e].theirs /\ changed.base = editor[e].theirs
      /\ changed.theirs = editor[e].theirs
  BY <1>1 DEF EditorStates, Uis
<1>3. In(editor[e].theirs) \subseteq shown[e]
  BY DEF SeenInv, BaseInv
<1> QED
  BY <1>2, <1>3, EditorMoves DEF ResolveTakeTheirs, fileHistory

(* A lost answer changes no text.                                                *)
LEMMA Loses ==
    ASSUME SeenInv, NEW e \in Editors, SaveLost(e)
    PROVE  SeenInv'
<1> DEFINE changed == [editor[e] EXCEPT !.ui = "offline"]
<1>1. editor[e] \in EditorStates
  BY DEF SeenInv, Shapes
<1>2. changed \in EditorStates /\ changed.text = editor[e].text /\ changed.base = editor[e].base
      /\ changed.theirs = editor[e].theirs
  BY <1>1 DEF EditorStates, Uis
<1> QED
  BY <1>2, EditorMoves DEF SaveLost, fileHistory, SeenInv, BaseInv

(* An answer brings the text that was sent, or one that it shows.                *)
LEMMA Returns ==
    ASSUME SeenInv, NEW e \in Editors, SaveReturns(e)
    PROVE  SeenInv'
<1> DEFINE w == write[waits[e]]
<1>1. editor[e] \in EditorStates /\ waits[e] \in Writes /\ w \in Sent \cup Stale /\ w.by = e
  BY DEF SeenInv, Shapes, SaveReturns, BaseInv, NotSent
<1>2. /\ In(editor[e].text) \subseteq shown[e] /\ In(editor[e].base) \subseteq shown[e]
      /\ In(editor[e].theirs) \subseteq shown[e]
  BY DEF SeenInv, BaseInv
<1>3. waits' = [waits EXCEPT ![e] = None] /\ UNCHANGED <<host, loading, edits>>
  BY DEF SaveReturns
<1>4. CASE /\ w.at = "written"
           /\ Become(e, [editor[e] EXCEPT !.ui = IF editor[e].more THEN "dirty" ELSE "clean",
                                          !.base = w.text, !.more = FALSE])
           /\ UNCHANGED shown
  <2> DEFINE changed == [editor[e] EXCEPT !.ui = IF editor[e].more THEN "dirty" ELSE "clean",
                                          !.base = w.text, !.more = FALSE]
  <2>1. w \in Sent /\ w.text \in Files
    BY <1>1, <1>4 DEF Sent, Stale
  <2>2. In(w.text) \subseteq shown[e]
    BY <1>1, <2>1 DEF SeenInv, BaseInv
  <2>3. changed \in EditorStates /\ changed.text = editor[e].text /\ changed.base = w.text
        /\ changed.theirs = editor[e].theirs
    BY <1>1, <2>1 DEF EditorStates, Uis
  <2> QED
    BY <1>2, <1>3, <1>4, <2>2, <2>3, EditorMoves
<1>5. CASE /\ w.at = "rejected" /\ Become(e, [editor[e] EXCEPT !.ui = "dirty"])
           /\ UNCHANGED shown
  <2> DEFINE changed == [editor[e] EXCEPT !.ui = "dirty"]
  <2>1. changed \in EditorStates /\ changed.text = editor[e].text /\ changed.base = editor[e].base
        /\ changed.theirs = editor[e].theirs
    BY <1>1 DEF EditorStates, Uis
  <2> QED
    BY <1>2, <1>3, <1>5, <2>1, EditorMoves
<1>6. CASE /\ w.at = "stale"
           /\ Become(e, [editor[e] EXCEPT !.ui = "conflicted", !.theirs = w.current])
           /\ Shows(e, w.current)
  <2> DEFINE changed == [editor[e] EXCEPT !.ui = "conflicted", !.theirs = w.current]
  <2>1. w.current \in Files
    BY <1>1, <1>6 DEF Sent, Stale
  <2>2. changed \in EditorStates /\ changed.text = editor[e].text /\ changed.base = editor[e].base
        /\ changed.theirs = w.current
    BY <1>1, <2>1 DEF EditorStates, Uis
  <2>3. In(w.current) \in SUBSET Edits
    BY <2>1, InEdits
  <2>4. /\ In(changed.text) \subseteq shown[e] \cup In(w.current)
        /\ In(changed.base) \subseteq shown[e] \cup In(w.current)
        /\ In(changed.theirs) \subseteq shown[e] \cup In(w.current)
    BY <1>2, <2>2
  <2>5. /\ loading' \in [Editors -> {NotLoading} \cup Reads] /\ ReadInv'
        /\ edits' \in 0 .. MaxEdits
    BY <1>3 DEF SeenInv, Shapes, ReadInv, ReadOK, host
  <2>6. shown' = [shown EXCEPT ![e] = @ \cup In(w.current)]
    BY <1>6 DEF Shows
  <2> QED
    BY <1>3, <1>6, <2>2, <2>3, <2>4, <2>5, <2>6, EditorsKept
<1> QED
  BY <1>4, <1>5, <1>6 DEF SaveReturns, fileHistory

(* A save is sent with a base that its editor was shown.                          *)
LEMMA Sends ==
    ASSUME SeenInv, NEW e \in Editors, NEW base \in Files, In(base) \subseteq shown[e],
           SendWrite(e, base), UNCHANGED <<onDisk, locked, loading, edits, fileHistory>>
    PROVE  SeenInv'
<1>1. PICK w \in Writes :
         /\ write[w].at = "idle"
         /\ write' = [write EXCEPT ![w] = [at |-> "sent", by |-> e, base |-> base, text |-> editor[e].text]]
         /\ waits' = [waits EXCEPT ![e] = w]
         /\ Become(e, [editor[e] EXCEPT !.ui = "saving", !.base = base, !.more = FALSE])
  BY DEF SendWrite
<1> DEFINE new == [at |-> "sent", by |-> e, base |-> base, text |-> editor[e].text]
           changed == [editor[e] EXCEPT !.ui = "saving", !.base = base, !.more = FALSE]
<1>2. editor[e] \in EditorStates /\ new \in Sent
  BY DEF SeenInv, Shapes, EditorStates, Sent
<1>3. /\ changed \in EditorStates /\ changed.text = editor[e].text /\ changed.base = base
      /\ changed.theirs = editor[e].theirs
  BY <1>2 DEF EditorStates, Uis
<1>4. /\ write' \in [Writes -> {NotSent} \cup Sent \cup Stale] /\ write'[w] = new
      /\ \A v \in Writes \ {w} : write'[v] = write[v]
      /\ editor' \in [Editors -> EditorStates] /\ editor'[e] = changed
      /\ \A f \in Editors \ {e} : editor'[f] = editor[f]
      /\ waits' \in [Editors -> Writes \cup {None}] /\ waits'[e] = w
      /\ \A f \in Editors \ {e} : waits'[f] = waits[f]
  BY <1>1, <1>2, <1>3 DEF SeenInv, Shapes, Become
<1>5. UNCHANGED <<onDisk, locked, loading, edits, shown>>
  BY DEF fileHistory
<1>6. Shapes'
  BY <1>4, <1>5 DEF SeenInv, Shapes
<1>7. LockInv'
  <2>1. locked # w
    BY <1>1 DEF SeenInv, LockInv
  <2> QED
    BY <1>4, <1>5, <2>1 DEF SeenInv, LockInv, Blank
<1>8. ReadInv'
  BY <1>5 DEF SeenInv, ReadInv, ReadOK
<1>9. BaseInv'
  <2>1. ASSUME NEW f \in Editors
        PROVE  /\ In(editor'[f].text) \subseteq shown[f]
               /\ In(editor'[f].base) \subseteq shown[f]
               /\ In(editor'[f].theirs) \subseteq shown[f]
    <3>1. CASE f = e
      BY <1>3, <1>4, <3>1 DEF SeenInv, BaseInv
    <3>2. CASE f # e
      BY <1>4, <3>2 DEF SeenInv, BaseInv
    <3> QED
      BY <3>1, <3>2
  <2>2. ASSUME NEW v \in Writes, write'[v] \in Sent
        PROVE  /\ In(write'[v].base) \subseteq shown[write'[v].by]
               /\ In(write'[v].text) \subseteq shown[write'[v].by]
    <3>1. CASE v = w
      BY <1>4, <3>1 DEF SeenInv, BaseInv
    <3>2. CASE v # w
      BY <1>4, <2>2, <3>2 DEF SeenInv, BaseInv
    <3> QED
      BY <3>1, <3>2
  <2>3. ASSUME NEW f \in Editors, waits'[f] # None
        PROVE  write'[waits'[f]].at # "idle" /\ write'[waits'[f]].by = f
    <3>1. CASE f = e
      BY <1>4, <3>1
    <3>2. CASE f # e
      <4>1. waits[f] \in Writes /\ write[waits[f]].at # "idle" /\ write[waits[f]].by = f
        BY <1>4, <2>3, <3>2 DEF SeenInv, Shapes, BaseInv
      <4> QED
        BY <1>1, <1>4, <3>2, <4>1
    <3> QED
      BY <3>1, <3>2
  <2> QED
    BY <1>5, <2>1, <2>2, <2>3 DEF BaseInv
<1> QED
  BY <1>6, <1>7, <1>8, <1>9 DEF SeenInv

(* A save or a resolution sends its base.                                        *)
LEMMA Saves ==
    ASSUME SeenInv, NEW e \in Editors, SaveNow(e) \/ ResolveKeepMine(e)
    PROVE  SeenInv'
<1>1. /\ editor[e].base \in Files /\ editor[e].theirs \in Files
      /\ In(editor[e].base) \subseteq shown[e] /\ In(editor[e].theirs) \subseteq shown[e]
  BY DEF SeenInv, Shapes, BaseInv, EditorStates
<1> QED
  BY <1>1, Sends DEF SaveNow, ResolveKeepMine

-------------------------------------------------------------------------------
(* The host                                                                       *)

(* A write that goes on keeps its base, its text and its editor, or is stale.     *)
LEMMA WritesKept ==
    ASSUME SeenInv, NEW w \in Writes, write[w].at \notin {"idle", "stale"},
           NEW new \in Sent \cup Stale, write' = [write EXCEPT ![w] = new],
           new.by = write[w].by,
           new \in Sent => new.base = write[w].base /\ new.text = write[w].text,
           new.at # "idle", UNCHANGED <<editor, loading, waits, edits, shown>>,
           onDisk' \in Files, locked' \in Writes \cup {None}
    PROVE  Shapes' /\ BaseInv'
<1>1. /\ write' \in [Writes -> {NotSent} \cup Sent \cup Stale] /\ write'[w] = new
      /\ \A v \in Writes \ {w} : write'[v] = write[v]
  BY DEF SeenInv, Shapes
<1>2. write[w] \in Sent
  BY DEF SeenInv, Shapes, NotSent, Stale
<1>3. Shapes'
  BY <1>1 DEF SeenInv, Shapes
<1>4. ASSUME NEW v \in Writes, write'[v] \in Sent
      PROVE  /\ In(write'[v].base) \subseteq shown[write'[v].by]
             /\ In(write'[v].text) \subseteq shown[write'[v].by]
  <2>1. CASE v = w
    BY <1>1, <1>2, <1>4, <2>1 DEF SeenInv, BaseInv
  <2>2. CASE v # w
    BY <1>1, <1>4, <2>2 DEF SeenInv, BaseInv
  <2> QED
    BY <2>1, <2>2
<1>5. ASSUME NEW f \in Editors, waits[f] # None
      PROVE  write'[waits[f]].at # "idle" /\ write'[waits[f]].by = f
  <2>1. waits[f] \in Writes /\ write[waits[f]].at # "idle" /\ write[waits[f]].by = f
    BY <1>5 DEF SeenInv, Shapes, BaseInv
  <2> QED
    BY <1>1, <2>1
<1>6. BaseInv'
  BY <1>4, <1>5 DEF SeenInv, BaseInv
<1> QED
  BY <1>3, <1>6

(* A match takes the lock, and a reader is not between two looks.                *)
LEMMA Compares ==
    ASSUME SeenInv, ~TornReads, NEW w \in Writes, CompareRevision(w)
    PROVE  SeenInv'
<1>1. /\ write[w].at = "sent" /\ locked = None
      /\ \A e \in Editors : loading[e].at \notin {"hash", "range"}
      /\ UNCHANGED <<onDisk, editor, loading, waits, edits, shown>>
  BY DEF CompareRevision, PathFree, ReadsDone, fileHistory
<1>2. write[w] \in Sent /\ onDisk \in Files
  BY <1>1 DEF SeenInv, Shapes, NotSent, Stale
<1>3. ReadInv'
  BY <1>1 DEF SeenInv, ReadInv, ReadOK
<1>4. \A v \in Writes : write[v].at \notin {"matched", "emptied"}
  BY <1>1, Parameters DEF SeenInv, LockInv
<1>5. CASE onDisk = write[w].base /\ locked' = w /\ Answered(w, "matched")
  <2> DEFINE new == [write[w] EXCEPT !.at = "matched"]
  <2>1. new \in Sent /\ new.by = write[w].by /\ new.base = write[w].base /\ new.text = write[w].text
        /\ new.at = "matched"
    BY <1>2 DEF Sent
  <2>2. write' = [write EXCEPT ![w] = new]
    BY <1>5 DEF Answered
  <2>3. Shapes' /\ BaseInv'
    BY <1>1, <1>2, <1>5, <2>1, <2>2, WritesKept
  <2>4. write'[w] = new /\ \A v \in Writes \ {w} : write'[v] = write[v]
    BY <2>2 DEF SeenInv, Shapes
  <2>5. LockInv'
    BY <1>1, <1>4, <1>5, <2>1, <2>4 DEF LockInv
  <2> QED
    BY <1>3, <2>3, <2>5 DEF SeenInv
<1>6. CASE /\ write' = [write EXCEPT ![w] = [at |-> "stale", by |-> @.by, current |-> onDisk]]
           /\ UNCHANGED locked
  <2> DEFINE new == [at |-> "stale", by |-> write[w].by, current |-> onDisk]
  <2>1. new \in Stale /\ new \notin Sent /\ new.by = write[w].by /\ new.at = "stale"
    BY <1>2 DEF Sent, Stale
  <2>2. write' = [write EXCEPT ![w] = new]
    BY <1>6
  <2>3. locked' \in Writes \cup {None}
    BY <1>6 DEF SeenInv, Shapes
  <2>4. Shapes' /\ BaseInv'
    BY <1>1, <1>2, <2>1, <2>2, <2>3, WritesKept
  <2>5. write'[w] = new /\ \A v \in Writes \ {w} : write'[v] = write[v]
    BY <2>2 DEF SeenInv, Shapes
  <2>6. LockInv'
    BY <1>1, <1>4, <1>6, <2>1, <2>5, Parameters DEF LockInv
  <2> QED
    BY <1>3, <2>4, <2>6 DEF SeenInv
<1> QED
  BY <1>5, <1>6 DEF CompareRevision

(* A write that holds the lock goes on, or fails and lets it go.                  *)
LEMMA HolderGoesOn ==
    ASSUME SeenInv, NEW w \in Writes, write[w].at \in {"matched", "emptied"},
           NEW l \in {"emptied", "written", "rejected"}, Answered(w, l),
           IF l = "emptied" THEN onDisk' = Blank /\ UNCHANGED locked ELSE locked' = None,
           onDisk' \in Files, UNCHANGED <<editor, loading, waits, edits, shown>>
    PROVE  SeenInv'
<1> DEFINE new == [write[w] EXCEPT !.at = l]
<1>1. write[w] \in Sent /\ locked = w /\ w # None
  BY Parameters DEF SeenInv, Shapes, LockInv, NotSent, Stale
<1>2. /\ new \in Sent /\ new.by = write[w].by /\ new.base = write[w].base /\ new.text = write[w].text
      /\ new.at = l
  BY <1>1 DEF Sent
<1>3. write' = [write EXCEPT ![w] = new]
  BY DEF Answered
<1>4. locked' \in Writes \cup {None}
  BY <1>1
<1>5. Shapes' /\ BaseInv'
  BY <1>2, <1>3, <1>4, WritesKept
<1>6. write'[w] = new /\ \A v \in Writes \ {w} : write'[v] = write[v]
  BY <1>3 DEF SeenInv, Shapes
<1>7. \A v \in Writes \ {w} : write[v].at \notin {"matched", "emptied"}
  BY <1>1 DEF SeenInv, LockInv
<1>8. LockInv'
  BY <1>1, <1>2, <1>6, <1>7, Parameters DEF LockInv, Blank
<1>9. ReadInv'
  BY <1>1 DEF SeenInv, ReadInv, ReadOK
<1> QED
  BY <1>5, <1>8, <1>9 DEF SeenInv

(* The file is emptied.                                                          *)
LEMMA Truncates ==
    ASSUME SeenInv, NEW w \in Writes, Truncate(w)
    PROVE  SeenInv'
<1>1. write[w].at = "matched" /\ UNCHANGED <<editor, loading, waits, edits, shown>>
  BY DEF Truncate, fileHistory
<1>2. CASE onDisk' = Blank /\ Answered(w, "emptied") /\ UNCHANGED locked
  BY <1>1, <1>2, BlankFile, HolderGoesOn
<1>3. CASE Answered(w, "rejected") /\ locked' = None /\ UNCHANGED onDisk
  BY <1>1, <1>3, HolderGoesOn DEF SeenInv, Shapes
<1> QED
  BY <1>2, <1>3 DEF Truncate

(* The file is filled, or cut short.                                             *)
LEMMA Fills ==
    ASSUME SeenInv, NEW w \in Writes, Fill(w)
    PROVE  SeenInv'
<1>1. /\ write[w].at = "emptied" /\ locked' = None
      /\ UNCHANGED <<editor, loading, waits, edits, shown>>
  BY DEF Fill, fileHistory
<1>2. write[w].text \in Files
  BY <1>1 DEF SeenInv, Shapes, NotSent, Stale, Sent
<1>3. CASE onDisk' = write[w].text /\ Answered(w, "written")
  BY <1>1, <1>2, <1>3, HolderGoesOn
<1>4. CASE \E k \in FileChunks :
             /\ onDisk' = [j \in FileChunks |-> IF j < k THEN write[w].text[j] ELSE {}]
             /\ Answered(w, "rejected")
  <2>1. onDisk' \in Files
    BY <1>2, <1>4 DEF Files
  <2> QED
    BY <1>1, <1>4, <2>1, HolderGoesOn
<1> QED
  BY <1>3, <1>4 DEF Fill

(* An agent writes.                                                              *)
LEMMA AgentsEdit ==
    ASSUME SeenInv, ~AgentRaces, ~TornReads, NEW k \in FileChunks, AgentEdits(k)
    PROVE  SeenInv'
<1>1. /\ locked = None /\ \A e \in Editors : loading[e].at \notin {"hash", "range"}
      /\ edits < MaxEdits /\ edits' = edits + 1 /\ onDisk' = Add(onDisk, k, edits + 1)
      /\ UNCHANGED <<locked, write, editor, loading, waits, shown>>
  BY DEF AgentEdits, PathFree, ReadsDone, NextEdit, fileHistory
<1>2. edits' \in 0 .. MaxEdits /\ edits + 1 \in Edits
  BY <1>1, Parameters DEF Edits, SeenInv, Shapes
<1>3. onDisk' \in Files
  BY <1>1, <1>2, AddedFile DEF SeenInv, Shapes
<1>4. Shapes'
  BY <1>1, <1>2, <1>3 DEF SeenInv, Shapes
<1>5. LockInv'
  BY <1>1, Parameters DEF SeenInv, LockInv
<1>6. ReadInv'
  BY <1>1 DEF SeenInv, ReadInv, ReadOK
<1>7. BaseInv'
  BY <1>1 DEF SeenInv, BaseInv
<1> QED
  BY <1>4, <1>5, <1>6, <1>7 DEF SeenInv

-------------------------------------------------------------------------------

(* At the start nobody has anything.                                             *)
LEMMA SeenInit == FileEditsInit => SeenInv
<1> SUFFICES ASSUME FileEditsInit PROVE SeenInv
  OBVIOUS
<1>1. Shapes
  BY BlankFile, Parameters DEF FileEditsInit, Shapes, EditorStates, Uis, Closed
<1>2. LockInv
  BY Parameters DEF FileEditsInit, LockInv, NotSent
<1>3. ReadInv
  BY DEF FileEditsInit, ReadInv, ReadOK, NotLoading
<1>4. BaseInv
  BY BlankFile DEF FileEditsInit, BaseInv, Closed, NotSent, Sent
<1> QED
  BY <1>1, <1>2, <1>3, <1>4 DEF SeenInv

(* Every step of editors, agents and the host keeps the invariant.                *)
LEMMA SeenStep ==
    ASSUME SeenInv, ~AgentRaces, ~TornReads, [FileEditsNext]_fileEditsVars
    PROVE  SeenInv'
<1>1. ASSUME NEW e \in Editors, EditorStep(e) PROVE SeenInv'
  <2>1. CASE LoadFails(e)
    BY <2>1, Fails DEF LoadFails
  <2> QED
    BY <1>1, <2>1, EditorOpens, Stats, Hashes, ReadsRange, Saves, TakesTheirs, Loses, Returns, Types DEF EditorStep
<1>2. ASSUME NEW w \in Writes, WriteFile(w) PROVE SeenInv'
  BY <1>2, Compares, Truncates, Fills DEF WriteFile
<1>3. CASE UNCHANGED fileEditsVars
  BY <1>3 DEF fileEditsVars, host, fileHistory, SeenInv, Shapes, LockInv, ReadInv, ReadOK, BaseInv, Blank
<1> QED
  BY <1>1, <1>2, <1>3, AgentsEdit DEF FileEditsNext

(* Only the write that has emptied the file takes anything from it, and its base  *)
(* is what was there.                                                             *)
LEMMA LossStep ==
    ASSUME SeenInv, [FileEditsNext]_fileEditsVars
    PROVE  \A x \in In(onDisk) \ In(onDisk') :
              \E w \in Writes : locked = w /\ x \in shown[write[w].by]
<1>1. CASE UNCHANGED onDisk
  BY <1>1
<1>2. ASSUME NEW w \in Writes, Truncate(w)
      PROVE  locked = w /\ In(onDisk) \subseteq shown[write[w].by]
  <2>1. write[w].at = "matched" /\ write[w] \in Sent
    BY <1>2 DEF Truncate, SeenInv, Shapes, NotSent, Stale
  <2> QED
    BY <2>1 DEF SeenInv, LockInv, BaseInv
<1>3. ASSUME NEW w \in Writes, Fill(w) PROVE In(onDisk) = {}
  BY <1>3, BlankFile DEF Fill, SeenInv, LockInv
<1>4. ASSUME NEW k \in FileChunks, AgentEdits(k) PROVE In(onDisk) \subseteq In(onDisk')
  <2>1. edits + 1 \in Edits /\ onDisk' = Add(onDisk, k, edits + 1) /\ onDisk \in Files
    BY <1>4, Parameters DEF AgentEdits, NextEdit, Edits, SeenInv, Shapes
  <2> QED
    BY <2>1, AddedFile
<1>5. ASSUME NEW e \in Editors, EditorStep(e) PROVE UNCHANGED onDisk
  BY <1>5 DEF EditorStep, OpenDocument, StatFile, HashFile, ReadRange, LoadFails, SaveNow, ResolveKeepMine,
              ResolveTakeTheirs, SaveLost, SaveReturns, TypeEdit, host
<1>6. ASSUME NEW w \in Writes, CompareRevision(w) PROVE UNCHANGED onDisk
  BY <1>6 DEF CompareRevision
<1>7. CASE UNCHANGED fileEditsVars
  BY <1>7 DEF fileEditsVars, host
<1> QED
  BY <1>1, <1>2, <1>3, <1>4, <1>5, <1>6, <1>7 DEF FileEditsNext, WriteFile

(* Where reads are whole and agents keep away from a save, an edit on disk is     *)
(* overwritten only by the save of an editor that was shown it.                   *)
THEOREM UnseenIsKept ==
    ASSUME ~AgentRaces, ~TornReads
    PROVE  FileEditsSpec => NothingUnseenIsLost
<1>1. SeenInv /\ [FileEditsNext]_fileEditsVars => SeenInv'
  BY SeenStep
<1>2. SeenInv /\ [FileEditsNext]_fileEditsVars =>
         [\A x \in In(onDisk) \ In(onDisk') :
             \E w \in Writes : locked = w /\ x \in shown[write[w].by]]_fileEditsVars
  BY LossStep
<1> QED
  BY <1>1, <1>2, SeenInit, PTL DEF FileEditsSpec, NothingUnseenIsLost

-------------------------------------------------------------------------------
(* A document that is shown as saved: here nothing is assumed of agents and reads. *)
(* The text that was sent is the text still there unless something was typed, and *)
(* what a conflict offers to take is what the host answered.                      *)
EditorFields == {"ui", "text", "base", "theirs", "more"}
HasText(w) == "at" \in DOMAIN w /\ (w.at \notin {"idle", "stale"} => "text" \in DOMAIN w)

ShownAs(e) ==
    /\ EditorFields \subseteq DOMAIN editor[e]
    /\ loading[e].at # "idle" => editor[e].ui = "loading"
    /\ waits[e] # None =>
          /\ editor[e].ui = "saving"
          /\ waits[e] \in Writes /\ write[waits[e]].at # "idle"
          /\ write[waits[e]].at # "stale" /\ ~editor[e].more => editor[e].text = write[waits[e]].text
    /\ editor[e].ui = "clean" => editor[e].text \in accepted[e]
    /\ editor[e].ui = "conflicted" => editor[e].theirs \in accepted[e]

CleanInv ==
    /\ DOMAIN editor = Editors /\ DOMAIN loading = Editors
    /\ DOMAIN waits = Editors /\ DOMAIN accepted = Editors
    /\ DOMAIN write = Writes /\ \A w \in Writes : HasText(write[w])
    /\ \A e \in Editors : ShownAs(e)

(* Only editor e moves, and what was sent before stays as it was.                 *)
OnlyEditor(e) ==
    /\ DOMAIN editor' = Editors /\ DOMAIN loading' = Editors
    /\ DOMAIN waits' = Editors /\ DOMAIN accepted' = Editors
    /\ \A d \in Editors \ {e} : /\ editor'[d] = editor[d] /\ loading'[d] = loading[d]
                                /\ waits'[d] = waits[d] /\ accepted'[d] = accepted[d]
    /\ DOMAIN write' = Writes /\ \A w \in Writes : HasText(write'[w])
    /\ \A w \in Writes : write[w].at # "idle" => write'[w] = write[w]

(* Then what the other editors show is as true as before.                         *)
LEMMA OthersShow ==
    ASSUME CleanInv, NEW e \in Editors, OnlyEditor(e), ShownAs(e)'
    PROVE  CleanInv'
<1>1. ASSUME NEW d \in Editors \ {e} PROVE ShownAs(d)'
  BY <1>1 DEF CleanInv, ShownAs, OnlyEditor
<1> QED
  BY <1>1 DEF CleanInv, OnlyEditor

(* The steps of a load.                                                           *)
LEMMA LoadsClean ==
    ASSUME CleanInv, NEW e \in Editors,
           OpenDocument(e) \/ StatFile(e) \/ HashFile(e) \/ ReadRange(e) \/ LoadFails(e)
    PROVE  CleanInv'
<1>1. EditorFields = DOMAIN Closed /\ \A u : EditorFields = DOMAIN [Closed EXCEPT !.ui = u]
  BY DEF Closed, EditorFields
<1>2. CASE OpenDocument(e)
  <2>1. OnlyEditor(e) /\ waits' = waits /\ editor'[e] = [Closed EXCEPT !.ui = "loading"]
    BY <1>2 DEF OpenDocument, Become, OnlyEditor, CleanInv, host, fileHistory
  <2>2. editor[e].ui \in {"closed", "unavailable"}
    BY <1>2 DEF OpenDocument, Ui
  <2>3. waits[e] = None
    BY <2>2 DEF CleanInv, ShownAs
  <2>4. editor'[e].ui = "loading"
    BY <2>1 DEF Closed
  <2>5. ShownAs(e)'
    BY <1>1, <2>1, <2>3, <2>4 DEF ShownAs
  <2> QED
    BY <2>1, <2>5, OthersShow
<1>3. ASSUME loading[e].at # "idle" PROVE waits[e] = None /\ editor[e].ui = "loading"
  BY <1>3 DEF CleanInv, ShownAs
<1>4. ASSUME loading[e].at # "idle", Unavailable(e), UNCHANGED <<write, waits>> PROVE CleanInv'
  <2>1. OnlyEditor(e) /\ editor'[e] = [Closed EXCEPT !.ui = "unavailable"] /\ loading'[e] = NotLoading
    BY <1>4 DEF Unavailable, Become, OnlyEditor, CleanInv, fileHistory
  <2>2. editor'[e].ui = "unavailable" /\ loading'[e].at = "idle"
    BY <2>1 DEF Closed, NotLoading
  <2>3. ShownAs(e)'
    BY <1>1, <1>3, <1>4, <2>1, <2>2 DEF ShownAs
  <2> QED
    BY <2>1, <2>3, OthersShow
<1>5. ASSUME loading[e].at # "idle", NEW l, loading' = [loading EXCEPT ![e] = l],
             UNCHANGED <<write, editor, waits, accepted>>
      PROVE  CleanInv'
  <2>1. OnlyEditor(e)
    BY <1>5 DEF OnlyEditor, CleanInv
  <2>2. ShownAs(e)'
    BY <1>3, <1>5 DEF ShownAs, CleanInv
  <2> QED
    BY <2>1, <2>2, OthersShow
<1>6. ASSUME loading[e].at # "idle", NEW text, Loaded(e, text), UNCHANGED <<write, waits>>
      PROVE  CleanInv'
  <2>1. /\ OnlyEditor(e) /\ loading'[e] = NotLoading
        /\ editor'[e] = [Closed EXCEPT !.ui = "clean", !.text = text, !.base = loading[e].revision]
        /\ accepted'[e] = accepted[e] \cup {text}
    BY <1>6 DEF Loaded, Become, Accepts, OnlyEditor, CleanInv
  <2>2. /\ editor'[e].ui = "clean" /\ editor'[e].text = text /\ EditorFields = DOMAIN editor'[e]
        /\ loading'[e].at = "idle"
    BY <2>1 DEF Closed, NotLoading, EditorFields
  <2>3. ShownAs(e)'
    BY <1>3, <1>6, <2>1, <2>2 DEF ShownAs
  <2> QED
    BY <2>1, <2>3, OthersShow
<1>7. CASE StatFile(e)
  BY <1>5, <1>7 DEF StatFile, host, fileHistory
<1>8. CASE HashFile(e)
  <2>1. loading[e].at = "hash" /\ UNCHANGED <<write, waits>>
    BY <1>8 DEF HashFile, host
  <2>2. CASE Unavailable(e)
    BY <1>4, <2>1, <2>2
  <2>3. CASE ~Unavailable(e)
    <3>1. /\ \E l : loading' = [loading EXCEPT ![e] = l]
          /\ UNCHANGED <<editor, accepted>>
      BY <1>8, <2>3 DEF HashFile, fileHistory
    <3> QED
      BY <1>5, <2>1, <3>1
  <2> QED
    BY <2>2, <2>3
<1>9. CASE ReadRange(e)
  <2>1. loading[e].at = "range" /\ UNCHANGED <<write, waits>>
    BY <1>9 DEF ReadRange, host
  <2>2. \/ \E text : Loaded(e, text)
        \/ (\E l : loading' = [loading EXCEPT ![e] = l]) /\ UNCHANGED <<editor, accepted>>
    BY <1>9 DEF ReadRange, fileHistory
  <2> QED
    BY <1>5, <1>6, <2>1, <2>2
<1>10. CASE LoadFails(e)
  BY <1>4, <1>10 DEF LoadFails, host
<1> QED
  BY <1>2, <1>7, <1>8, <1>9, <1>10

(* Typing marks the text as not saved, or a save under way as overtaken.          *)
LEMMA TypesClean ==
    ASSUME CleanInv, NEW e \in Editors, NEW k \in FileChunks, TypeEdit(e, k)
    PROVE  CleanInv'
<1> DEFINE text == Add(editor[e].text, k, edits + 1)
           after == [editor[e] EXCEPT !.text = text,
                        !.ui = IF @ \in {"saving", "conflicted"} THEN @ ELSE "dirty",
                        !.more = @ \/ Ui(e, {"saving"})]
<1>1. editor' = [editor EXCEPT ![e] = after] /\ UNCHANGED <<write, loading, waits, accepted>>
  BY DEF TypeEdit, Become, host
<1>2. EditorFields \subseteq DOMAIN editor[e] /\ editor'[e] = after
  BY <1>1 DEF CleanInv, ShownAs
<1>3. /\ EditorFields \subseteq DOMAIN after /\ after.theirs = editor[e].theirs
      /\ after.ui = IF editor[e].ui \in {"saving", "conflicted"} THEN editor[e].ui ELSE "dirty"
      /\ editor[e].ui = "saving" => after.more
  BY <1>2 DEF EditorFields, Ui
<1>4. OnlyEditor(e)
  BY <1>1 DEF OnlyEditor, CleanInv
<1>5. editor[e].ui # "loading"
  BY DEF TypeEdit, Ui
<1> HIDE DEF after
<1>6. ShownAs(e)'
  BY <1>1, <1>2, <1>3, <1>5 DEF ShownAs, CleanInv
<1> QED
  BY <1>4, <1>6, OthersShow

(* What is sent is the text.                                                      *)
LEMMA SendsClean ==
    ASSUME CleanInv, NEW e \in Editors, editor[e].ui \in {"dirty", "offline", "conflicted"},
           NEW base, SendWrite(e, base), UNCHANGED <<loading, accepted>>
    PROVE  CleanInv'
<1>1. PICK w \in Writes :
         /\ write[w].at = "idle"
         /\ write' = [write EXCEPT ![w] = [at |-> "sent", by |-> e, base |-> base, text |-> editor[e].text]]
         /\ waits' = [waits EXCEPT ![e] = w]
         /\ editor' = [editor EXCEPT ![e] = [editor[e] EXCEPT !.ui = "saving", !.base = base, !.more = FALSE]]
  BY DEF SendWrite, Become
<1>2. EditorFields \subseteq DOMAIN editor[e] /\ loading[e].at = "idle"
  BY DEF CleanInv, ShownAs
<1>3. /\ editor'[e].ui = "saving" /\ editor'[e].text = editor[e].text /\ EditorFields \subseteq DOMAIN editor'[e]
      /\ waits'[e] = w /\ write'[w].at = "sent" /\ write'[w].text = editor[e].text
  BY <1>1, <1>2 DEF CleanInv, EditorFields
<1>4. OnlyEditor(e)
  BY <1>1 DEF OnlyEditor, CleanInv, HasText
<1>5. ShownAs(e)'
  BY <1>2, <1>3 DEF ShownAs
<1> QED
  BY <1>4, <1>5, OthersShow

(* An answer makes the text clean only if it is still what was sent.              *)
LEMMA ReturnsClean ==
    ASSUME CleanInv, NEW e \in Editors, SaveReturns(e)
    PROVE  CleanInv'
<1> DEFINE w == write[waits[e]]
<1>1. /\ waits[e] # None /\ waits' = [waits EXCEPT ![e] = None]
      /\ UNCHANGED <<write, loading>>
  BY DEF SaveReturns, host
<1>2. /\ EditorFields \subseteq DOMAIN editor[e] /\ loading[e].at = "idle"
      /\ w.at # "stale" /\ ~editor[e].more => editor[e].text = w.text
  BY <1>1 DEF CleanInv, ShownAs
<1>3. ASSUME OnlyEditor(e), EditorFields \subseteq DOMAIN editor'[e],
             editor'[e].ui = "clean" => editor'[e].text \in accepted'[e],
             editor'[e].ui = "conflicted" => editor'[e].theirs \in accepted'[e]
      PROVE  CleanInv'
  <2>1. waits'[e] = None /\ loading'[e].at = "idle"
    BY <1>1, <1>2 DEF CleanInv
  <2>2. ShownAs(e)'
    BY <1>3, <2>1 DEF ShownAs
  <2> QED
    BY <1>3, <2>2, OthersShow
<1>4. CASE /\ w.at = "written"
           /\ Become(e, [editor[e] EXCEPT !.ui = IF editor[e].more THEN "dirty" ELSE "clean",
                                          !.base = w.text, !.more = FALSE])
           /\ Accepts(e, w.text)
  <2>1. OnlyEditor(e)
    BY <1>1, <1>4 DEF OnlyEditor, CleanInv, Become, Accepts
  <2>2. /\ EditorFields \subseteq DOMAIN editor'[e] /\ editor'[e].text = editor[e].text
        /\ editor'[e].ui = (IF editor[e].more THEN "dirty" ELSE "clean")
        /\ accepted'[e] = accepted[e] \cup {w.text}
    BY <1>2, <1>4 DEF Become, Accepts, CleanInv, EditorFields
  <2> QED
    BY <1>2, <1>3, <1>4, <2>1, <2>2
<1>5. CASE /\ Become(e, [editor[e] EXCEPT !.ui = "conflicted", !.theirs = w.current])
           /\ Accepts(e, w.current)
  <2>1. OnlyEditor(e)
    BY <1>1, <1>5 DEF OnlyEditor, CleanInv, Become, Accepts
  <2>2. /\ EditorFields \subseteq DOMAIN editor'[e] /\ editor'[e].theirs = w.current
        /\ editor'[e].ui = "conflicted" /\ accepted'[e] = accepted[e] \cup {w.current}
    BY <1>2, <1>5 DEF Become, Accepts, CleanInv, EditorFields
  <2> QED
    BY <1>3, <2>1, <2>2
<1>6. CASE Become(e, [editor[e] EXCEPT !.ui = "dirty"]) /\ UNCHANGED fileHistory
  <2>1. OnlyEditor(e)
    BY <1>1, <1>6 DEF OnlyEditor, CleanInv, Become, fileHistory
  <2>2. EditorFields \subseteq DOMAIN editor'[e] /\ editor'[e].ui = "dirty"
    BY <1>2, <1>6 DEF Become, CleanInv, EditorFields
  <2> QED
    BY <1>3, <2>1, <2>2
<1> QED
  BY <1>4, <1>5, <1>6 DEF SaveReturns

(* The other steps of an editor.                                                  *)
LEMMA EditsClean ==
    ASSUME CleanInv, NEW e \in Editors, SaveNow(e) \/ ResolveKeepMine(e) \/ ResolveTakeTheirs(e) \/ SaveLost(e)
    PROVE  CleanInv'
<1>1. CASE SaveNow(e) \/ ResolveKeepMine(e)
  BY <1>1, SendsClean DEF SaveNow, ResolveKeepMine, Ui, fileHistory
<1>2. EditorFields \subseteq DOMAIN editor[e]
  BY DEF CleanInv, ShownAs
<1>3. CASE ResolveTakeTheirs(e)
  <2>1. /\ editor[e].ui = "conflicted" /\ UNCHANGED <<write, loading, waits, accepted>>
        /\ editor' = [editor EXCEPT ![e] = [editor[e] EXCEPT !.ui = "clean", !.text = editor[e].theirs,
                                                             !.base = editor[e].theirs]]
    BY <1>3 DEF ResolveTakeTheirs, Ui, Become, host, fileHistory
  <2>2. OnlyEditor(e)
    BY <2>1 DEF OnlyEditor, CleanInv
  <2>3. /\ EditorFields \subseteq DOMAIN editor'[e] /\ editor'[e].ui = "clean"
        /\ editor'[e].text = editor[e].theirs
    BY <1>2, <2>1 DEF CleanInv, EditorFields
  <2>4. waits[e] = None /\ loading[e].at = "idle" /\ editor[e].theirs \in accepted[e]
    BY <2>1 DEF CleanInv, ShownAs
  <2>5. ShownAs(e)'
    BY <2>1, <2>3, <2>4 DEF ShownAs
  <2> QED
    BY <2>2, <2>5, OthersShow
<1>4. CASE SaveLost(e)
  <2>1. /\ waits[e] # None /\ waits' = [waits EXCEPT ![e] = None]
        /\ editor' = [editor EXCEPT ![e] = [editor[e] EXCEPT !.ui = "offline"]]
        /\ UNCHANGED <<write, loading, accepted>>
    BY <1>4 DEF SaveLost, Become, host, fileHistory
  <2>2. OnlyEditor(e)
    BY <2>1 DEF OnlyEditor, CleanInv
  <2>3. EditorFields \subseteq DOMAIN editor'[e] /\ editor'[e].ui = "offline" /\ waits'[e] = None
    BY <1>2, <2>1 DEF CleanInv, EditorFields
  <2>4. loading[e].at = "idle"
    BY <2>1 DEF CleanInv, ShownAs
  <2>5. ShownAs(e)'
    BY <2>1, <2>3, <2>4 DEF ShownAs
  <2> QED
    BY <2>2, <2>5, OthersShow
<1> QED
  BY <1>1, <1>3, <1>4

(* The host changes no text that was sent.                                        *)
LEMMA HostClean ==
    ASSUME CleanInv, NEW w \in Writes, WriteFile(w)
    PROVE  CleanInv'
<1>1. UNCHANGED <<editor, loading, waits, accepted>>
  BY DEF WriteFile, CompareRevision, Truncate, Fill, fileHistory
<1>2. /\ write[w].at \in {"sent", "matched", "emptied"}
      /\ \/ \E label : label \in {"matched", "emptied", "written", "rejected"}
                       /\ write' = [write EXCEPT ![w].at = label]
         \/ \E by, current : write' = [write EXCEPT ![w] = [at |-> "stale", by |-> by, current |-> current]]
  BY DEF WriteFile, CompareRevision, Truncate, Fill, Answered
<1>3. DOMAIN write' = Writes /\ \A v \in Writes : HasText(write'[v])
  BY <1>2 DEF CleanInv, HasText
<1>4. ASSUME NEW e \in Editors PROVE ShownAs(e)'
  <2>1. \A v \in Writes \ {w} : write'[v] = write[v]
    BY <1>2 DEF CleanInv
  <2>2. write'[w].at # "idle" /\ (write'[w].at # "stale" => write'[w].text = write[w].text)
    <3>1. w \in DOMAIN write /\ "at" \in DOMAIN write[w] /\ "text" \in DOMAIN write[w]
      BY <1>2 DEF CleanInv, HasText
    <3>2. ASSUME NEW label, label # "idle", write' = [write EXCEPT ![w].at = label]
          PROVE  write'[w].at # "idle" /\ write'[w].text = write[w].text
      BY <3>1, <3>2
    <3>3. ASSUME NEW by, NEW current,
                 write' = [write EXCEPT ![w] = [at |-> "stale", by |-> by, current |-> current]]
          PROVE  write'[w].at = "stale"
      BY <3>1, <3>3
    <3> QED
      BY <1>2, <3>2, <3>3
  <2> QED
    BY <1>1, <1>2, <2>1, <2>2 DEF ShownAs, CleanInv
<1> QED
  BY <1>1, <1>3, <1>4 DEF CleanInv

(* Every step keeps it.                                                           *)
LEMMA CleanStep == CleanInv /\ [FileEditsNext]_fileEditsVars => CleanInv'
<1> SUFFICES ASSUME CleanInv, [FileEditsNext]_fileEditsVars PROVE CleanInv'
  OBVIOUS
<1>1. ASSUME NEW e \in Editors, EditorStep(e) PROVE CleanInv'
  BY <1>1, LoadsClean, TypesClean, EditsClean, ReturnsClean DEF EditorStep
<1>2. ASSUME NEW k \in FileChunks, AgentEdits(k) PROVE CleanInv'
  BY <1>2 DEF AgentEdits, fileHistory, CleanInv, ShownAs
<1>3. CASE UNCHANGED fileEditsVars
  BY <1>3 DEF fileEditsVars, host, fileHistory, CleanInv, ShownAs
<1> QED
  BY <1>1, <1>2, <1>3, HostClean DEF FileEditsNext

(* A document shown as saved holds what the host sent or acknowledged, whatever   *)
(* was typed meanwhile and whichever answers were lost.                           *)
THEOREM CleanKept == FileEditsSpec => []CleanIsSaved
<1>1. FileEditsInit => CleanInv
  <2> SUFFICES ASSUME FileEditsInit PROVE CleanInv
    OBVIOUS
  <2>1. ASSUME NEW e \in Editors PROVE ShownAs(e)
    BY <2>1 DEF FileEditsInit, ShownAs, Closed, NotLoading, EditorFields
  <2> QED
    BY <2>1 DEF FileEditsInit, CleanInv, NotSent, HasText
<1>2. CleanInv => CleanIsSaved
  BY DEF CleanInv, ShownAs, CleanIsSaved, Ui
<1> QED
  BY <1>1, <1>2, CleanStep, PTL DEF FileEditsSpec

-------------------------------------------------------------------------------
(* The types, without any assumption either.  An editor shows that it loads while *)
(* it reads, that it saves while it waits, and it waits for a write of its own.   *)
EditorTypes(e) ==
    /\ editor[e].ui = "loading" <=> loading[e].at # "idle"
    /\ editor[e].ui = "saving" <=> waits[e] # None
    /\ loading[e].at = "range" => loading[e].revision # None
    /\ waits[e] # None => write[waits[e]].at # "idle" /\ write[waits[e]].by = e

FileTypes ==
    /\ onDisk \in Files
    /\ locked \in Writes \cup {None}
    /\ write \in [Writes -> {NotSent} \cup Sent \cup Stale]
    /\ editor \in [Editors -> EditorStates]
    /\ loading \in [Editors -> {NotLoading} \cup Reads]
    /\ waits \in [Editors -> Writes \cup {None}]
    /\ edits \in 0 .. MaxEdits
    /\ \A w \in Writes : write[w].at \in {"matched", "emptied"} <=> locked = w
    /\ \A e \in Editors : EditorTypes(e)

(* One editor moves, and sends nothing.                                           *)
LEMMA EditorKeepsTypes ==
    ASSUME FileTypes, NEW e \in Editors, UNCHANGED host,
           NEW changed \in EditorStates, editor' = [editor EXCEPT ![e] = changed],
           NEW l \in {NotLoading} \cup Reads, loading' = [loading EXCEPT ![e] = l],
           NEW v \in {None, waits[e]}, waits' = [waits EXCEPT ![e] = v],
           edits' \in 0 .. MaxEdits,
           changed.ui = "loading" <=> l.at # "idle",
           changed.ui = "saving" <=> v # None,
           l.at = "range" => l.revision # None
    PROVE  FileTypes'
<1>1. /\ onDisk' = onDisk /\ locked' = locked /\ write' = write
      /\ editor' \in [Editors -> EditorStates] /\ editor'[e] = changed
      /\ loading' \in [Editors -> {NotLoading} \cup Reads] /\ loading'[e] = l
      /\ waits' \in [Editors -> Writes \cup {None}] /\ waits'[e] = v
      /\ \A d \in Editors \ {e} :
            editor'[d] = editor[d] /\ loading'[d] = loading[d] /\ waits'[d] = waits[d]
  BY DEF FileTypes, host
<1>2. \A d \in Editors : EditorTypes(d)'
  <2>1. \A d \in Editors \ {e} : EditorTypes(d)'
    BY <1>1 DEF FileTypes, EditorTypes
  <2>2. EditorTypes(e)'
    BY <1>1 DEF FileTypes, EditorTypes
  <2> QED
    BY <2>1, <2>2
<1> QED
  BY <1>1, <1>2 DEF FileTypes

(* What an editor, its read and its wait are when they do not change.             *)
LEMMA EditorStays ==
    ASSUME FileTypes, NEW e \in Editors
    PROVE  /\ editor[e] \in EditorStates /\ editor = [editor EXCEPT ![e] = editor[e]]
           /\ loading[e] \in {NotLoading} \cup Reads /\ loading = [loading EXCEPT ![e] = loading[e]]
           /\ waits[e] \in Writes \cup {None} /\ waits = [waits EXCEPT ![e] = waits[e]]
           /\ EditorTypes(e) /\ edits \in 0 .. MaxEdits /\ onDisk \in Files /\ onDisk # None
BY Parameters DEF FileTypes

(* The steps of a load, with reads that may be torn.                              *)
LEMMA LoadsKeepTypes ==
    ASSUME FileTypes, NEW e \in Editors,
           OpenDocument(e) \/ StatFile(e) \/ HashFile(e) \/ ReadRange(e) \/ LoadFails(e)
    PROVE  FileTypes'
<1>1. /\ editor[e] \in EditorStates /\ editor = [editor EXCEPT ![e] = editor[e]]
      /\ loading[e] \in {NotLoading} \cup Reads
      /\ waits[e] \in Writes \cup {None} /\ waits = [waits EXCEPT ![e] = waits[e]]
      /\ EditorTypes(e) /\ edits \in 0 .. MaxEdits /\ onDisk \in Files /\ onDisk # None
  BY EditorStays
<1>2. loading[e].at # "idle" => loading[e] \in Reads /\ waits[e] = None /\ editor[e].ui = "loading"
  BY <1>1 DEF EditorTypes, NotLoading
<1>3. UNCHANGED <<host, waits, edits>>
  BY DEF OpenDocument, StatFile, HashFile, ReadRange, LoadFails
<1>4. \A u \in Uis : [Closed EXCEPT !.ui = u] \in EditorStates /\ [Closed EXCEPT !.ui = u].ui = u
  BY ClosedSafe DEF Closed
<1>5. CASE OpenDocument(e)
  <2> DEFINE r == [at |-> "stat", chunk |-> FirstChunk, size |-> Blank, revision |-> None, got |-> Blank]
             c == [Closed EXCEPT !.ui = "loading"]
  <2>1. r \in Reads /\ r.at = "stat"
    BY BlankFile, Parameters DEF Reads
  <2>2. waits[e] = None
    BY <1>1, <1>5 DEF OpenDocument, Ui, EditorTypes
  <2>3. c \in EditorStates /\ c.ui = "loading"
    BY <1>4 DEF Uis
  <2>4. editor' = [editor EXCEPT ![e] = c] /\ loading' = [loading EXCEPT ![e] = r]
    BY <1>5 DEF OpenDocument, Become
  <2> HIDE DEF r, c
  <2> QED
    BY <1>1, <1>3, <2>1, <2>2, <2>3, <2>4, EditorKeepsTypes
<1>6. ASSUME loading[e].at # "idle", Unavailable(e) PROVE FileTypes'
  <2> DEFINE c == [Closed EXCEPT !.ui = "unavailable"]
  <2>1. c \in EditorStates /\ c.ui = "unavailable"
    BY <1>4 DEF Uis
  <2>2. editor' = [editor EXCEPT ![e] = c] /\ loading' = [loading EXCEPT ![e] = NotLoading]
    BY <1>6 DEF Unavailable, Become
  <2>3. NotLoading.at = "idle" /\ waits[e] = None
    BY <1>2, <1>6 DEF NotLoading
  <2> HIDE DEF c
  <2> QED
    BY <1>1, <1>3, <2>1, <2>2, <2>3, EditorKeepsTypes
<1>7. ASSUME loading[e].at # "idle", NEW r \in Reads, loading' = [loading EXCEPT ![e] = r],
             r.at = "range" => r.revision # None, UNCHANGED editor
      PROVE  FileTypes'
  <2>1. r.at # "idle" /\ editor[e].ui = "loading" /\ waits[e] = None
    BY <1>2, <1>7 DEF Reads
  <2> QED
    BY <1>1, <1>3, <1>7, <2>1, EditorKeepsTypes
<1>8. ASSUME loading[e].at = "range", NEW text \in Files, Loaded(e, text) PROVE FileTypes'
  <2> DEFINE c == [Closed EXCEPT !.ui = "clean", !.text = text, !.base = loading[e].revision]
  <2>1. loading[e].revision \in Files
    BY <1>1, <1>2, <1>8 DEF EditorTypes, Reads
  <2>2. c \in EditorStates /\ c.ui = "clean"
    BY <1>8, <2>1, BlankFile DEF Closed, EditorStates, Uis
  <2>3. editor' = [editor EXCEPT ![e] = c] /\ loading' = [loading EXCEPT ![e] = NotLoading]
    BY <1>8 DEF Loaded, Become
  <2>4. NotLoading.at = "idle" /\ waits[e] = None
    BY <1>2, <1>8 DEF NotLoading
  <2> HIDE DEF c
  <2> QED
    BY <1>1, <1>3, <2>2, <2>3, <2>4, EditorKeepsTypes
<1>9. CASE StatFile(e)
  <2> DEFINE r == [loading[e] EXCEPT !.at = "hash", !.size = onDisk]
  <2>1. loading[e].at = "stat" /\ r \in Reads /\ r.at = "hash"
    BY <1>1, <1>2, <1>9 DEF StatFile, Reads
  <2>2. loading' = [loading EXCEPT ![e] = r] /\ UNCHANGED editor
    BY <1>9 DEF StatFile
  <2> QED
    BY <1>7, <2>1, <2>2
<1>10. CASE HashFile(e)
  <2>1. loading[e].at = "hash"
    BY <1>10 DEF HashFile
  <2>2. CASE ~Unavailable(e)
    <3> DEFINE r == [loading[e] EXCEPT !.at = "range", !.revision = onDisk]
    <3>1. r \in Reads /\ r.revision # None
      BY <1>1, <1>2, <2>1 DEF Reads
    <3>2. loading' = [loading EXCEPT ![e] = r] /\ UNCHANGED editor
      BY <1>10, <2>2 DEF HashFile
    <3> QED
      BY <1>7, <2>1, <3>1, <3>2
  <2> QED
    BY <1>6, <2>1, <2>2
<1>11. CASE ReadRange(e)
  <2> DEFINE k == loading[e].chunk
             got == [loading[e].got EXCEPT ![k] = onDisk[k]]
  <2>1. loading[e].at = "range" /\ loading[e] \in Reads
    BY <1>2, <1>11 DEF ReadRange
  <2>2. /\ k \in FileChunks /\ loading[e].size \in Files /\ loading[e].got \in Files
    BY <2>1 DEF Reads
  <2>3. got \in Files
    BY <1>1, <2>2 DEF Files
  <2>4. ASSUME ~Beyond(loading[e].size, k + 1) PROVE k + 1 \in FileChunks
    <3>1. ASSUME NEW j \in FileChunks, j >= k + 1 PROVE k + 1 \in FileChunks
      <4>1. k \in Nat \ {0} /\ j \in Nat /\ 1 .. j \subseteq FileChunks
        BY <2>2, Parameters
      <4>2. k + 1 \in 1 .. j
        BY <3>1, <4>1
      <4> QED
        BY <4>1, <4>2
    <3> QED
      BY <2>4, <3>1 DEF Beyond
  <2>5. CASE Loaded(e, loading[e].got) \/ Loaded(e, got)
    BY <1>8, <2>1, <2>2, <2>3, <2>5
  <2>6. CASE /\ ~Beyond(loading[e].size, k + 1)
             /\ loading' = [loading EXCEPT ![e] = [@ EXCEPT !.at = "stat", !.chunk = k + 1, !.got = got]]
             /\ UNCHANGED editor
    <3> DEFINE r == [loading[e] EXCEPT !.at = "stat", !.chunk = k + 1, !.got = got]
    <3>1. k + 1 \in FileChunks
      BY <2>4, <2>6
    <3>2. r \in Reads /\ r.at = "stat"
      BY <2>1, <2>3, <3>1 DEF Reads
    <3>3. loading' = [loading EXCEPT ![e] = r]
      BY <2>6
    <3> QED
      BY <1>7, <2>1, <2>6, <3>2, <3>3
  <2> QED
    BY <1>11, <2>5, <2>6 DEF ReadRange
<1>12. CASE LoadFails(e)
  BY <1>6, <1>12 DEF LoadFails
<1> QED
  BY <1>5, <1>9, <1>10, <1>11, <1>12

(* Typing, resolving a conflict, and the end of a save.                           *)
LEMMA EditsKeepTypes ==
    ASSUME FileTypes, NEW e \in Editors,
           \/ \E k \in FileChunks : TypeEdit(e, k)
           \/ ResolveTakeTheirs(e) \/ SaveLost(e) \/ SaveReturns(e)
    PROVE  FileTypes'
<1>1. /\ editor[e] \in EditorStates
      /\ loading[e] \in {NotLoading} \cup Reads /\ loading = [loading EXCEPT ![e] = loading[e]]
      /\ waits[e] \in Writes \cup {None} /\ waits = [waits EXCEPT ![e] = waits[e]]
      /\ EditorTypes(e) /\ edits \in 0 .. MaxEdits
  BY EditorStays
<1>2. UNCHANGED <<host, loading>>
  BY DEF TypeEdit, ResolveTakeTheirs, SaveLost, SaveReturns
<1>3. ASSUME NEW c \in EditorStates, Become(e, c), editor[e].ui # "loading", c.ui # "loading",
             NEW v \in {None, waits[e]}, waits' = [waits EXCEPT ![e] = v],
             c.ui = "saving" <=> v # None, edits' \in 0 .. MaxEdits
      PROVE  FileTypes'
  <2>1. loading[e].at = "idle" /\ editor' = [editor EXCEPT ![e] = c]
    BY <1>1, <1>3 DEF EditorTypes, Become
  <2> QED
    BY <1>1, <1>2, <1>3, <2>1, EditorKeepsTypes
<1>4. ASSUME NEW k \in FileChunks, TypeEdit(e, k) PROVE FileTypes'
  <2> DEFINE text == Add(editor[e].text, k, edits + 1)
             c == [editor[e] EXCEPT !.text = text,
                      !.ui = IF @ \in {"saving", "conflicted"} THEN @ ELSE "dirty",
                      !.more = @ \/ Ui(e, {"saving"})]
  <2>1. /\ edits < MaxEdits /\ edits' = edits + 1 /\ UNCHANGED waits
        /\ editor[e].ui \in {"clean", "dirty", "saving", "conflicted", "offline"}
    BY <1>4 DEF TypeEdit, NextEdit, Ui
  <2>2. edits' \in 0 .. MaxEdits /\ edits + 1 \in Edits
    BY <1>1, <2>1, Parameters DEF Edits
  <2>3. editor[e].text \in Files
    BY <1>1 DEF EditorStates
  <2>4. text \in Files
    BY <2>2, <2>3, AddedFile
  <2>5. c \in EditorStates
    BY <1>1, <2>4 DEF EditorStates, Uis, Ui
  <2>6. c.ui = IF editor[e].ui \in {"saving", "conflicted"} THEN editor[e].ui ELSE "dirty"
    BY <1>1 DEF EditorStates
  <2>7. Become(e, c)
    BY <1>4 DEF TypeEdit
  <2> HIDE DEF c
  <2> QED
    BY <1>1, <1>3, <2>1, <2>2, <2>5, <2>6, <2>7 DEF EditorTypes
<1>5. CASE ResolveTakeTheirs(e)
  <2> DEFINE c == [editor[e] EXCEPT !.ui = "clean", !.text = editor[e].theirs, !.base = editor[e].theirs]
  <2>1. c \in EditorStates /\ c.ui = "clean"
    BY <1>1 DEF EditorStates, Uis
  <2>2. Become(e, c) /\ UNCHANGED <<waits, edits>> /\ editor[e].ui = "conflicted"
    BY <1>5 DEF ResolveTakeTheirs, Ui
  <2> HIDE DEF c
  <2> QED
    BY <1>1, <1>3, <2>1, <2>2 DEF EditorTypes
<1>6. ASSUME waits[e] # None, waits' = [waits EXCEPT ![e] = None], UNCHANGED edits,
             NEW c \in EditorStates, Become(e, c), c.ui \notin {"loading", "saving"}
      PROVE  FileTypes'
  <2>1. editor[e].ui = "saving"
    BY <1>1, <1>6 DEF EditorTypes
  <2> QED
    BY <1>1, <1>3, <1>6, <2>1
<1>7. CASE SaveLost(e)
  <2> DEFINE c == [editor[e] EXCEPT !.ui = "offline"]
  <2>1. c \in EditorStates /\ c.ui = "offline"
    BY <1>1 DEF EditorStates, Uis
  <2>2. Become(e, c) /\ waits[e] # None /\ waits' = [waits EXCEPT ![e] = None] /\ UNCHANGED edits
    BY <1>7 DEF SaveLost
  <2> QED
    BY <1>6, <2>1, <2>2
<1>8. CASE SaveReturns(e)
  <2> DEFINE w == write[waits[e]]
  <2>1. waits[e] # None /\ waits' = [waits EXCEPT ![e] = None] /\ UNCHANGED edits
    BY <1>8 DEF SaveReturns
  <2>2. w \in {NotSent} \cup Sent \cup Stale
    BY <1>1, <2>1 DEF FileTypes
  <2>3. CASE /\ w.at = "written"
             /\ Become(e, [editor[e] EXCEPT !.ui = IF editor[e].more THEN "dirty" ELSE "clean",
                                            !.base = w.text, !.more = FALSE])
    <3> DEFINE c == [editor[e] EXCEPT !.ui = IF editor[e].more THEN "dirty" ELSE "clean",
                                      !.base = w.text, !.more = FALSE]
    <3>1. w.text \in Files
      BY <2>2, <2>3 DEF NotSent, Sent, Stale
    <3>2. c \in EditorStates /\ c.ui \in {"dirty", "clean"}
      BY <1>1, <3>1 DEF EditorStates, Uis
    <3> QED
      BY <1>6, <2>1, <2>3, <3>2
  <2>4. CASE w.at = "stale" /\ Become(e, [editor[e] EXCEPT !.ui = "conflicted", !.theirs = w.current])
    <3> DEFINE c == [editor[e] EXCEPT !.ui = "conflicted", !.theirs = w.current]
    <3>1. w.current \in Files
      BY <2>2, <2>4 DEF NotSent, Sent, Stale
    <3>2. c \in EditorStates /\ c.ui = "conflicted"
      BY <1>1, <3>1 DEF EditorStates, Uis
    <3> QED
      BY <1>6, <2>1, <2>4, <3>2
  <2>5. CASE Become(e, [editor[e] EXCEPT !.ui = "dirty"])
    <3> DEFINE c == [editor[e] EXCEPT !.ui = "dirty"]
    <3>1. c \in EditorStates /\ c.ui = "dirty"
      BY <1>1 DEF EditorStates, Uis
    <3> QED
      BY <1>6, <2>1, <2>5, <3>1
  <2> QED
    BY <1>8, <2>3, <2>4, <2>5 DEF SaveReturns
<1> QED
  BY <1>4, <1>5, <1>7, <1>8

(* A write that was not sent is waited for by nobody.                             *)
LEMMA SendsKeepTypes ==
    ASSUME FileTypes, NEW e \in Editors, SaveNow(e) \/ ResolveKeepMine(e)
    PROVE  FileTypes'
<1>1. /\ editor[e] \in EditorStates /\ EditorTypes(e)
      /\ editor[e].ui \in {"dirty", "offline", "conflicted"}
      /\ UNCHANGED <<onDisk, locked, loading, edits>>
  BY EditorStays DEF SaveNow, ResolveKeepMine, Ui
<1>2. PICK base \in Files : SendWrite(e, base)
  BY <1>1 DEF SaveNow, ResolveKeepMine, EditorStates
<1> DEFINE s == [at |-> "sent", by |-> e, base |-> base, text |-> editor[e].text]
           c == [editor[e] EXCEPT !.ui = "saving", !.base = base, !.more = FALSE]
<1>3. PICK w \in Writes : /\ write[w].at = "idle" /\ write' = [write EXCEPT ![w] = s]
                          /\ waits' = [waits EXCEPT ![e] = w] /\ editor' = [editor EXCEPT ![e] = c]
  BY <1>2 DEF SendWrite, Become
<1>4. s \in Sent /\ s.at = "sent" /\ s.by = e
  BY <1>1 DEF EditorStates, Sent
<1>5. c \in EditorStates /\ c.ui = "saving" /\ loading[e].at = "idle"
  BY <1>1 DEF EditorStates, Uis, EditorTypes
<1> HIDE DEF s, c
<1>6. /\ write' \in [Writes -> {NotSent} \cup Sent \cup Stale] /\ write'[w] = s
      /\ \A v \in Writes \ {w} : write'[v] = write[v]
      /\ editor' \in [Editors -> EditorStates] /\ editor'[e] = c
      /\ waits' \in [Editors -> Writes \cup {None}] /\ waits'[e] = w
      /\ \A d \in Editors \ {e} : editor'[d] = editor[d] /\ waits'[d] = waits[d]
  BY <1>3, <1>4, <1>5 DEF FileTypes
<1>7. \A v \in Writes : write'[v].at \in {"matched", "emptied"} <=> locked' = v
  BY <1>1, <1>3, <1>4, <1>6 DEF FileTypes
<1>8. ASSUME NEW d \in Editors PROVE EditorTypes(d)'
  <2>1. CASE d = e
    BY <1>1, <1>4, <1>5, <1>6, <2>1, Parameters DEF EditorTypes
  <2>2. CASE d # e
    <3>1. EditorTypes(d) /\ editor'[d] = editor[d] /\ waits'[d] = waits[d] /\ loading'[d] = loading[d]
      BY <1>1, <1>6, <2>2 DEF FileTypes
    <3>2. waits[d] # None => waits[d] \in Writes \ {w}
      BY <1>3, <3>1 DEF EditorTypes, FileTypes
    <3> QED
      BY <1>6, <3>1, <3>2 DEF EditorTypes
  <2> QED
    BY <2>1, <2>2
<1> QED
  BY <1>1, <1>6, <1>7, <1>8 DEF FileTypes

(* The host takes a write, under the lock, to its answer.                         *)
LEMMA WritesKeepTypes ==
    ASSUME FileTypes, NEW w \in Writes, WriteFile(w)
    PROVE  FileTypes'
<1>1. write[w].at \in {"sent", "matched", "emptied"} /\ UNCHANGED <<editor, loading, waits, edits>>
  BY DEF WriteFile, CompareRevision, Truncate, Fill
<1>2. write[w] \in Sent /\ write[w].by \in Editors /\ onDisk \in Files
  BY <1>1 DEF FileTypes, NotSent, Stale, Sent
<1>3. ASSUME NEW x \in Sent \cup Stale, write' = [write EXCEPT ![w] = x], x.by = write[w].by,
             onDisk' \in Files, locked' \in {locked, w, None},
             x.at \in {"matched", "emptied"} <=> locked' = w,
             \A v \in Writes \ {w} : locked = v <=> locked' = v
      PROVE  FileTypes'
  <2>1. /\ write' \in [Writes -> {NotSent} \cup Sent \cup Stale] /\ write'[w] = x
        /\ \A v \in Writes \ {w} : write'[v] = write[v]
    BY <1>3 DEF FileTypes
  <2>2. locked' \in Writes \cup {None}
    BY <1>3 DEF FileTypes
  <2>3. x.at # "idle"
    BY <1>3 DEF Sent, Stale
  <2>4. ASSUME NEW d \in Editors PROVE EditorTypes(d)'
    BY <1>1, <1>3, <2>1, <2>3 DEF FileTypes, EditorTypes
  <2>5. \A v \in Writes : write'[v].at \in {"matched", "emptied"} <=> locked' = v
    BY <1>3, <2>1 DEF FileTypes
  <2> QED
    BY <1>1, <1>3, <2>1, <2>2, <2>4, <2>5 DEF FileTypes
<1>4. \A v \in Writes : write[v].at \in {"matched", "emptied"} <=> locked = v
  BY DEF FileTypes
<1>5. None \notin Writes
  BY Parameters
<1>6. ASSUME NEW label \in {"matched", "emptied", "written", "rejected"}, Answered(w, label)
      PROVE  \E x \in Sent : /\ write' = [write EXCEPT ![w] = x] /\ x.by = write[w].by /\ x.at = label
  <2> DEFINE x == [write[w] EXCEPT !.at = label]
  <2>1. x \in Sent /\ x.by = write[w].by /\ x.at = label
    BY <1>2 DEF Sent
  <2>2. write' = [write EXCEPT ![w] = x]
    BY <1>6 DEF Answered
  <2> QED
    BY <2>1, <2>2
<1>7. CASE CompareRevision(w)
  <2>1. locked = None /\ onDisk' = onDisk
    BY <1>7 DEF CompareRevision, PathFree
  <2>2. CASE locked' = w /\ Answered(w, "matched")
    BY <1>2, <1>3, <1>5, <1>6, <2>1, <2>2
  <2>3. CASE /\ write' = [write EXCEPT ![w] = [at |-> "stale", by |-> @.by, current |-> onDisk]]
             /\ UNCHANGED locked
    <3> DEFINE x == [at |-> "stale", by |-> write[w].by, current |-> onDisk]
    <3>1. x \in Stale /\ x.by = write[w].by /\ x.at = "stale" /\ write' = [write EXCEPT ![w] = x]
      BY <1>2, <2>3 DEF Stale
    <3> HIDE DEF x
    <3> QED
      BY <1>2, <1>3, <1>5, <2>1, <2>3, <3>1
  <2> QED
    BY <1>7, <2>2, <2>3 DEF CompareRevision
<1>8. CASE Truncate(w)
  <2>1. locked = w
    BY <1>4, <1>8 DEF Truncate
  <2>2. CASE onDisk' = Blank /\ Answered(w, "emptied") /\ UNCHANGED locked
    BY <1>3, <1>6, <2>1, <2>2, BlankFile
  <2>3. CASE Answered(w, "rejected") /\ locked' = None /\ UNCHANGED onDisk
    BY <1>2, <1>3, <1>5, <1>6, <2>1, <2>3
  <2> QED
    BY <1>8, <2>2, <2>3 DEF Truncate
<1>9. CASE Fill(w)
  <2>1. locked = w /\ locked' = None /\ write[w].text \in Files
    BY <1>2, <1>4, <1>9 DEF Fill, Sent
  <2>2. onDisk' \in Files
    BY <1>9, <2>1 DEF Fill, Files
  <2>3. Answered(w, "written") \/ Answered(w, "rejected")
    BY <1>9 DEF Fill
  <2> QED
    BY <1>3, <1>5, <1>6, <2>1, <2>2, <2>3
<1> QED
  BY <1>7, <1>8, <1>9 DEF WriteFile

(* Every step keeps the types.                                                    *)
LEMMA FileTypesStep == FileTypes /\ [FileEditsNext]_fileEditsVars => FileTypes'
<1> SUFFICES ASSUME FileTypes, [FileEditsNext]_fileEditsVars PROVE FileTypes'
  OBVIOUS
<1>1. ASSUME NEW e \in Editors, EditorStep(e) PROVE FileTypes'
  BY <1>1, LoadsKeepTypes, EditsKeepTypes, SendsKeepTypes DEF EditorStep
<1>2. ASSUME NEW k \in FileChunks, AgentEdits(k) PROVE FileTypes'
  <2>1. edits' = edits + 1 /\ edits < MaxEdits /\ onDisk' = Add(onDisk, k, edits + 1)
    BY <1>2 DEF AgentEdits, NextEdit
  <2>2. edits' \in 0 .. MaxEdits /\ edits + 1 \in Edits
    BY <2>1, Parameters DEF FileTypes, Edits
  <2>3. onDisk' \in Files
    BY <2>1, <2>2, AddedFile DEF FileTypes
  <2> QED
    BY <1>2, <2>2, <2>3 DEF AgentEdits, FileTypes, EditorTypes
<1>3. CASE UNCHANGED fileEditsVars
  BY <1>3 DEF fileEditsVars, host, FileTypes, EditorTypes
<1> QED
  BY <1>1, <1>2, <1>3, WritesKeepTypes DEF FileEditsNext

(* The file, the lock, the writes and the editors keep their types, and agree on  *)
(* who loads, who saves and who holds the lock.                                   *)
THEOREM FileEditsTypeCorrect == FileEditsSpec => []FileEditsTypeOK
<1>1. FileEditsInit => FileTypes
  <2> SUFFICES ASSUME FileEditsInit PROVE FileTypes
    OBVIOUS
  <2>1. Closed \in EditorStates /\ Closed.ui = "closed"
    BY BlankFile DEF Closed, EditorStates, Uis
  <2>2. NotSent.at = "idle" /\ NotLoading.at = "idle"
    BY DEF NotSent, NotLoading
  <2>3. \A e \in Editors : EditorTypes(e)
    BY <2>1, <2>2 DEF FileEditsInit, EditorTypes
  <2> QED
    BY <2>1, <2>2, <2>3, BlankFile, Parameters DEF FileEditsInit, FileTypes
<1>2. FileTypes => FileEditsTypeOK
  <2> SUFFICES ASSUME FileTypes PROVE FileEditsTypeOK
    OBVIOUS
  <2>1. ASSUME NEW w \in Writes
        PROVE  /\ write[w].at \in {"idle", "sent", "matched", "emptied", "written", "stale", "rejected"}
               /\ write[w].at \notin {"idle", "stale"} => write[w].base \in Files /\ write[w].text \in Files
               /\ write[w].at = "stale" => write[w].current \in Files
    BY DEF FileTypes, NotSent, Sent, Stale
  <2>2. editor \in [Editors -> [ui : Uis, text : Files, base : Files, theirs : Files, more : BOOLEAN]]
    BY DEF FileTypes, EditorStates
  <2>3. \A w \in Writes : locked = w <=> write[w].at \in {"matched", "emptied"}
    BY DEF FileTypes
  <2>4. \A e \in Editors : /\ Ui(e, {"loading"}) <=> loading[e].at # "idle"
                           /\ Ui(e, {"saving"}) <=> waits[e] # None
                           /\ waits[e] # None => write[waits[e]].by = e
    BY DEF FileTypes, EditorTypes, Ui
  <2> QED
    BY <2>1, <2>2, <2>3, <2>4 DEF FileTypes, FileEditsTypeOK, Uis
<1> QED
  BY <1>1, <1>2, FileTypesStep, PTL DEF FileEditsSpec
===============================================================================
