------------------------------- MODULE FileEdits -------------------------------
(* One file of a workspace, the editors that have it open on phones and the    *)
(* agents and tools that write it directly: read_file_range and write_file of  *)
(* fs_ops.rs, open_document, read_whole_file and save_document of engine.rs,   *)
(* the save states of SourceEditorViewModel.kt.                                *)
(*                                                                             *)
(* A file is read in chunks; what matters of a chunk is the set of edits it    *)
(* holds.  A revision is the hash of the whole file, so it is the content.  A  *)
(* write goes on at the host whether or not its phone still waits for it.      *)
EXTENDS HostState

CONSTANTS
    Editors, FileChunks, MaxEdits, MaxWrites,
    AgentRaces,     \* agents write between the comparison and the write of a save
    TornReads       \* the file changes between the three looks a read takes at it

Edits == 1 .. MaxEdits      \* numbered as they are made
Writes == 1 .. MaxWrites
Files == [FileChunks -> SUBSET Edits]
FirstChunk == 1

ASSUME FileEditsAssumption ==
    /\ FileChunks \subseteq Nat \ {0} /\ FileChunks # {}
    /\ \A k \in FileChunks : 1 .. k \subseteq FileChunks
    /\ MaxEdits \in Nat /\ MaxWrites \in Nat
    /\ AgentRaces \in BOOLEAN /\ TornReads \in BOOLEAN
    /\ None \notin Editors \cup Writes \cup Files

VARIABLES
    onDisk,
    locked,         \* the write that holds the path's lock
    write,          \* what was sent and how far the host is with it
    editor,         \* state, text, base revision, conflict, edits made meanwhile
    loading,        \* a document being fetched
    waits,          \* the write an editor waits for
    edits,          \* edits made so far
    shown, accepted \* history: edits an editor was shown, contents it got or saved

host == <<onDisk, locked, write>>
fileHistory == <<shown, accepted>>
fileEditsVars == <<host, editor, loading, waits, edits, fileHistory>>

Blank == [k \in FileChunks |-> {}]
In(file) == UNION {file[k] : k \in FileChunks}
Add(file, k, x) == [file EXCEPT ![k] = @ \cup {x}]
Beyond(file, k) == \A j \in FileChunks : j >= k => file[j] = {}    \* it ends before chunk k

Closed == [ui |-> "closed", text |-> Blank, base |-> Blank, theirs |-> Blank, more |-> FALSE]
NotSent == [at |-> "idle"]
NotLoading == [at |-> "idle"]

FileEditsInit ==
    /\ onDisk = Blank /\ locked = None
    /\ write = [w \in Writes |-> NotSent]
    /\ editor = [e \in Editors |-> Closed]
    /\ loading = [e \in Editors |-> NotLoading]
    /\ waits = [e \in Editors |-> None]
    /\ edits = 0
    /\ shown = [e \in Editors |-> {}] /\ accepted = [e \in Editors |-> {}]

Ui(e, states) == editor[e].ui \in states
Shows(e, file) == shown' = [shown EXCEPT ![e] = @ \cup In(file)]
Accepts(e, file) == accepted' = [accepted EXCEPT ![e] = @ \cup {file}]
Become(e, changed) == editor' = [editor EXCEPT ![e] = changed]

-------------------------------------------------------------------------------
(* Opening a document                                                          *)

OpenDocument(e) ==
    /\ Ui(e, {"closed", "unavailable"})
    /\ Become(e, [Closed EXCEPT !.ui = "loading"])
    /\ loading' = [loading EXCEPT ![e] = [at |-> "stat", chunk |-> FirstChunk, size |-> Blank,
                                          revision |-> None, got |-> Blank]]
    /\ UNCHANGED <<host, waits, edits, fileHistory>>

Unavailable(e) ==
    /\ Become(e, [Closed EXCEPT !.ui = "unavailable"])
    /\ loading' = [loading EXCEPT ![e] = NotLoading]
    /\ UNCHANGED fileHistory

\* A read asks for the size, hashes the file and reads the range, and takes no
\* lock.
StatFile(e) ==
    /\ loading[e].at = "stat"
    /\ TornReads \/ locked = None      \* no write is between its steps
    /\ loading' = [loading EXCEPT ![e] = [@ EXCEPT !.at = "hash", !.size = onDisk]]
    /\ UNCHANGED <<host, editor, waits, edits, fileHistory>>

\* A revision that differs from the one of the first chunk ends the load.
HashFile(e) ==
    /\ loading[e].at = "hash"
    /\ IF loading[e].revision \in {None, onDisk}
       THEN /\ loading' = [loading EXCEPT ![e].at = "range", ![e].revision = onDisk]
            /\ UNCHANGED <<editor, fileHistory>>
       ELSE Unavailable(e)
    /\ UNCHANGED <<host, waits, edits>>

Loaded(e, text) ==
    /\ Become(e, [Closed EXCEPT !.ui = "clean", !.text = text, !.base = loading[e].revision])
    /\ loading' = [loading EXCEPT ![e] = NotLoading]
    /\ Shows(e, text) /\ Accepts(e, text)

\* The range ends where the size says; a file that has got shorter is an error.
ReadRange(e) ==
    /\ loading[e].at = "range"
    /\ LET k == loading[e].chunk
           size == loading[e].size
           got == [loading[e].got EXCEPT ![k] = onDisk[k]]
       IN \/ Beyond(size, k) /\ Loaded(e, loading[e].got)
          \/ /\ ~Beyond(size, k) /\ ~Beyond(onDisk, k)
             /\ IF Beyond(size, k + 1) THEN Loaded(e, got)
                ELSE /\ loading' = [loading EXCEPT ![e] = [@ EXCEPT !.at = "stat", !.chunk = k + 1, !.got = got]]
                     /\ UNCHANGED <<editor, fileHistory>>
    /\ UNCHANGED <<host, waits, edits>>

\* The connection fails, or the file got shorter than it was.
LoadFails(e) ==
    /\ loading[e].at # "idle"
    /\ Unavailable(e)
    /\ UNCHANGED <<host, waits, edits>>

-------------------------------------------------------------------------------
(* Editing and saving                                                          *)

NextEdit == edits < MaxEdits /\ edits' = edits + 1

TypeEdit(e, k) ==
    /\ Ui(e, {"clean", "dirty", "saving", "conflicted", "offline"})
    /\ NextEdit
    /\ LET text == Add(editor[e].text, k, edits + 1)
       IN /\ Become(e, [editor[e] EXCEPT !.text = text,
                           !.ui = IF @ \in {"saving", "conflicted"} THEN @ ELSE "dirty",
                           !.more = @ \/ Ui(e, {"saving"})])
          /\ Shows(e, text)
    /\ UNCHANGED <<host, loading, waits, accepted>>

\* The text at this moment is sent against the base revision.
SendWrite(e, base) ==
    \E w \in Writes :
        /\ write[w].at = "idle" /\ \A v \in 1 .. w - 1 : write[v].at # "idle"
        /\ write' = [write EXCEPT ![w] = [at |-> "sent", by |-> e, base |-> base, text |-> editor[e].text]]
        /\ waits' = [waits EXCEPT ![e] = w]
        /\ Become(e, [editor[e] EXCEPT !.ui = "saving", !.base = base, !.more = FALSE])

\* The debounce has run out, or the user retries.
SaveNow(e) ==
    /\ Ui(e, {"dirty", "offline"})
    /\ SendWrite(e, editor[e].base)
    /\ UNCHANGED <<onDisk, locked, loading, edits, fileHistory>>

ResolveKeepMine(e) ==
    /\ Ui(e, {"conflicted"})
    /\ SendWrite(e, editor[e].theirs)
    /\ UNCHANGED <<onDisk, locked, loading, edits, fileHistory>>

ResolveTakeTheirs(e) ==
    /\ Ui(e, {"conflicted"})
    /\ Become(e, [editor[e] EXCEPT !.ui = "clean", !.text = editor[e].theirs, !.base = editor[e].theirs])
    /\ UNCHANGED <<host, loading, waits, edits, fileHistory>>

\* The answer does not get through; the write takes its course.
SaveLost(e) ==
    /\ waits[e] # None
    /\ waits' = [waits EXCEPT ![e] = None]
    /\ Become(e, [editor[e] EXCEPT !.ui = "offline"])
    /\ UNCHANGED <<host, loading, edits, fileHistory>>

\* What was typed meanwhile is not looked at.
SaveReturnsClean(e) ==
    /\ waits[e] # None
    /\ write[waits[e]].at = "written"
    /\ Become(e, [editor[e] EXCEPT !.ui = "clean", !.base = write[waits[e]].text])
    /\ waits' = [waits EXCEPT ![e] = None]
    /\ Accepts(e, write[waits[e]].text)
    /\ UNCHANGED <<host, loading, edits, shown>>

SaveReturns(e) ==
    /\ waits[e] # None
    /\ LET w == write[waits[e]]
       IN \/ /\ w.at = "written"
             /\ Become(e, [editor[e] EXCEPT !.ui = IF editor[e].more THEN "dirty" ELSE "clean",
                                            !.base = w.text, !.more = FALSE])
             /\ Accepts(e, w.text) /\ UNCHANGED shown
          \/ /\ w.at = "stale"
             /\ Become(e, [editor[e] EXCEPT !.ui = "conflicted", !.theirs = w.current])
             /\ Shows(e, w.current) /\ Accepts(e, w.current)
          \/ /\ w.at = "rejected"
             /\ Become(e, [editor[e] EXCEPT !.ui = "dirty"])
             /\ UNCHANGED fileHistory
    /\ waits' = [waits EXCEPT ![e] = None]
    /\ UNCHANGED <<host, loading, edits>>

-------------------------------------------------------------------------------
(* write_file                                                                  *)

Answered(w, label) == write' = [write EXCEPT ![w].at = label]

PathFree == locked = None
ReadsDone == TornReads \/ \A e \in Editors : loading[e].at \notin {"hash", "range"}

\* The current content is compared without the lock.
CompareUnlocked(w) ==
    /\ write[w].at = "sent"
    /\ ReadsDone
    /\ locked' = w
    /\ IF onDisk = write[w].base THEN Answered(w, "matched")
       ELSE write' = [write EXCEPT ![w] = [at |-> "stale", by |-> @.by, current |-> onDisk]]
    /\ UNCHANGED <<onDisk, editor, loading, waits, edits, fileHistory>>

\* An early return that keeps the lock.
CompareKeepingLock(w) ==
    /\ write[w].at = "sent"
    /\ PathFree /\ ReadsDone
    /\ locked' = w
    /\ IF onDisk = write[w].base THEN Answered(w, "matched")
       ELSE write' = [write EXCEPT ![w] = [at |-> "stale", by |-> @.by, current |-> onDisk]]
    /\ UNCHANGED <<onDisk, editor, loading, waits, edits, fileHistory>>

CompareRevision(w) ==
    /\ write[w].at = "sent"
    /\ PathFree /\ ReadsDone
    /\ IF onDisk = write[w].base
       THEN locked' = w /\ Answered(w, "matched")
       ELSE /\ write' = [write EXCEPT ![w] = [at |-> "stale", by |-> @.by, current |-> onDisk]]
            /\ UNCHANGED locked
    /\ UNCHANGED <<onDisk, editor, loading, waits, edits, fileHistory>>

\* fs::write empties the file before it fills it, or cannot open it.
Truncate(w) ==
    /\ write[w].at = "matched"
    /\ \/ onDisk' = Blank /\ Answered(w, "emptied") /\ UNCHANGED locked
       \/ Answered(w, "rejected") /\ locked' = None /\ UNCHANGED onDisk
    /\ UNCHANGED <<editor, loading, waits, edits, fileHistory>>

\* A full disk leaves the file empty or cut short.
Fill(w) ==
    /\ write[w].at = "emptied"
    /\ locked' = None
    /\ \/ onDisk' = write[w].text /\ Answered(w, "written")
       \/ \E k \in FileChunks :
             /\ onDisk' = [j \in FileChunks |-> IF j < k THEN write[w].text[j] ELSE {}]
             /\ Answered(w, "rejected")
    /\ UNCHANGED <<editor, loading, waits, edits, fileHistory>>

\* An agent or an editor on the laptop takes no lock.
AgentEdits(k) ==
    /\ AgentRaces \/ PathFree
    /\ ReadsDone
    /\ NextEdit
    /\ onDisk' = Add(onDisk, k, edits + 1)
    /\ UNCHANGED <<locked, write, editor, loading, waits, fileHistory>>

WriteFile(w) == CompareRevision(w) \/ Truncate(w) \/ Fill(w)

EditorStep(e) ==
    \/ OpenDocument(e) \/ StatFile(e) \/ HashFile(e) \/ ReadRange(e) \/ LoadFails(e)
    \/ SaveNow(e) \/ ResolveKeepMine(e) \/ ResolveTakeTheirs(e)
    \/ SaveLost(e) \/ SaveReturns(e)
    \/ \E k \in FileChunks : TypeEdit(e, k)

FileEditsNext ==
    \/ \E e \in Editors : EditorStep(e)
    \/ \E w \in Writes : WriteFile(w)
    \/ \E k \in FileChunks : AgentEdits(k)

FileEditsSpec == FileEditsInit /\ [][FileEditsNext]_fileEditsVars
\* A call at the host runs to its end, and its answer is taken or lost.
FileEditsFairness ==
    /\ \A w \in Writes : SF_fileEditsVars(WriteFile(w))
    /\ \A e \in Editors : WF_fileEditsVars(SaveReturns(e))
FileEditsFairSpec == FileEditsSpec /\ FileEditsFairness
-------------------------------------------------------------------------------
\* The file, the lock, the writes and the editors.
FileEditsTypeOK ==
    /\ onDisk \in Files
    /\ locked \in Writes \cup {None}
    /\ \A w \in Writes : locked = w <=> write[w].at \in {"matched", "emptied"}
    /\ \A w \in Writes :
          /\ write[w].at \in {"idle", "sent", "matched", "emptied", "written", "stale", "rejected"}
          /\ write[w].at \notin {"idle", "stale"} => write[w].base \in Files /\ write[w].text \in Files
          /\ write[w].at = "stale" => write[w].current \in Files
    /\ editor \in [Editors -> [ui : {"closed", "loading", "unavailable", "clean", "dirty", "saving",
                                     "conflicted", "offline"},
                               text : Files, base : Files, theirs : Files, more : BOOLEAN]]
    /\ \A e \in Editors :
          /\ Ui(e, {"loading"}) <=> loading[e].at # "idle"
          /\ Ui(e, {"saving"}) <=> waits[e] # None
          /\ waits[e] # None => write[waits[e]].by = e
    /\ edits \in 0 .. MaxEdits

\* An edit that is on disk goes from it only by the save of an editor that was
\* shown it: two editors with one base revision, late writes, retried ones and
\* changes under a load never overwrite what their author has not seen.
\* jj-integration.md, line 85, says so also of agents and of other editors.
NothingUnseenIsLost ==
    [][\A x \in In(onDisk) \ In(onDisk') :
          \E w \in Writes : locked = w /\ x \in shown[write[w].by]]_fileEditsVars

\* A document shown as saved holds what the host sent or acknowledged, whatever
\* was typed while it was being saved.
CleanIsSaved == \A e \in Editors : Ui(e, {"clean"}) => editor[e].text \in accepted[e]

\* A save ends, with whatever answer.
SaveEnds == \A e \in Editors : []<>(~Ui(e, {"saving"}))
===============================================================================
