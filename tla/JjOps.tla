--------------------------------- MODULE JjOps ---------------------------------
(* What choosh-hostd asks jj about a workspace: jj_ops.rs.  status, log and    *)
(* the id of @ go through jj-lib, which snapshots the working copy first; diff *)
(* and the operation log go through the jj program, whose output is parsed.    *)
(* Calls run side by side, with each other, with agents that edit files and    *)
(* with agents that run jj.                                                    *)
EXTENDS HostState, FiniteSets

LOCAL INSTANCE SequencesExt

CONSTANTS MaxJjCalls, MaxJjEdits, MaxJjCommands, FileValues

JjCalls == 1 .. MaxJjCalls
JjFiles == {1, 2}
Texts == {"plain", "dashes", "pluses", "exec"}
FileContents == Texts \cup {"absent", "binary"}

\* A text is one line: "plain" says nothing special, "dashes" begins with "-- ",
\* "pluses" with "++ ", "exec" is "plain" in a file that may be executed.
ASSUME JjOpsAssumption ==
    /\ MaxJjCalls \in Nat /\ MaxJjEdits \in Nat /\ MaxJjCommands \in Nat
    /\ FileValues \subseteq FileContents /\ "absent" \in FileValues
    /\ None \notin Nat

VARIABLES
    past,           \* the files on disk and in the parent commit, from the start until now
    head,           \* last operation: its number and the files of its working-copy commit
    wcLock,         \* who holds the lock of the working copy
    jjCalls,        \* what each call is at, since when, and what it has found
    agentCommands        \* jj commands agents have run

jjVars == <<past, head, wcLock, jjCalls, agentCommands>>

\* status, log and the id of a revision only read; undo and restore of an
\* operation both make a new one.
Kinds == {"read", "diff", "undo"}
Clean == [f \in JjFiles |-> IF f = 1 THEN "plain" ELSE "absent"]
NewCall == [at |-> "idle", kind |-> None, since |-> 0, op |-> 0, base |-> Clean, tree |-> Clean,
            entries |-> <<>>]

JjInit ==
    /\ past = <<[disk |-> Clean, parent |-> Clean]>>
    /\ head = [op |-> 0, tree |-> Clean]
    /\ wcLock = None /\ jjCalls = [p \in JjCalls |-> NewCall] /\ agentCommands = 0

Present == past[Len(past)]
Arrived(p) == jjCalls[p].at = "idle" /\ \A q \in JjCalls : q < p => jjCalls[q].at # "idle"
JjCallTo(p, at) == jjCalls' = [jjCalls EXCEPT ![p].at = at]

-------------------------------------------------------------------------------
(* The output of "jj diff --git", and the answer it stands for                 *)

Line1(value) == IF value = "exec" THEN "plain" ELSE value

\* Printed lines are told apart by how they begin: a removed "-- x" begins like
\* the line that names the old file.
Printed(sign, value) ==
    [is |-> CASE sign = "-" /\ value = "dashes" -> "---"
              [] sign = "+" /\ value = "pluses" -> "+++"
              [] OTHER -> sign,
     sign |-> sign, text |-> Line1(value), path |-> None]
Named(is, f) == [is |-> is, sign |-> None, text |-> None, path |-> f]
HunkLines(old, new) ==
    (IF old \in Texts THEN <<Printed("-", old)>> ELSE <<>>)
    \o (IF new \in Texts THEN <<Printed("+", new)>> ELSE <<>>)
Side(f, value) == IF value = "absent" THEN None ELSE f

\* A file that is gone and one that is new with the same content are a rename.
Renames(old, new) ==
    {r \in JjFiles \X JjFiles :
        /\ old[r[1]] # "absent" /\ new[r[1]] = "absent"
        /\ old[r[2]] = "absent" /\ new[r[2]] = old[r[1]]}

Changed(old, new) ==
    SetToSortSeq({f \in JjFiles : old[f] # new[f] /\ \A r \in Renames(old, new) : f # r[1]}, <)
RenamedFrom(f, old, new) == {r[1] : r \in {s \in Renames(old, new) : s[2] = f}}

Section(f, old, new) ==
    LET from == RenamedFrom(f, old, new) IN
    <<Named("diff", f)>> \o
    (IF from # {} THEN <<Named("rename from", CHOOSE g \in from : TRUE), Named("rename to", f)>>
     ELSE IF "binary" \in {old[f], new[f]} THEN <<[Named("binary", f) EXCEPT !.text = <<old[f] # "absent", new[f] # "absent">>]>>
     ELSE IF Line1(old[f]) = Line1(new[f]) THEN <<>>
     ELSE <<Named("---", Side(f, old[f])), Named("+++", Side(f, new[f])), Named("@@", None)>>
          \o HunkLines(old[f], new[f]))
GitDiff(old, new) == FlattenSeq([i \in DOMAIN Changed(old, new) |-> Section(Changed(old, new)[i], old, new)])

Hunks(from, to, hunks) == [is |-> "hunks", old |-> from, new |-> to, hunks |-> hunks]
Binary(f, status) == [is |-> "binary", old |-> f, new |-> f, hunks |-> status]
Segments(old, new) == [i \in DOMAIN HunkLines(old, new) |-> <<HunkLines(old, new)[i].sign, HunkLines(old, new)[i].text>>]
StatusOf(before, after) == IF ~before THEN "added" ELSE IF ~after THEN "deleted" ELSE "modified"

\* What a diff between the two trees should say.
Entry(f, old, new) ==
    LET from == RenamedFrom(f, old, new) IN
    IF from # {} THEN Hunks(CHOOSE g \in from : TRUE, f, <<>>)
    ELSE IF "binary" \in {old[f], new[f]} THEN Binary(f, StatusOf(old[f] # "absent", new[f] # "absent"))
    ELSE Hunks(Side(f, old[f]), Side(f, new[f]),
               IF Line1(old[f]) = Line1(new[f]) THEN <<>> ELSE <<Segments(old[f], new[f])>>)
Entries(old, new) == [i \in DOMAIN Changed(old, new) |-> Entry(Changed(old, new)[i], old, new)]

\* parse_git_diff: what is known of a file after some of its lines.
NoSection == [header |-> None, from |-> None, to |-> None, binary |-> None,
              old |-> None, new |-> None, markers |-> FALSE, hunks |-> <<>>]

SectionEntry(s) ==
    IF s.from # None /\ s.to # None THEN Hunks(s.from, s.to, s.hunks)
    ELSE IF s.binary # None THEN Binary(s.header, StatusOf(s.binary[1], s.binary[2]))
    ELSE IF s.markers THEN Hunks(s.old, s.new, s.hunks)
    ELSE Hunks(s.header, s.header, s.hunks)

AddSegment(s, line) ==
    IF s.hunks = <<>> THEN s
    ELSE [s EXCEPT !.hunks[Len(s.hunks)] = Append(@, <<line.sign, line.text>>)]

\* A line that looks like a file's name is one only before the first hunk.
TakeLine(s, line) ==
    CASE line.is = "rename from" -> [s EXCEPT !.from = line.path]
      [] line.is = "rename to" -> [s EXCEPT !.to = line.path]
      [] line.is = "binary" -> [s EXCEPT !.binary = line.text]
      [] line.is = "---" /\ s.hunks = <<>> -> [s EXCEPT !.old = line.path, !.markers = TRUE]
      [] line.is = "+++" /\ s.hunks = <<>> -> [s EXCEPT !.new = line.path, !.markers = TRUE]
      [] line.is = "@@" -> [s EXCEPT !.hunks = Append(@, <<>>)]
      [] OTHER -> AddSegment(s, line)

ParseGitDiff(lines) ==
    LET starts == SetToSortSeq({i \in DOMAIN lines : lines[i].is = "diff"}, <)
        upTo(k) == IF k = Len(starts) THEN Len(lines) ELSE starts[k + 1] - 1
        parse(k) == FoldLeft(TakeLine, [NoSection EXCEPT !.header = lines[starts[k]].path],
                             SubSeq(lines, starts[k] + 1, upTo(k)))
    IN [k \in DOMAIN starts |-> SectionEntry(parse(k))]

\* For any two trees, what jj prints of them is parsed to what a diff between
\* them should say.  None is the only parameter of this statement: TLC evaluates
\* it in full, for all pairs of trees; the provers cannot expand the folds.
ASSUME DiffsAreParsed ==
    \A old, new \in [JjFiles -> FileContents] : ParseGitDiff(GitDiff(old, new)) = Entries(old, new)

-------------------------------------------------------------------------------
(* Calls through jj-lib                                                        *)

JjCallArrives(p, kind) ==
    /\ Arrived(p)
    /\ jjCalls' = [jjCalls EXCEPT ![p] = [NewCall EXCEPT !.at = "asked", !.kind = kind, !.since = Len(past)]]
    /\ UNCHANGED <<past, head, wcLock, agentCommands>>

\* open_repo: before the lock.
OpenRepo(p) ==
    /\ jjCalls[p].at = "asked" /\ jjCalls[p].kind = "read"
    /\ jjCalls' = [jjCalls EXCEPT ![p].at = "opened", ![p].op = head.op, ![p].base = head.tree]
    /\ UNCHANGED <<past, head, wcLock, agentCommands>>

LockWorkingCopy(p) ==
    /\ jjCalls[p].at = "opened" /\ wcLock = None
    /\ wcLock' = p /\ JjCallTo(p, "locked")
    /\ UNCHANGED <<past, head, agentCommands>>

\* The operation of a snapshot on an old one is merged with those since: the
\* working-copy commit of either may win.
Publish(base, tree) ==
    \E winner \in {tree} \cup (IF base = head.op THEN {} ELSE {head.tree}) :
        head' = [op |-> head.op + 1, tree |-> winner]

\* snapshot_and_reload from the lock on: if the files are those of the operation
\* that was opened, there is nothing to record.
AnswerUnsnapshotted(p) ==
    /\ jjCalls[p].at = "locked"
    /\ jjCalls' = [jjCalls EXCEPT ![p].at = "answered", ![p].tree = jjCalls[p].base]
    /\ wcLock' = None
    /\ UNCHANGED <<past, head, agentCommands>>
SnapshotAndReload(p) ==
    /\ jjCalls[p].at = "locked"
    /\ IF Present.disk = jjCalls[p].base THEN UNCHANGED head ELSE Publish(jjCalls[p].op, Present.disk)
    /\ jjCalls' = [jjCalls EXCEPT ![p].at = "answered", ![p].tree = Present.disk]
    /\ wcLock' = None
    /\ UNCHANGED <<past, agentCommands>>

\* A snapshot or a transaction that fails changes nothing; the lock goes with it.
JjCallFails(p) ==
    /\ jjCalls[p].at \in {"asked", "opened", "locked", "sizing", "published"}
    /\ JjCallTo(p, "failed")
    /\ wcLock' = IF wcLock = p THEN None ELSE wcLock
    /\ UNCHANGED <<past, head, agentCommands>>

-------------------------------------------------------------------------------
(* Calls that run jj, which snapshots under the lock by itself                 *)

SnapshotByJj == head' = IF head.tree = Present.disk THEN head ELSE [op |-> head.op + 1, tree |-> Present.disk]

\* A binary file's size is asked for afterwards, file by file; if it is gone by
\* then the call fails.
RunDiff(p) ==
    /\ jjCalls[p].at = "asked" /\ jjCalls[p].kind = "diff" /\ wcLock = None
    /\ SnapshotByJj
    /\ LET entries == ParseGitDiff(GitDiff(Present.parent, Present.disk)) IN
       jjCalls' = [jjCalls EXCEPT ![p].entries = entries,
                       ![p].at = IF \E i \in DOMAIN entries : entries[i].is = "binary" THEN "sizing" ELSE "answered"]
    /\ UNCHANGED <<past, wcLock, agentCommands>>

SizeBinaries(p) ==
    /\ jjCalls[p].at = "sizing" /\ wcLock = None
    /\ SnapshotByJj
    /\ LET gone == \E i \in DOMAIN jjCalls[p].entries :
                      LET e == jjCalls[p].entries[i] IN
                      e.is = "binary" /\ e.hunks # "deleted" /\ Present.disk[e.new] = "absent"
       IN JjCallTo(p, IF gone THEN "failed" ELSE "answered")
    /\ UNCHANGED <<past, wcLock, agentCommands>>

Moves(disk, parent) == past' = Append(past, [disk |-> disk, parent |-> parent])

\* op_undo, op_restore: the files become those of some other operation.
RevertOrRestore(p) ==
    /\ jjCalls[p].at = "asked" /\ jjCalls[p].kind = "undo" /\ wcLock = None
    /\ Len(past) <= MaxJjEdits
    /\ \E i \in DOMAIN past :
          /\ Moves(past[i].disk, past[i].parent)
          /\ head' = [op |-> head.op + 1, tree |-> past[i].disk]
    /\ JjCallTo(p, "published")
    /\ UNCHANGED <<wcLock, agentCommands>>

\* current_op_id: whatever is last by now is taken for the operation just made.
CurrentOpId(p) ==
    /\ jjCalls[p].at = "published"
    /\ jjCalls' = [jjCalls EXCEPT ![p].at = "answered", ![p].op = head.op]
    /\ UNCHANGED <<past, head, wcLock, agentCommands>>

-------------------------------------------------------------------------------
(* Agents                                                                      *)

AgentWrites(f, value) ==
    /\ Len(past) <= MaxJjEdits /\ value # Present.disk[f]
    /\ Moves([Present.disk EXCEPT ![f] = value], Present.parent)
    /\ UNCHANGED <<head, wcLock, jjCalls, agentCommands>>

\* jj new: what is on disk becomes the parent.
AgentCommits ==
    /\ wcLock = None /\ agentCommands < MaxJjCommands /\ Len(past) <= MaxJjEdits
    /\ agentCommands' = agentCommands + 1
    /\ Moves(Present.disk, Present.disk)
    /\ head' = [op |-> head.op + 1, tree |-> Present.disk]
    /\ UNCHANGED <<wcLock, jjCalls>>

JjNext ==
    \/ AgentCommits
    \/ \E f \in JjFiles, value \in FileValues : AgentWrites(f, value)
    \/ \E p \in JjCalls :
          \/ \E kind \in Kinds : JjCallArrives(p, kind)
          \/ OpenRepo(p) \/ LockWorkingCopy(p) \/ SnapshotAndReload(p) \/ JjCallFails(p)
          \/ RunDiff(p) \/ SizeBinaries(p) \/ RevertOrRestore(p) \/ CurrentOpId(p)
JjSpec == JjInit /\ [][JjNext]_jjVars
-------------------------------------------------------------------------------
\* Calls, the lock and the operations.
JjTypeOK ==
    /\ \A p \in JjCalls :
          /\ jjCalls[p].at \in {"idle", "asked", "opened", "locked", "sizing", "published", "answered", "failed"}
          /\ (jjCalls[p].at = "locked") = (wcLock = p)
          /\ jjCalls[p].op <= head.op
    /\ wcLock = None \/ wcLock \in JjCalls

\* An answer tells of the files as they were at some time while it was awaited,
\* never of an earlier snapshot, and a diff's entries are those of the trees it
\* compared, whatever the lines of the files look like.
AnswersAreTrue ==
    \A p \in JjCalls :
        LET call == jjCalls[p]
            during == {past[i] : i \in call.since .. Len(past)} IN
        call.at = "answered" /\ call.kind # "undo" =>
            IF call.kind = "diff" THEN \E moment \in during : call.entries = Entries(moment.parent, moment.disk)
            ELSE \E moment \in during : call.tree = moment.disk
===============================================================================
