---------------------------- MODULE DiffPreview ----------------------------
(***************************************************************************)
(* The diff preview of a commit (IssueCommitDetailPage of                  *)
(* packages/views/src/issue-detail-page.tsx).  The worker keeps the text   *)
(* that "git show --stat --patch" printed, cut to a limit; the page parses *)
(* it line by line into sections, numbers the lines, counts the changes,   *)
(* and jumps to the section of a file that is chosen in the list beside    *)
(* it.                                                                     *)
(*                                                                         *)
(* The actions are those of git, which prints a commit file by file, hunk  *)
(* by hunk and line by line; "commit" keeps what the printed lines mean.   *)
(* What the page shows is a function of the text, so each invariant        *)
(* compares the parser with git at every prefix of every text.             *)
(*                                                                         *)
(* A line is its first characters with the path or the numbers it carries. *)
(* A changed line may itself begin with "-- " or "++ ": printed, it looks  *)
(* like the line that names a file.  Blank rows at the end of the last     *)
(* hunk, which the worker trims, are left out.                             *)
(***************************************************************************)
EXTENDS Integers, FiniteSets, Sequences, SequencesExt

CONSTANTS
  Names,     \* paths of the files a commit may change
  Quoted,    \* those git prints in quotes: any byte over 127, by default
  Twins,     \* those that give the same element id
  DevNull,   \* the path /dev/null
  TornPath,  \* a path that was cut
  None,      \* no file
  MaxHunks,  \* bound: hunks of a file
  MaxGap,    \* bound: unchanged lines left out before a hunk
  MaxLines   \* bound: changed and context lines of a commit

\* What the constants must satisfy.
PreviewAssumption == /\ Quoted \subseteq Names /\ Twins \subseteq Names
                     /\ {DevNull, TornPath, None} \cap Names = {}
                     /\ Cardinality({DevNull, TornPath, None}) = 3
                     /\ {MaxHunks, MaxGap, MaxLines} \subseteq Nat

VARIABLES
  text,    \* diffPreview: the lines printed
  commit,  \* the commit: its files with the rows a reader should see
  at,      \* the next line of the file's old and new content, its hunks, and the
           \* lines left out above that line
  cut      \* diffTruncated

vars == <<text, commit, at, cut>>

Paths == Names \cup {DevNull, TornPath}
Body == {"+", "-", " ", ""}
Heads == Body \cup {"diff --git a/", "diff --git \"", "--- ", "+++ ", "@@ ", "meta"}
Kinds == {"add", "remove", "context"}
Forms == {"changed", "added", "deleted", "opaque"}

\* A row: its kind, the numbers beside it (0 when there is none), and for a gap
\* the lines it stands for.
Row(kind, old, new, hidden) == [kind |-> kind, old |-> old, new |-> new, hidden |-> hidden]
Line(head, path, old, new) == [head |-> head, path |-> path, old |-> old, new |-> new]
Plain(head) == Line(head, None, 0, 0)
Naming(head, path) == Line(head, path, 0, 0)

-----------------------------------------------------------------------------
(* The parser (parseUnifiedDiffPreview).                                   *)
Start == [files |-> <<>>, current |-> None, oldLine |-> 0, newLine |-> 0, inHunk |-> FALSE]

Opened(path) == [oldPath |-> path, newPath |-> path, additions |-> 0, deletions |-> 0, rows |-> <<>>]

\* mutant: the new name is shown, whatever it is
displayPath_New(file) == file.newPath

displayPath(file) == IF file.newPath # DevNull THEN file.newPath ELSE file.oldPath

\* mutant: the counters of the last file are kept
pushCurrentFile_Kept(p) ==
  IF p.current = None THEN p
  ELSE [p EXCEPT !.files = Append(@, p.current), !.current = None]

pushCurrentFile(p) ==
  IF p.current = None THEN p
  ELSE [Start EXCEPT !.files = Append(p.files, p.current)]

Show(p, row) == [p EXCEPT !.current.rows = Append(@, row)]

\* The lines left out between two hunks of a file.
Hidden(p, line) ==
  IF ~(p.inHunk /\ p.oldLine > 0 /\ p.newLine > 0) THEN 0
  ELSE LET old == line.old - p.oldLine  new == line.new - p.newLine
       IN IF old > new THEN old ELSE new

EnterHunk(p, line) ==
  LET gap == Hidden(p, line)
      shown == IF gap > 1 THEN Show(p, Row("gap", 0, 0, gap)) ELSE p
  IN [Show(shown, Row("hunk", 0, 0, 0)) EXCEPT !.oldLine = line.old, !.newLine = line.new, !.inHunk = TRUE]

Added(p) == [Show(p, Row("add", 0, p.newLine, 0)) EXCEPT !.current.additions = @ + 1, !.newLine = @ + 1]

\* mutant: both numbers are shown beside a line that was removed
Removed_Both(p) ==
  [Show(p, Row("remove", p.oldLine, p.newLine, 0)) EXCEPT !.current.deletions = @ + 1, !.oldLine = @ + 1]

Removed(p) ==
  [Show(p, Row("remove", p.oldLine, 0, 0)) EXCEPT !.current.deletions = @ + 1, !.oldLine = @ + 1]

Kept(p) == [Show(p, Row("context", p.oldLine, p.newLine, 0)) EXCEPT !.oldLine = @ + 1, !.newLine = @ + 1]

\* mutant: a line is taken to name the file inside a hunk too
NamesFile_Anywhere(p, line) == line.head \in {"--- ", "+++ "}
NamesFile(p, line) == ~p.inHunk /\ line.head \in {"--- ", "+++ "}

Rename(p, line) ==
  IF line.head = "--- " THEN [p EXCEPT !.current.oldPath = line.path]
                        ELSE [p EXCEPT !.current.newPath = line.path]

Read(p, line) ==
  CASE line.head = "diff --git a/" -> [pushCurrentFile(p) EXCEPT !.current = Opened(line.path)]
    [] line.head # "diff --git a/" /\ p.current = None -> p
    [] p.current # None /\ NamesFile(p, line) -> Rename(p, line)
    [] p.current # None /\ line.head = "@@ " -> EnterHunk(p, line)
    [] p.current # None /\ p.inHunk /\ line.head \in {"+", "+++ "} /\ ~NamesFile(p, line) -> Added(p)
    [] p.current # None /\ p.inHunk /\ line.head \in {"-", "--- "} /\ ~NamesFile(p, line) -> Removed(p)
    [] p.current # None /\ p.inHunk /\ line.head \in {" ", ""} -> Kept(p)
    [] OTHER -> Show(p, Row("meta", 0, 0, 0))

Parsed == pushCurrentFile(FoldLeft(Read, Start, text))

\* What the page shows: the sections.  (When there is none it shows the text.)
Sections == Parsed.files

\* The element a click on a file of the list scrolls to: the first with its id.
DomId(path) == IF path \in Twins THEN CHOOSE t \in Twins: TRUE ELSE path
Target(sections, path) ==
  LET found == {i \in DOMAIN sections: DomId(displayPath(sections[i])) = DomId(path)}
  IN IF found = {} THEN 0 ELSE Min(found)

-----------------------------------------------------------------------------
(* What git prints (external).                                             *)
Init == /\ text = <<>> /\ commit = <<>> /\ cut = FALSE
        /\ at = [old |-> 0, new |-> 0, hunks |-> 0, gap |-> 0]

File == Last(commit)
Open == commit # <<>> /\ ~cut
Complete == commit # <<>> /\ at.hunks > 0 => Last(text).head # "@@ "
Total == FoldLeft(LAMBDA n, file: n + Len(file.rows), 0, commit)

\* The commit's message and the statistics.
PrintLead == /\ text = <<>>
             /\ text' = <<Plain("meta")>>
             /\ UNCHANGED <<commit, at, cut>>

Header(path, form) ==
  <<Naming(IF path \in Quoted THEN "diff --git \"" ELSE "diff --git a/", path), Plain("meta")>>
  \o IF form = "opaque" THEN <<>>
     ELSE <<Naming("--- ", IF form = "added" THEN DevNull ELSE path),
            Naming("+++ ", IF form = "deleted" THEN DevNull ELSE path)>>

\* An opaque file was moved, or is binary: it has no hunks.
PrintFile(path, form) ==
  /\ text # <<>> /\ ~cut /\ Complete
  /\ commit # <<>> /\ File.form # "opaque" => at.hunks > 0
  /\ \A i \in DOMAIN commit: commit[i].path # path
  /\ text' = text \o Header(path, form)
  /\ commit' = Append(commit, [path |-> path, form |-> form, rows |-> <<>>])
  /\ at' = [old |-> IF form = "added" THEN 0 ELSE 1, new |-> IF form = "deleted" THEN 0 ELSE 1,
            hunks |-> 0, gap |-> 0]
  /\ UNCHANGED cut

\* Hunks that touch are one hunk; a file that was added or deleted has one.
PrintHunk(gap) ==
  /\ Open /\ Complete /\ Total < MaxLines
  /\ \/ File.form = "changed" /\ at.hunks < MaxHunks /\ (at.hunks > 0 => gap > 0)
     \/ File.form \in {"added", "deleted"} /\ at.hunks = 0 /\ gap = 0
  /\ text' = Append(text, Line("@@ ", None, at.old + gap, at.new + gap))
  /\ at' = [old |-> at.old + gap, new |-> at.new + gap, hunks |-> at.hunks + 1,
            gap |-> IF at.hunks > 0 /\ gap > 1 THEN gap ELSE 0]
  /\ UNCHANGED <<commit, cut>>

Emit(head, kind, old, new) ==
  /\ Open /\ at.hunks > 0 /\ Total < MaxLines
  /\ text' = Append(text, Plain(head))
  /\ commit' = [commit EXCEPT ![Len(commit)].rows =
                  Append(@, Row(kind, old * at.old, new * at.new, at.gap))]
  /\ at' = [at EXCEPT !.old = @ + old, !.new = @ + new, !.gap = 0]
  /\ UNCHANGED cut

PrintAdded(head) == Open /\ File.form # "deleted" /\ Emit(head, "add", 0, 1)
PrintRemoved(head) == Open /\ File.form # "added" /\ Emit(head, "remove", 1, 0)
PrintContext(head) == Open /\ File.form = "changed" /\ Emit(head, "context", 1, 1)

\* The text is over the limit (truncateWithFlag): it ends anywhere in what was
\* printed last, maybe within a path or within what a line is known by.
Torn(line) == IF line.path = None THEN {line} ELSE {line, [line EXCEPT !.path = TornPath], Plain("meta")}
Truncate ==
  /\ text # <<>> /\ ~cut
  /\ cut' = TRUE
  /\ \E lost \in 0 .. (IF Open /\ at.hunks = 0 THEN Len(Header(File.path, File.form)) - 1 ELSE 0):
       LET kept == SubSeq(text, 1, Len(text) - lost)
       IN /\ kept # <<>>
          /\ \E last \in Torn(Last(kept)) \cup (IF Last(kept).head = "@@ " THEN {Plain("meta")} ELSE {}):
               text' = Append(Front(kept), last)
  /\ UNCHANGED <<commit, at>>

Next ==
  \/ PrintLead
  \/ \E path \in Names, form \in Forms: PrintFile(path, form)
  \/ \E gap \in 0 .. MaxGap: PrintHunk(gap)
  \/ \E head \in {"+", "+++ "}: PrintAdded(head)
  \/ \E head \in {"-", "--- "}: PrintRemoved(head)
  \/ \E head \in {" ", ""}: PrintContext(head)
  \/ Truncate

Spec == Init /\ [][Next]_vars

\* For the runs: two names of which neither is quoted nor a twin are alike.
Symmetry == Permutations(Names)

-----------------------------------------------------------------------------
(* The rows of a section that show lines of the file, each with the gap    *)
(* that is shown above it.                                                 *)
Shown(rows) ==
  LET lines == SetToSortSeq({i \in DOMAIN rows: rows[i].kind \in Kinds}, <)
      Above(i) == IF i > 2 /\ rows[i - 2].kind = "gap" THEN rows[i - 2].hidden ELSE 0
  IN [k \in DOMAIN lines |-> [rows[lines[k]] EXCEPT !.hidden = Above(lines[k])]]

\* The text is made of git's lines; a row has the numbers of its kind and no
\* other, and a section the name of a file (IssueCommitDetailPage).
TypeOK ==
  /\ text \in Seq([head: Heads, path: Paths \cup {None}, old: Nat, new: Nat])
  /\ \A i \in DOMAIN commit: /\ commit[i].path \in Names /\ commit[i].form \in Forms
                             /\ \A k \in DOMAIN commit[i].rows: commit[i].rows[k].kind \in Kinds
  /\ at \in [old: Nat, new: Nat, hunks: 0 .. MaxHunks, gap: 0 .. MaxGap]
  /\ cut \in BOOLEAN
  /\ \A section \in Range(Sections), row \in UNION {Range(file.rows): file \in Range(Sections)}:
       /\ displayPath(section) \in Names \cup {TornPath}
       /\ row.kind \in Kinds \cup {"hunk", "gap", "meta"}
       /\ row.old > 0 <=> row.kind \in {"remove", "context"}
       /\ row.new > 0 <=> row.kind \in {"add", "context"}

\* Every changed and context line that was printed is shown in the section of
\* its own file, in order, with the numbers it has in the old and the new
\* content and with the number of the lines left out above it, and nothing else
\* is shown as a line: not the names of the files, nor what a cut has torn
\* (parseUnifiedDiffPreview).
LinesInPlace ==
  LET sections == Sections
  IN /\ Len(sections) <= Len(commit)
     /\ \A i \in DOMAIN commit:
          IF i \in DOMAIN sections THEN Shown(sections[i].rows) = commit[i].rows
                                   ELSE commit[i].rows = <<>>

\* The additions and deletions above a section are those of the file it names
\* (DiffFileSection).
CountsRight ==
  LET Count(file, kind) == Len(SelectSeq(file.rows, LAMBDA r: r.kind = kind))
      Of(section, file) == /\ file.path = displayPath(section)
                           /\ section.additions = Count(file, "add")
                           /\ section.deletions = Count(file, "remove")
  IN \A section \in Range(Sections):
       displayPath(section) # TornPath => \E file \in Range(commit): Of(section, file)

\* A click on a changed file goes to the section with its lines, unless the cut
\* has taken them (CommitReviewFilesNav).
FindsSection ==
  LET sections == Sections
  IN \A i \in DOMAIN commit:
       commit[i].rows # <<>> \/ (~cut /\ i \in DOMAIN sections) => Target(sections, commit[i].path) = i

=============================================================================
