------------------------------ MODULE Notebooks -------------------------------
(***************************************************************************)
(* Notebook files: the calls of the editor and of the runner on .ipynb     *)
(* files (web/notebook_runner.py, web/workspace.py).                       *)
(*                                                                         *)
(* Every call reads the whole file, changes its copy and writes it back.   *)
(* The editor's calls run on the event loop, one at a time; a cell or a    *)
(* whole notebook is executed in a worker thread (asyncio.to_thread) and   *)
(* writes back, when its kernel is done, the notebook it read before.      *)
(* open(.., "w") truncates, the text follows later.  A cell's source is    *)
(* left out: which cell an output came from is what matters here.          *)
(***************************************************************************)
EXTENDS Integers, Sequences, SequencesExt

CONSTANTS
    Paths,       \* notebook paths
    Runners,     \* worker threads
    Loop,        \* the event loop
    Template,    \* create_blank_notebook: for each of its cells, whether it is a code cell
    MaxCells,    \* bound: cells ever made
    MaxEdits,    \* bound: calls of the editor
    MaxExecs,    \* bound: calls of the runner
    MaxFaults    \* bound: crashes, failing writes

Gone == "gone"   \* a file without a path: open, and deleted

ASSUME NotebookAssumption ==
    /\ Loop \notin Runners /\ Gone \notin Paths /\ Template \in Seq(BOOLEAN)
    /\ \A b \in {MaxCells, MaxEdits, MaxExecs, MaxFaults} : b \in Nat

Jobs    == Runners \cup {Loop}
NoCells == [cells |-> <<>>, edits |-> {}]
NoFile  == [text |-> "none", book |-> NoCells]
Idle    == [step |-> "idle", path |-> Gone, node |-> Gone, copy |-> NoCells, at |-> 0, sent |-> 0, kind |-> "edit"]

VARIABLES
    nbFile,      \* path -> "none", "empty" (truncated), "torn" or "cells", and the notebook in it
    nbJob,       \* the call each job is in
    nbCells,     \* cells made so far
    nbEdits,     \* edits begun so far
    nbExecs,     \* executions begun so far
    nbFaults,
    \* History.
    nbSaved,     \* path -> edits that were answered with success
    nbReverted   \* edits an execution wrote its older copy over

notebookVars == <<nbFile, nbJob, nbCells, nbEdits, nbExecs, nbFaults, nbSaved, nbReverted>>

Blank(first) == [i \in DOMAIN Template |-> [id |-> first + i, code |-> Template[i], out |-> 0]]

NotebookInit ==
    /\ nbFile \in [Paths -> {NoFile, [text |-> "cells", book |-> [cells |-> Blank(0), edits |-> {}]]}]
    /\ \E p \in Paths : \A q \in Paths : (nbFile[q] # NoFile) = (q = p)
    /\ nbJob = [j \in Jobs |-> Idle]
    /\ nbCells = Len(Template)
    /\ nbEdits = 0 /\ nbExecs = 0 /\ nbFaults = 0
    /\ nbSaved = [p \in Paths |-> {}] /\ nbReverted = {}

\* nbformat.read raises on anything but a whole notebook.
Readable(p)    == nbFile[p].text = "cells"
Becomes(j, r)  == nbJob' = [nbJob EXCEPT ![j] = r]
Opening(p, b)  == [Idle EXCEPT !.step = "open", !.path = p, !.copy = b]
LoopFree       == nbJob[Loop] = Idle
History        == <<nbSaved, nbReverted>>

\* The copies an edit may make of cells: save_cell_source, add_new_cell, delete_cell, clear_notebook_outputs.
Edited(cells) ==
    {cells, [i \in DOMAIN cells |-> IF cells[i].code THEN [cells[i] EXCEPT !.out = 0] ELSE cells[i]]}
        \cup {InsertAt(cells, i, [id |-> nbCells + 1, code |-> c, out |-> 0]) :
                 i \in IF nbCells < MaxCells THEN 1..Len(cells) + 1 ELSE {}, c \in BOOLEAN}
        \cup {RemoveAt(cells, i) : i \in DOMAIN cells}

\* Where an edit runs: on the event loop, so never two at a time.
EditorsInThreads == Jobs   \* a mutant: to_thread for the editor's endpoints too
Editors == {Loop}

Edit(j, p) ==
    /\ j \in Editors /\ nbJob[j] = Idle /\ Readable(p) /\ nbEdits < MaxEdits
    /\ nbEdits' = nbEdits + 1
    /\ \E cells \in Edited(nbFile[p].book.cells) :
           /\ Becomes(j, Opening(p, [cells |-> cells, edits |-> nbFile[p].book.edits \cup {nbEdits'}]))
           /\ nbCells' = IF Len(cells) > Len(nbFile[p].book.cells) THEN nbCells + 1 ELSE nbCells
    /\ UNCHANGED <<nbFile, nbExecs, nbFaults, History>>

\* create_workspace_item
CreateNotebook(p) ==
    /\ LoopFree /\ nbFile[p] = NoFile /\ nbCells + Len(Template) <= MaxCells
    /\ Becomes(Loop, Opening(p, [cells |-> Blank(nbCells), edits |-> {}]))
    /\ nbCells' = nbCells + Len(Template)
    /\ UNCHANGED <<nbFile, nbEdits, nbExecs, nbFaults, History>>

\* Open files stay open under their new name, or under none.
Moved(p, q) == nbJob' = [j \in Jobs |-> IF nbJob[j].node = p THEN [nbJob[j] EXCEPT !.node = q] ELSE nbJob[j]]

\* rename_workspace_item
RenameNotebook(p, q) ==
    /\ LoopFree /\ nbFile[p] # NoFile /\ nbFile[q] = NoFile
    /\ nbFile' = [nbFile EXCEPT ![q] = nbFile[p], ![p] = NoFile]
    /\ nbSaved' = [nbSaved EXCEPT ![q] = nbSaved[p], ![p] = {}]
    /\ Moved(p, q)
    /\ UNCHANGED <<nbCells, nbEdits, nbExecs, nbFaults, nbReverted>>

\* delete_workspace_item
DeleteNotebook(p) ==
    /\ LoopFree /\ nbFile[p] # NoFile
    /\ nbFile' = [nbFile EXCEPT ![p] = NoFile]
    /\ nbSaved' = [nbSaved EXCEPT ![p] = {}]
    /\ Moved(p, Gone)
    /\ UNCHANGED <<nbCells, nbEdits, nbExecs, nbFaults, nbReverted>>

CodeCells(cells, from) == {i \in from..Len(cells) : cells[i].code}

\* The cell is sent to the kernel, or there is none and the notebook is written back as it was read.
Send(r, cells) ==
    IF cells = {} THEN [r EXCEPT !.step = "open"]
    ELSE LET i == CHOOSE i \in cells : \A k \in cells : i <= k
         IN  [r EXCEPT !.step = "kernel", !.at = i, !.sent = r.copy.cells[i].id]

Execute(j, p, kind) ==
    /\ j \in Runners /\ nbJob[j] = Idle /\ Readable(p) /\ nbExecs < MaxExecs
    /\ LET r == [Opening(p, nbFile[p].book) EXCEPT !.kind = kind]
           code == CodeCells(r.copy.cells, 1)
       IN  IF kind = "all" THEN Becomes(j, Send(r, code))
           ELSE \E i \in DOMAIN r.copy.cells : Becomes(j, Send(r, {i} \cap code))
    /\ nbExecs' = nbExecs + 1
    /\ UNCHANGED <<nbFile, nbCells, nbEdits, nbFaults, History>>

\* The kernel's answer to what it was sent goes to the cell of the copy; execute_code may also raise.
Outputs(r) == [r EXCEPT !.copy.cells[r.at].out = r.sent]

KernelAnswers(j) ==
    /\ nbJob[j].step = "kernel"
    /\ LET r == Outputs(nbJob[j]) IN
           \/ Becomes(j, Send(r, IF r.kind = "all" THEN CodeCells(r.copy.cells, r.at + 1) ELSE {}))
           \/ Becomes(j, Idle)
    /\ UNCHANGED <<nbFile, nbCells, nbEdits, nbExecs, nbFaults, History>>

\* A mutant: the file is read again, and the output goes to the cell that is in its place now.
OpenRereading(j) ==
    /\ nbJob[j].step = "open"
    /\ LET r == nbJob[j]
           book == IF r.kind = "cell" /\ Readable(r.path) /\ r.at \in DOMAIN nbFile[r.path].book.cells
                   THEN [nbFile[r.path].book EXCEPT !.cells[r.at].out = r.sent] ELSE r.copy
       IN  /\ nbFile' = [nbFile EXCEPT ![r.path] = [text |-> "empty", book |-> NoCells]]
           /\ Becomes(j, [r EXCEPT !.step = "write", !.node = r.path, !.copy = book])
    /\ UNCHANGED <<nbCells, nbEdits, nbExecs, nbFaults, History>>

\* with open(full_path, "w"): the file is empty, or there is one again.
OpenFile(j) ==
    /\ nbJob[j].step = "open"
    /\ LET p == nbJob[j].path IN
           /\ nbFile' = [nbFile EXCEPT ![p] = [text |-> "empty", book |-> NoCells]]
           /\ Becomes(j, [nbJob[j] EXCEPT !.step = "write", !.node = p])
    /\ UNCHANGED <<nbCells, nbEdits, nbExecs, nbFaults, History>>

\* Two writers of one file each write from its beginning: what is left may be no notebook.
Alone(j) ==
    /\ nbFile[nbJob[j].node].text = "empty"
    /\ \A k \in Jobs \ {j} : nbJob[k].node # nbJob[j].node

WriteFile(j) ==
    /\ nbJob[j].step = "write"
    /\ Becomes(j, Idle)
    /\ LET p == nbJob[j].node
           b == nbJob[j].copy
           edit == nbJob[j].kind = "edit"
       IN  IF p = Gone THEN UNCHANGED <<nbFile, History>>
           ELSE /\ nbFile' \in {[nbFile EXCEPT ![p] = f] :
                                   f \in {[text |-> "cells", book |-> b]}
                                            \cup IF Alone(j) THEN {} ELSE {[text |-> "torn", book |-> NoCells]}}
                /\ nbSaved' = IF edit THEN [nbSaved EXCEPT ![p] = @ \cup b.edits] ELSE nbSaved
                /\ nbReverted' = nbReverted \cup (IF edit THEN {} ELSE nbSaved[p] \ b.edits)
    /\ UNCHANGED <<nbCells, nbEdits, nbExecs, nbFaults>>

\* The text cannot be encoded or the disk is full: the file stays as truncated as it is.
WriteFails(j) ==
    /\ nbJob[j].step = "write" /\ nbFaults < MaxFaults
    /\ Becomes(j, Idle)
    /\ nbFaults' = nbFaults + 1
    /\ UNCHANGED <<nbFile, nbCells, nbEdits, nbExecs, History>>

StudioRestarts ==
    /\ nbFaults < MaxFaults /\ nbFaults' = nbFaults + 1
    /\ nbJob' = [j \in Jobs |-> Idle]
    /\ UNCHANGED <<nbFile, nbCells, nbEdits, nbExecs, History>>

NotebookNext ==
    \/ \E p \in Paths : CreateNotebook(p) \/ DeleteNotebook(p) \/ \E q \in Paths \ {p} : RenameNotebook(p, q)
    \/ \E j \in Jobs, p \in Paths : Edit(j, p) \/ \E kind \in {"cell", "all"} : Execute(j, p, kind)
    \/ \E j \in Jobs : KernelAnswers(j) \/ OpenFile(j) \/ WriteFile(j) \/ WriteFails(j)
    \/ StudioRestarts

NotebookSpec == NotebookInit /\ [][NotebookNext]_notebookVars
-------------------------------------------------------------------------------
\* The cells of every notebook on disk and of every copy in memory.
Held == {nbFile[p].book.cells : p \in Paths} \cup {nbJob[j].copy.cells : j \in Jobs}

\* However cells are added and deleted while a cell runs, an output stands under the cell that
\* produced it (execute_single_cell writes its own copy back, never a position of the current file).
OutputsStayWithTheirCell ==
    \A cells \in Held : \A i \in DOMAIN cells : cells[i].out \in {0, cells[i].id}

\* An edit that was answered with success is in the notebook, unless an execution has written back
\* the copy it had read before: the editor's calls never undo one another.
EditsAccountedFor ==
    \A p \in Paths : Readable(p) => nbSaved[p] \subseteq nbFile[p].book.edits \cup nbReverted
===============================================================================
