----------------------------- MODULE StudioProofs -----------------------------
(***************************************************************************)
(* Proofs about the parts of the studio that share files, a cache or the   *)
(* actors of the Ray cluster.                                              *)
(*                                                                         *)
(* Notebooks: a copy of a notebook is a sequence of cells each of which    *)
(* holds its own output or none, whoever changes it; the event loop's call *)
(* holds the edits that were answered before it began, or an execution has *)
(* written over them.                                                      *)
(*                                                                         *)
(* Dashboards: an entry of the cache carries the fingerprint of the rule   *)
(* it was computed under, and of the callers that overlap at most one is   *)
(* not an exporting thread.                                                *)
(*                                                                         *)
(* Ray pools: every list of actors belongs to one warehouse, and what a    *)
(* deletion finds in the list it cuts bounds what can run after it.        *)
(*                                                                         *)
(* E-mail reports: recordings that overlap one another or a listing are    *)
(* excused, so whoever binds or writes a history holds all mails but       *)
(* those.                                                                  *)
(*                                                                         *)
(* Dashboard documents: no file of the four is claimed to agree with       *)
(* another once one was cut off; until then authors never change.          *)
(*                                                                         *)
(* Upload wizard: an upload that can still be committed has come to the    *)
(* tables no more often than its commits have failed after the rows were   *)
(* in, and the request at hand one time more.                              *)
(*                                                                         *)
(* Slices: a slice is as long as the workers need to have all of them, and *)
(* the months of a table are counted from its first one.                   *)
(***************************************************************************)
EXTENDS Notebooks, Dashboards, RayPools, Mail, Documents, Ingestion, SequenceTheorems, FiniteSetTheorems, WellFoundedInduction, TLAPS

-----------------------------------------------------------------------------
(* The smallest of some numbers. *)

LEMMA LessThanWellFounded == IsWellFoundedOn({p \in Nat \X Nat : p[1] < p[2]}, Nat)
  BY NatLessThanWellFounded DEF OpToRel

LEMMA SmallestExists ==
    ASSUME NEW T \in SUBSET Nat, T # {}
    PROVE  \E x \in T : \A y \in T : x <= y
  <1> DEFINE R == {p \in Nat \X Nat : p[1] < p[2]}
  <1>1. IsWellFoundedOn(R, Nat)
    BY LessThanWellFounded
  <1> HIDE DEF R
  <1>2. PICK x \in T : \A y \in T : ~(<<y, x>> \in R)
    BY <1>1, WFMin
  <1>3. \A y \in T : ~(y < x)
    BY <1>2 DEF R
  <1> QED
    BY <1>3

-----------------------------------------------------------------------------
(* Notebooks: types. *)

Cell == {c \in [id : Nat, code : BOOLEAN, out : Nat] : c.out \in {0, c.id}}
Book == [cells : Seq(Cell), edits : SUBSET Nat]
File == [text : {"none", "empty", "torn", "cells"}, book : Book]
Job  == [step : {"idle", "open", "kernel", "write"}, path : Paths \cup {Gone}, node : Paths \cup {Gone},
         copy : Book, at : Nat, sent : Nat, kind : {"edit", "cell", "all"}]

NotebookTypes ==
    /\ nbFile \in [Paths -> File] /\ nbJob \in [Jobs -> Job]
    /\ nbCells \in Nat /\ nbEdits \in Nat
    /\ nbSaved \in [Paths -> SUBSET Nat] /\ nbReverted \subseteq Nat

\* A call r of job j between two of its steps.
JobFits(j, r) ==
    /\ r.step = "idle" => r = Idle
    /\ r.step # "idle" => r.path \in Paths /\ (r.kind = "edit" <=> j = Loop)
    /\ r.step = "kernel" => r.at \in DOMAIN r.copy.cells /\ r.sent = r.copy.cells[r.at].id
    /\ r.step = "write" /\ j = Loop => r.node = r.path
    /\ r.step # "write" => r.node = Gone

JobsFit == \A j \in Jobs : JobFits(j, nbJob[j])

\* What is open has a file, a path without a file has no edits, and the editor's call holds the edits of its file.
NodesOpen   == \A j \in Jobs : nbJob[j].node # Gone => nbFile[nbJob[j].node].text # "none"
NoneUnsaved == \A p \in Paths : nbFile[p].text = "none" => nbSaved[p] = {}
LoopHolds   == nbJob[Loop].step # "idle" =>
                   nbSaved[nbJob[Loop].path] \subseteq nbJob[Loop].copy.edits \cup nbReverted

NotebookInv == NotebookTypes /\ JobsFit /\ NodesOpen /\ NoneUnsaved /\ LoopHolds /\ EditsAccountedFor

LEMMA CellsType ==
    ASSUME NEW s \in Seq(Cell)
    PROVE  Len(s) \in Nat /\ DOMAIN s = 1..Len(s) /\ \A i \in DOMAIN s : s[i] \in Cell
  BY LenProperties, ElementOfSeq

LEMMA InsertType ==
    ASSUME NEW s \in Seq(Cell), NEW i \in 1..Len(s) + 1, NEW c \in Cell
    PROVE  InsertAt(s, i, c) \in Seq(Cell)
  <1>1. i \in Int /\ Len(s) \in Nat /\ \A k \in 1..Len(s) : s[k] \in Cell
    BY CellsType
  <1>2. SubSeq(s, 1, i - 1) \in Seq(Cell)
    BY <1>1, SubSeqProperties
  <1>3. SubSeq(s, i, Len(s)) \in Seq(Cell)
    BY <1>1, SubSeqProperties
  <1>4. <<c>> \in Seq(Cell)
    OBVIOUS
  <1> QED
    BY <1>2, <1>3, <1>4, ConcatProperties DEF InsertAt

LEMMA RemoveType ==
    ASSUME NEW s \in Seq(Cell), NEW i \in DOMAIN s
    PROVE  RemoveAt(s, i) \in Seq(Cell)
  <1>1. i \in 1..Len(s) /\ Len(s) \in Nat /\ \A k \in 1..Len(s) : s[k] \in Cell
    BY CellsType
  <1>2. SubSeq(s, 1, i - 1) \in Seq(Cell)
    BY <1>1, SubSeqProperties
  <1>3. SubSeq(s, i + 1, Len(s)) \in Seq(Cell)
    BY <1>1, SubSeqProperties
  <1> QED
    BY <1>2, <1>3, ConcatProperties DEF RemoveAt

\* A sequence whose cells are all replaced, and one with an output changed.
LEMMA MapType ==
    ASSUME NEW n \in Nat, NEW f, f \in [1..n -> Cell] PROVE f \in Seq(Cell)
  BY SeqDef

LEMMA OutputType ==
    ASSUME NEW s \in Seq(Cell), NEW i \in DOMAIN s
    PROVE  [s EXCEPT ![i].out = s[i].id] \in Seq(Cell)
  <1>1. i \in 1..Len(s) /\ s[i] \in Cell
    BY CellsType
  <1>2. [s[i] EXCEPT !.out = s[i].id] \in Cell
    BY <1>1 DEF Cell
  <1> QED
    BY <1>1, <1>2, ExceptSeq

LEMMA BlankType == ASSUME NEW n \in Nat PROVE Blank(n) \in Seq(Cell)
  <1>1. Template \in Seq(BOOLEAN) /\ Len(Template) \in Nat /\ DOMAIN Template = 1..Len(Template)
    BY NotebookAssumption, LenProperties
  <1>2. ASSUME NEW i \in 1..Len(Template) PROVE [id |-> n + i, code |-> Template[i], out |-> 0] \in Cell
    BY <1>1, <1>2, ElementOfSeq DEF Cell
  <1> QED
    BY <1>1, <1>2, MapType DEF Blank

LEMMA EditedType ==
    ASSUME NEW s \in Seq(Cell), nbCells \in Nat, NEW t \in Edited(s)
    PROVE  t \in Seq(Cell)
  <1>1. CASE t = s
    BY <1>1
  <1>2. CASE t = [i \in DOMAIN s |-> IF s[i].code THEN [s[i] EXCEPT !.out = 0] ELSE s[i]]
    <2>1. ASSUME NEW c \in Cell PROVE [c EXCEPT !.out = 0] \in Cell
      BY DEF Cell
    <2>2. \A i \in DOMAIN s : s[i] \in Cell
      BY CellsType
    <2> QED
      BY <1>2, <2>1, <2>2, CellsType, MapType
  <1>3. CASE \E i \in 1..Len(s) + 1, c \in BOOLEAN : t = InsertAt(s, i, [id |-> nbCells + 1, code |-> c, out |-> 0])
    <2>1. PICK i \in 1..Len(s) + 1, c \in BOOLEAN : t = InsertAt(s, i, [id |-> nbCells + 1, code |-> c, out |-> 0])
      BY <1>3
    <2>2. [id |-> nbCells + 1, code |-> c, out |-> 0] \in Cell
      BY DEF Cell
    <2> QED
      BY <2>1, <2>2, InsertType
  <1>4. CASE \E i \in DOMAIN s : t = RemoveAt(s, i)
    BY <1>4, RemoveType
  <1> QED
    BY <1>1, <1>2, <1>3, <1>4 DEF Edited

-----------------------------------------------------------------------------
(* Notebooks: steps. *)

LEMMA EmptyBook == NoCells \in Book /\ Idle \in Job /\ \A j \in Jobs : JobFits(j, Idle)
  <1>1. <<>> \in Seq(Cell)
    BY EmptySeq
  <1> QED
    BY <1>1 DEF NoCells, Book, Idle, Job, Gone, JobFits

LEMMA InitInv == NotebookInit => NotebookInv
  <1> SUFFICES ASSUME NotebookInit PROVE NotebookInv
    OBVIOUS
  <1>1. NoFile \in File /\ [text |-> "cells", book |-> [cells |-> Blank(0), edits |-> {}]] \in File
    BY EmptyBook, BlankType DEF NoFile, File, Book
  <1>2. Len(Template) \in Nat
    BY NotebookAssumption, LenProperties
  <1>3. NotebookTypes
    BY <1>1, <1>2, EmptyBook DEF NotebookInit, NotebookTypes
  <1>4. JobsFit /\ NodesOpen /\ LoopHolds
    BY EmptyBook DEF NotebookInit, JobsFit, NodesOpen, LoopHolds, Idle, Jobs
  <1>5. NoneUnsaved /\ EditsAccountedFor
    BY DEF NotebookInit, NoneUnsaved, EditsAccountedFor
  <1> QED
    BY <1>3, <1>4, <1>5 DEF NotebookInv

LEMMA JobMoves ==
    ASSUME NotebookTypes, JobsFit, NEW j \in Jobs, NEW r \in Job, JobFits(j, r), Becomes(j, r)
    PROVE  /\ nbJob' \in [Jobs -> Job] /\ JobsFit'
           /\ nbJob'[j] = r /\ \A k \in Jobs \ {j} : nbJob'[k] = nbJob[k]
  <1>1. /\ nbJob' \in [Jobs -> Job]
        /\ nbJob'[j] = r /\ \A k \in Jobs \ {j} : nbJob'[k] = nbJob[k]
    BY DEF NotebookTypes, Becomes
  <1> QED
    BY <1>1 DEF JobsFit

\* A call goes on, or ends, in memory.
LEMMA CallMoves ==
    ASSUME NotebookInv, NEW j \in Jobs, NEW r \in Job, JobFits(j, r), Becomes(j, r), r.node = Gone,
           j = Loop /\ r.step # "idle" => nbSaved[r.path] \subseteq r.copy.edits \cup nbReverted,
           UNCHANGED <<nbFile, History>>, nbCells' \in Nat, nbEdits' \in Nat
    PROVE  NotebookInv'
  <1>1. /\ nbJob' \in [Jobs -> Job] /\ JobsFit'
        /\ nbJob'[j] = r /\ \A k \in Jobs \ {j} : nbJob'[k] = nbJob[k]
    BY JobMoves DEF NotebookInv
  <1>2. UNCHANGED <<nbFile, nbSaved, nbReverted>>
    BY DEF History
  <1>3. NotebookTypes'
    BY <1>1, <1>2 DEF NotebookInv, NotebookTypes
  <1>4. NodesOpen' /\ LoopHolds'
    BY <1>1, <1>2 DEF NotebookInv, NodesOpen, LoopHolds, Jobs
  <1>5. NoneUnsaved' /\ EditsAccountedFor'
    BY <1>2 DEF NotebookInv, NoneUnsaved, EditsAccountedFor, Readable
  <1> QED
    BY <1>1, <1>3, <1>4, <1>5 DEF NotebookInv

LEMMA OpenStep ==
    ASSUME NotebookInv, NEW j \in Jobs, OpenFile(j)
    PROVE  NotebookInv'
  <1> DEFINE p == nbJob[j].path
             r == [nbJob[j] EXCEPT !.step = "write", !.node = p]
  <1>1. nbJob[j] \in Job /\ JobFits(j, nbJob[j]) /\ nbJob[j].step = "open" /\ p \in Paths
    BY DEF NotebookInv, NotebookTypes, JobsFit, OpenFile, JobFits
  <1>2. /\ r \in Job /\ JobFits(j, r) /\ Becomes(j, r)
        /\ r.node = p /\ r.path = p /\ r.copy = nbJob[j].copy
    BY <1>1 DEF Job, JobFits, OpenFile
  <1> HIDE DEF r
  <1>3. /\ nbJob' \in [Jobs -> Job] /\ JobsFit'
        /\ nbJob'[j] = r /\ \A k \in Jobs \ {j} : nbJob'[k] = nbJob[k]
    BY <1>2, JobMoves DEF NotebookInv
  <1>4. [text |-> "empty", book |-> NoCells] \in File
    BY EmptyBook DEF File
  <1>5. /\ nbFile' \in [Paths -> File] /\ nbFile'[p].text = "empty"
        /\ \A q \in Paths \ {p} : nbFile'[q] = nbFile[q]
    BY <1>1, <1>4 DEF OpenFile, NotebookInv, NotebookTypes
  <1>6. UNCHANGED <<nbSaved, nbReverted, nbCells, nbEdits>>
    BY DEF OpenFile, History
  <1>7. NotebookTypes'
    BY <1>3, <1>5, <1>6 DEF NotebookInv, NotebookTypes
  <1>8. NodesOpen'
    <2>1. ASSUME NEW k \in Jobs, nbJob'[k].node # Gone PROVE nbFile'[nbJob'[k].node].text # "none"
      <3>1. nbJob'[k].node \in Paths
        BY <1>3, <2>1 DEF Job
      <3>2. CASE nbJob'[k].node = p
        BY <1>5, <3>2
      <3>3. CASE nbJob'[k].node # p
        BY <1>2, <1>3, <1>5, <2>1, <3>1, <3>3 DEF NotebookInv, NodesOpen
      <3> QED
        BY <3>2, <3>3
    <2> QED
      BY <2>1 DEF NodesOpen
  <1>9. NoneUnsaved' /\ EditsAccountedFor'
    BY <1>5, <1>6 DEF NotebookInv, NoneUnsaved, EditsAccountedFor, Readable
  <1>10. LoopHolds'
    BY <1>1, <1>2, <1>3, <1>6 DEF NotebookInv, LoopHolds, Jobs
  <1> QED
    BY <1>3, <1>7, <1>8, <1>9, <1>10 DEF NotebookInv

LEMMA WriteStep ==
    ASSUME NotebookInv, NEW j \in Jobs, WriteFile(j)
    PROVE  NotebookInv'
  <1> DEFINE p == nbJob[j].node
             b == nbJob[j].copy
  <1>1. nbJob[j] \in Job /\ JobFits(j, nbJob[j]) /\ nbJob[j].step = "write" /\ p \in Paths \cup {Gone}
        /\ b \in Book
    BY DEF NotebookInv, NotebookTypes, JobsFit, WriteFile, Job
  <1>2. Becomes(j, Idle) /\ nbCells' \in Nat /\ nbEdits' \in Nat /\ Idle.node = Gone /\ Idle.step = "idle"
    BY DEF WriteFile, NotebookInv, NotebookTypes, Idle
  <1>3. CASE p = Gone
    <2>1. UNCHANGED <<nbFile, History>>
      BY <1>3 DEF WriteFile
    <2> QED
      BY <1>2, <2>1, EmptyBook, CallMoves
  <1>4. CASE p # Gone
    <2>1. /\ nbJob' \in [Jobs -> Job] /\ JobsFit'
          /\ nbJob'[j] = Idle /\ \A k \in Jobs \ {j} : nbJob'[k] = nbJob[k]
      BY <1>2, EmptyBook, JobMoves DEF NotebookInv
    <2>2. [text |-> "cells", book |-> b] \in File /\ [text |-> "torn", book |-> NoCells] \in File
      BY <1>1, EmptyBook DEF File
    <2>3. PICK f \in File : /\ nbFile' = [nbFile EXCEPT ![p] = f]
                            /\ f = [text |-> "cells", book |-> b] \/ f = [text |-> "torn", book |-> NoCells]
      BY <1>4, <2>2 DEF WriteFile
    <2>4. /\ nbFile' \in [Paths -> File] /\ nbFile'[p] = f /\ f.text # "none"
          /\ f.text = "cells" => f.book = b
          /\ \A q \in Paths \ {p} : nbFile'[q] = nbFile[q]
      BY <1>1, <1>4, <2>3 DEF NotebookInv, NotebookTypes
    <2>5. /\ nbSaved' = IF j = Loop THEN [nbSaved EXCEPT ![p] = @ \cup b.edits] ELSE nbSaved
          /\ nbReverted' = nbReverted \cup (IF j = Loop THEN {} ELSE nbSaved[p] \ b.edits)
      BY <1>1, <1>4 DEF WriteFile, JobFits
    <2>6. b.edits \subseteq Nat /\ nbSaved \in [Paths -> SUBSET Nat] /\ nbReverted \subseteq Nat
      BY <1>1 DEF Book, NotebookInv, NotebookTypes
    <2>7. nbSaved' \in [Paths -> SUBSET Nat] /\ nbReverted' \subseteq Nat
      BY <1>1, <1>4, <2>5, <2>6
    <2>8. NotebookTypes'
      BY <1>2, <2>1, <2>4, <2>7 DEF NotebookTypes
    <2>9. NodesOpen'
      <3>1. ASSUME NEW k \in Jobs, nbJob'[k].node # Gone PROVE nbFile'[nbJob'[k].node].text # "none"
        <4>1. k # j /\ nbJob'[k] = nbJob[k] /\ nbJob[k].node \in Paths
          BY <1>2, <2>1, <3>1 DEF Job
        <4> QED
          BY <2>4, <3>1, <4>1 DEF NotebookInv, NodesOpen
      <3> QED
        BY <3>1 DEF NodesOpen
    <2>10. nbReverted \subseteq nbReverted' /\ \A q \in Paths \ {p} : nbSaved'[q] = nbSaved[q]
      BY <2>5, <2>6
    <2>11. nbSaved'[p] \subseteq b.edits \cup nbReverted'
      <3>1. CASE j = Loop
        <4>1. nbSaved[p] \subseteq b.edits \cup nbReverted
          BY <1>1, <3>1 DEF NotebookInv, LoopHolds, JobFits
        <4> QED
          BY <1>1, <1>4, <2>5, <2>6, <3>1, <4>1
      <3>2. CASE j # Loop
        BY <2>5, <3>2
      <3> QED
        BY <3>1, <3>2
    <2>12. EditsAccountedFor'
      <3>1. ASSUME NEW q \in Paths, nbFile'[q].text = "cells"
            PROVE  nbSaved'[q] \subseteq nbFile'[q].book.edits \cup nbReverted'
        BY <2>4, <2>10, <2>11, <3>1 DEF NotebookInv, EditsAccountedFor, Readable
      <3> QED
        BY <3>1 DEF EditsAccountedFor, Readable
    <2>13. NoneUnsaved'
      BY <2>4, <2>10 DEF NotebookInv, NoneUnsaved
    <2>14. LoopHolds'
      <3>1. CASE j = Loop
        BY <1>2, <2>1, <3>1 DEF LoopHolds
      <3>2. CASE j # Loop
        <4>1. nbJob'[Loop] = nbJob[Loop] /\ nbSaved' = nbSaved
          BY <2>1, <2>5, <3>2 DEF Jobs
        <4> QED
          BY <2>10, <4>1 DEF NotebookInv, LoopHolds
      <3> QED
        BY <3>1, <3>2
    <2> QED
      BY <2>1, <2>8, <2>9, <2>12, <2>13, <2>14 DEF NotebookInv
  <1> QED
    BY <1>3, <1>4

\* A file is moved to path q, or to none, while the event loop's job is idle: what is open goes with it.
LEMMA MovedStep ==
    ASSUME NotebookInv, NEW p \in Paths, NEW q \in Paths \cup {Gone}, q # p, LoopFree, Moved(p, q)
    PROVE  /\ nbJob' \in [Jobs -> Job] /\ JobsFit' /\ nbJob'[Loop] = Idle
           /\ \A j \in Jobs : \/ nbJob[j].node = p /\ nbJob'[j].node = q
                              \/ nbJob[j].node # p /\ nbJob'[j] = nbJob[j]
  <1>1. Idle.node = Gone /\ Gone \notin Paths /\ nbJob[Loop] = Idle
    BY NotebookAssumption DEF Idle, LoopFree
  <1>2. ASSUME NEW j \in Jobs
        PROVE  /\ nbJob'[j] \in Job /\ JobFits(j, nbJob'[j])
               /\ \/ nbJob[j].node = p /\ nbJob'[j].node = q
                  \/ nbJob[j].node # p /\ nbJob'[j] = nbJob[j]
    <2>1. nbJob[j] \in Job /\ JobFits(j, nbJob[j])
      BY DEF NotebookInv, NotebookTypes, JobsFit
    <2>2. CASE nbJob[j].node = p
      <3>1. nbJob'[j] = [nbJob[j] EXCEPT !.node = q] /\ j # Loop /\ nbJob[j].step = "write"
        BY <1>1, <2>1, <2>2 DEF Moved, JobFits
      <3> QED
        BY <2>1, <2>2, <3>1 DEF Job, JobFits
    <2>3. CASE nbJob[j].node # p
      BY <2>1, <2>3 DEF Moved
    <2> QED
      BY <2>2, <2>3
  <1>3. nbJob' = [j \in Jobs |-> nbJob'[j]]
    BY DEF Moved
  <1>4. nbJob'[Loop] = Idle
    BY <1>1 DEF Moved, Jobs
  <1> QED
    BY <1>2, <1>3, <1>4 DEF JobsFit

LEMMA RenameStep ==
    ASSUME NotebookInv, NEW p \in Paths, NEW q \in Paths \ {p}, RenameNotebook(p, q)
    PROVE  NotebookInv'
  <1>1. /\ nbJob' \in [Jobs -> Job] /\ JobsFit' /\ nbJob'[Loop] = Idle
        /\ \A j \in Jobs : \/ nbJob[j].node = p /\ nbJob'[j].node = q
                           \/ nbJob[j].node # p /\ nbJob'[j] = nbJob[j]
    BY MovedStep DEF RenameNotebook
  <1>2. NoFile \in File
    BY EmptyBook DEF NoFile, File
  <1>3. /\ nbFile' \in [Paths -> File] /\ nbFile'[q] = nbFile[p] /\ nbFile'[p] = NoFile
        /\ \A o \in Paths \ {p, q} : nbFile'[o] = nbFile[o]
    BY <1>2 DEF RenameNotebook, NotebookInv, NotebookTypes
  <1>4. /\ nbSaved' \in [Paths -> SUBSET Nat] /\ nbSaved'[q] = nbSaved[p] /\ nbSaved'[p] = {}
        /\ \A o \in Paths \ {p, q} : nbSaved'[o] = nbSaved[o]
    BY DEF RenameNotebook, NotebookInv, NotebookTypes
  <1>5. UNCHANGED <<nbCells, nbEdits, nbReverted>> /\ nbFile[q].text = "none"
    BY DEF RenameNotebook, NoFile
  <1>6. NotebookTypes'
    BY <1>1, <1>3, <1>4, <1>5 DEF NotebookInv, NotebookTypes
  <1>7. NodesOpen'
    <2>1. ASSUME NEW j \in Jobs, nbJob'[j].node # Gone PROVE nbFile'[nbJob'[j].node].text # "none"
      <3>1. CASE nbJob[j].node = p
        BY <1>1, <1>3, <3>1, NotebookAssumption DEF NotebookInv, NodesOpen
      <3>2. CASE nbJob[j].node # p
        <4>1. nbJob'[j] = nbJob[j] /\ nbJob[j].node \in Paths \ {p}
          BY <1>1, <2>1, <3>2 DEF Job
        <4>2. nbFile[nbJob[j].node].text # "none"
          BY <2>1, <4>1 DEF NotebookInv, NodesOpen
        <4> QED
          BY <1>3, <1>5, <4>1, <4>2
      <3> QED
        BY <3>1, <3>2
    <2> QED
      BY <2>1 DEF NodesOpen
  <1>8. NoneUnsaved' /\ EditsAccountedFor'
    <2>1. ASSUME NEW o \in Paths
          PROVE  /\ nbFile'[o].text = "none" => nbSaved'[o] = {}
                 /\ nbFile'[o].text = "cells" => nbSaved'[o] \subseteq nbFile'[o].book.edits \cup nbReverted'
      <3> USE DEF NotebookInv, NoneUnsaved, EditsAccountedFor, Readable
      <3>1. CASE o = p
        BY <1>3, <1>4, <3>1 DEF NoFile
      <3>2. CASE o = q
        BY <1>3, <1>4, <1>5, <3>2
      <3>3. CASE o \notin {p, q}
        BY <1>3, <1>4, <1>5, <3>3
      <3> QED
        BY <3>1, <3>2, <3>3
    <2> QED
      BY <2>1 DEF NoneUnsaved, EditsAccountedFor, Readable
  <1>9. LoopHolds'
    BY <1>1 DEF LoopHolds, Idle
  <1> QED
    BY <1>1, <1>6, <1>7, <1>8, <1>9 DEF NotebookInv

LEMMA DeleteStep ==
    ASSUME NotebookInv, NEW p \in Paths, DeleteNotebook(p)
    PROVE  NotebookInv'
  <1>1. /\ nbJob' \in [Jobs -> Job] /\ JobsFit' /\ nbJob'[Loop] = Idle
        /\ \A j \in Jobs : \/ nbJob[j].node = p /\ nbJob'[j].node = Gone
                           \/ nbJob[j].node # p /\ nbJob'[j] = nbJob[j]
    BY MovedStep, NotebookAssumption DEF DeleteNotebook
  <1>2. NoFile \in File
    BY EmptyBook DEF NoFile, File
  <1>3. /\ nbFile' \in [Paths -> File] /\ nbFile'[p] = NoFile
        /\ \A o \in Paths \ {p} : nbFile'[o] = nbFile[o]
    BY <1>2 DEF DeleteNotebook, NotebookInv, NotebookTypes
  <1>4. /\ nbSaved' \in [Paths -> SUBSET Nat] /\ nbSaved'[p] = {}
        /\ \A o \in Paths \ {p} : nbSaved'[o] = nbSaved[o]
    BY DEF DeleteNotebook, NotebookInv, NotebookTypes
  <1>5. UNCHANGED <<nbCells, nbEdits, nbReverted>>
    BY DEF DeleteNotebook
  <1>6. NotebookTypes'
    BY <1>1, <1>3, <1>4, <1>5 DEF NotebookInv, NotebookTypes
  <1>7. NodesOpen'
    <2>1. ASSUME NEW j \in Jobs, nbJob'[j].node # Gone PROVE nbFile'[nbJob'[j].node].text # "none"
      <3>1. nbJob'[j] = nbJob[j] /\ nbJob[j].node \in Paths \ {p}
        BY <1>1, <2>1 DEF Job
      <3>2. nbFile[nbJob[j].node].text # "none"
        BY <2>1, <3>1 DEF NotebookInv, NodesOpen
      <3> QED
        BY <1>3, <3>1, <3>2
    <2> QED
      BY <2>1 DEF NodesOpen
  <1>8. NoneUnsaved' /\ EditsAccountedFor'
    BY <1>3, <1>4, <1>5 DEF NotebookInv, NoneUnsaved, EditsAccountedFor, Readable, NoFile
  <1>9. LoopHolds'
    BY <1>1 DEF LoopHolds, Idle
  <1> QED
    BY <1>1, <1>6, <1>7, <1>8, <1>9 DEF NotebookInv

LEMMA RestartStep ==
    ASSUME NotebookInv, StudioRestarts
    PROVE  NotebookInv'
  <1>1. nbJob' = [j \in Jobs |-> Idle] /\ UNCHANGED <<nbFile, nbCells, nbEdits, nbSaved, nbReverted>>
    BY DEF StudioRestarts, History
  <1>2. NotebookTypes' /\ JobsFit'
    BY <1>1, EmptyBook DEF NotebookInv, NotebookTypes, JobsFit
  <1>3. NodesOpen' /\ LoopHolds'
    BY <1>1 DEF NodesOpen, LoopHolds, Idle, Jobs
  <1>4. NoneUnsaved' /\ EditsAccountedFor'
    BY <1>1 DEF NotebookInv, NoneUnsaved, EditsAccountedFor, Readable
  <1> QED
    BY <1>2, <1>3, <1>4 DEF NotebookInv

LEMMA EditStep ==
    ASSUME NotebookInv, NEW j \in Jobs, NEW p \in Paths, Edit(j, p)
    PROVE  NotebookInv'
  <1> DEFINE book == nbFile[p].book
  <1>1. /\ book \in Book /\ nbCells \in Nat /\ nbEdits \in Nat /\ nbEdits' = nbEdits + 1
        /\ j = Loop /\ Readable(p) /\ UNCHANGED <<nbFile, History>>
    BY DEF Edit, Editors, NotebookInv, NotebookTypes, File
  <1>2. PICK cells \in Edited(book.cells) :
            /\ Becomes(j, Opening(p, [cells |-> cells, edits |-> book.edits \cup {nbEdits'}]))
            /\ nbCells' = IF Len(cells) > Len(book.cells) THEN nbCells + 1 ELSE nbCells
    BY DEF Edit
  <1> DEFINE b == [cells |-> cells, edits |-> book.edits \cup {nbEdits + 1}]
             r == Opening(p, b)
  <1>3. cells \in Seq(Cell) /\ book.edits \subseteq Nat
    BY <1>1, <1>2, EditedType DEF Book
  <1>4. b \in Book /\ b.edits = book.edits \cup {nbEdits + 1}
    BY <1>1, <1>3 DEF Book
  <1>5. r \in Job /\ JobFits(j, r) /\ r.node = Gone /\ r.path = p /\ r.copy = b
    BY <1>1, <1>4 DEF Opening, Idle, Job, JobFits
  <1>6. nbSaved[p] \subseteq b.edits \cup nbReverted
    BY <1>1, <1>4 DEF NotebookInv, EditsAccountedFor
  <1>7. Becomes(j, r) /\ nbCells' \in Nat /\ nbEdits' \in Nat
    BY <1>1, <1>2
  <1> HIDE DEF r, b
  <1> QED
    BY <1>1, <1>5, <1>6, <1>7, CallMoves

LEMMA CreateStep ==
    ASSUME NotebookInv, NEW p \in Paths, CreateNotebook(p)
    PROVE  NotebookInv'
  <1> DEFINE b == [cells |-> Blank(nbCells), edits |-> {}]
             r == Opening(p, b)
  <1>1. nbCells \in Nat /\ nbCells' = nbCells + Len(Template) /\ Len(Template) \in Nat
    BY NotebookAssumption, LenProperties DEF CreateNotebook, NotebookInv, NotebookTypes
  <1>2. b \in Book
    BY <1>1, BlankType DEF Book
  <1>3. r \in Job /\ JobFits(Loop, r) /\ r.node = Gone /\ r.path = p
    BY <1>2 DEF Opening, Idle, Job, JobFits
  <1>4. nbSaved[p] = {} /\ Loop \in Jobs
    BY DEF CreateNotebook, NoFile, NotebookInv, NoneUnsaved, Jobs
  <1>5. Becomes(Loop, r) /\ UNCHANGED <<nbFile, History>> /\ nbCells' \in Nat /\ nbEdits' \in Nat
    BY <1>1 DEF CreateNotebook, NotebookInv, NotebookTypes
  <1> HIDE DEF r
  <1> QED
    BY <1>3, <1>4, <1>5, CallMoves

\* What is sent to the kernel is the source of a cell of the copy.
LEMMA SendType ==
    ASSUME NEW j \in Jobs, NEW r \in Job, r.path \in Paths, r.kind = "edit" <=> j = Loop, r.node = Gone,
           NEW cells \in SUBSET DOMAIN r.copy.cells
    PROVE  /\ Send(r, cells) \in Job /\ JobFits(j, Send(r, cells))
           /\ Send(r, cells).node = Gone /\ Send(r, cells).path = r.path
           /\ Send(r, cells).copy = r.copy
  <1>1. CASE cells = {}
    BY <1>1 DEF Send, Job, JobFits
  <1>2. CASE cells # {}
    <2>1. r.copy.cells \in Seq(Cell)
      BY DEF Job, Book
    <2>2. cells \in SUBSET Nat /\ \A i \in cells : r.copy.cells[i].id \in Nat
      BY <2>1, CellsType DEF Cell
    <2> DEFINE i == CHOOSE i \in cells : \A k \in cells : i <= k
    <2>3. i \in cells
      <3>1. \E n \in cells : \A k \in cells : n <= k
        BY <1>2, <2>2, SmallestExists
      <3> QED
        BY <3>1
    <2>4. Send(r, cells) = [r EXCEPT !.step = "kernel", !.at = i, !.sent = r.copy.cells[i].id]
      BY <1>2 DEF Send
    <2> HIDE DEF i
    <2> QED
      BY <2>2, <2>3, <2>4 DEF Job, JobFits
  <1> QED
    BY <1>1, <1>2

LEMMA ExecuteStep ==
    ASSUME NotebookInv, NEW j \in Jobs, NEW p \in Paths, NEW kind \in {"cell", "all"}, Execute(j, p, kind)
    PROVE  NotebookInv'
  <1> DEFINE r == [Opening(p, nbFile[p].book) EXCEPT !.kind = kind]
             code == CodeCells(r.copy.cells, 1)
  <1>1. j # Loop
    BY NotebookAssumption DEF Execute
  <1>2. nbFile[p].book \in Book
    BY DEF NotebookInv, NotebookTypes, File
  <1>3. r \in Job /\ r.path = p /\ r.kind = kind /\ r.node = Gone /\ r.copy = nbFile[p].book
    BY <1>2 DEF Opening, Idle, Job
  <1>4. code \subseteq DOMAIN r.copy.cells
    BY <1>2, <1>3, CellsType DEF CodeCells, Book
  <1>5. UNCHANGED <<nbFile, History>> /\ nbCells' \in Nat /\ nbEdits' \in Nat
    BY DEF Execute, NotebookInv, NotebookTypes
  <1>6. \E cells \in SUBSET DOMAIN r.copy.cells : Becomes(j, Send(r, cells))
    <2>1. CASE kind = "all"
      BY <1>4, <2>1 DEF Execute
    <2>2. CASE kind # "all"
      <3>1. PICK i \in DOMAIN r.copy.cells : Becomes(j, Send(r, {i} \cap code))
        BY <2>2 DEF Execute
      <3>2. {i} \cap code \in SUBSET DOMAIN r.copy.cells
        BY <1>4
      <3> QED
        BY <3>1, <3>2
    <2> QED
      BY <2>1, <2>2
  <1> HIDE DEF r
  <1>7. PICK cells \in SUBSET DOMAIN r.copy.cells : Becomes(j, Send(r, cells))
    BY <1>6
  <1>8. Send(r, cells) \in Job /\ JobFits(j, Send(r, cells)) /\ Send(r, cells).node = Gone
    BY <1>1, <1>3, SendType
  <1> QED
    BY <1>1, <1>5, <1>7, <1>8, CallMoves

LEMMA AnswerStep ==
    ASSUME NotebookInv, NEW j \in Jobs, KernelAnswers(j)
    PROVE  NotebookInv'
  <1> DEFINE q == nbJob[j]
             r == Outputs(q)
  <1>1. /\ q \in Job /\ q.path \in Paths /\ q.node = Gone /\ (q.kind = "edit" <=> j = Loop)
        /\ q.step = "kernel" /\ q.at \in DOMAIN q.copy.cells /\ q.sent = q.copy.cells[q.at].id
    BY DEF NotebookInv, NotebookTypes, JobsFit, JobFits, KernelAnswers
  <1>2. q.copy \in Book /\ q.copy.cells \in Seq(Cell)
    BY <1>1 DEF Job, Book
  <1>3. [q.copy.cells EXCEPT ![q.at].out = q.sent] \in Seq(Cell)
    BY <1>1, <1>2, OutputType
  <1>4. /\ r \in Job /\ r.path = q.path /\ r.node = Gone /\ r.kind = q.kind
        /\ r.copy.edits = q.copy.edits /\ r.copy.cells \in Seq(Cell)
    BY <1>1, <1>2, <1>3 DEF Outputs, Job, Book
  <1>5. UNCHANGED <<nbFile, History>> /\ nbCells' \in Nat /\ nbEdits' \in Nat
    BY DEF KernelAnswers, NotebookInv, NotebookTypes
  <1>6. Becomes(j, Idle) \/ \E cells \in SUBSET DOMAIN r.copy.cells : Becomes(j, Send(r, cells))
    <2>1. CodeCells(r.copy.cells, r.at + 1) \subseteq DOMAIN r.copy.cells
      <3>1. r.at \in Nat /\ DOMAIN r.copy.cells = 1..Len(r.copy.cells) /\ Len(r.copy.cells) \in Nat
        BY <1>4, CellsType DEF Job
      <3> QED
        BY <3>1 DEF CodeCells
    <2> QED
      BY <2>1 DEF KernelAnswers
  <1>7. j = Loop => nbSaved[q.path] \subseteq q.copy.edits \cup nbReverted
    BY <1>1 DEF NotebookInv, LoopHolds
  <1> HIDE DEF r
  <1>8. CASE Becomes(j, Idle)
    BY <1>5, <1>8, EmptyBook, CallMoves DEF Idle
  <1>9. ASSUME NEW cells \in SUBSET DOMAIN r.copy.cells, Becomes(j, Send(r, cells)) PROVE NotebookInv'
    <2>1. /\ Send(r, cells) \in Job /\ JobFits(j, Send(r, cells))
          /\ Send(r, cells).node = Gone /\ Send(r, cells).path = r.path /\ Send(r, cells).copy = r.copy
      BY <1>1, <1>4, SendType
    <2> QED
      BY <1>4, <1>5, <1>7, <1>9, <2>1, CallMoves
  <1> QED
    BY <1>6, <1>8, <1>9

LEMMA FailStep ==
    ASSUME NotebookInv, NEW j \in Jobs, WriteFails(j)
    PROVE  NotebookInv'
  <1>1. Becomes(j, Idle) /\ UNCHANGED <<nbFile, History>> /\ nbCells' \in Nat /\ nbEdits' \in Nat
    BY DEF WriteFails, NotebookInv, NotebookTypes
  <1> QED
    BY <1>1, EmptyBook, CallMoves DEF Idle

LEMMA NotebookInvHolds == NotebookSpec => []NotebookInv
  <1>1. NotebookInv /\ UNCHANGED notebookVars => NotebookInv'
    <2> SUFFICES ASSUME NotebookInv, UNCHANGED notebookVars PROVE NotebookInv'
      OBVIOUS
    <2>1. UNCHANGED <<nbFile, nbJob, nbCells, nbEdits, nbSaved, nbReverted>>
      BY DEF notebookVars
    <2>2. NotebookTypes' /\ JobsFit' /\ NodesOpen'
      BY <2>1 DEF NotebookInv, NotebookTypes, JobsFit, NodesOpen
    <2>3. NoneUnsaved' /\ LoopHolds' /\ EditsAccountedFor'
      BY <2>1 DEF NotebookInv, NoneUnsaved, LoopHolds, EditsAccountedFor, Readable
    <2> QED
      BY <2>2, <2>3 DEF NotebookInv
  <1>2. NotebookInv /\ NotebookNext => NotebookInv'
    BY DeleteStep, RenameStep, RestartStep, EditStep, CreateStep, ExecuteStep, AnswerStep, OpenStep,
       WriteStep, FailStep DEF NotebookNext
  <1> QED
    BY <1>1, <1>2, InitInv, PTL DEF NotebookSpec

\* For any number of notebooks, worker threads and calls: an output stands under the cell that produced it,
\* in every file and in every copy a call holds.
THEOREM OutputsStay == NotebookSpec => []OutputsStayWithTheirCell
  <1>1. NotebookInv => OutputsStayWithTheirCell
    <2> SUFFICES ASSUME NotebookInv, NEW cells \in Held, NEW i \in DOMAIN cells
                 PROVE  cells[i].out \in {0, cells[i].id}
      BY DEF OutputsStayWithTheirCell
    <2>1. cells \in Seq(Cell)
      BY DEF NotebookInv, NotebookTypes, Held, File, Job, Book
    <2> QED
      BY <2>1, CellsType DEF Cell
  <1> QED
    BY <1>1, NotebookInvHolds, PTL

\* An edit that was answered is in its notebook, unless an execution wrote an older copy over it.
THEOREM EditsStay == NotebookSpec => []EditsAccountedFor
  <1>1. NotebookInv => EditsAccountedFor
    BY DEF NotebookInv
  <1> QED
    BY <1>1, NotebookInvHolds, PTL

-----------------------------------------------------------------------------
(* Dashboards: types. *)

Marks == {"none", "blocked", "custom"}
Steps == {"idle", "lookup", "entry", "expired", "query", "room", "evict", "store"}

\* An entry of the cache: its key ends in the fingerprint of the rule its result was computed under.
Entry == {e \in [key : (Queries \cup {""}) \X Marks, rule : Rules, fresh : BOOLEAN] :
             e.key[2] = Fingerprint(e.rule)}

DashboardTypes ==
    /\ dbRules \in [Users -> Rules] /\ dbCache \in Seq(Entry)
    /\ dbStep \in [Callers -> Steps] /\ dbQuery \in [Callers -> Queries \cup {""}]
    /\ dbRule \in [Callers -> Rules]

Storing == {c \in Callers : dbStep[c] = "store"}

DashboardInv == DashboardTypes /\ CacheKept

LEMMA RuleTypes == NoRule \in Rules /\ \A r \in Rules : Fingerprint(r) \in Marks
  <1>1. NoRule \in Rules
    BY DEF Rules
  <1>2. ASSUME NEW r \in Rules PROVE Fingerprint(r) \in Marks
    <2>1. CASE r = NoRule \/ r = [masks |-> "blocked", expr |-> ""]
      <3>1. NoRule.masks = "none" /\ [masks |-> "blocked", expr |-> ""].masks = "blocked"
        BY DEF NoRule
      <3> QED
        BY <2>1, <3>1, Zenon DEF Fingerprint, Marks
    <2>2. CASE r \in [masks : {"custom"}, expr : {"old", "new"}]
      BY <2>2 DEF Fingerprint, Marks
    <2> QED
      BY <2>1, <2>2 DEF Rules
  <1> QED
    BY <1>1, <1>2

LEMMA CacheType ==
    ASSUME NEW s \in Seq(Entry)
    PROVE  Len(s) \in Nat /\ DOMAIN s = 1..Len(s) /\ \A i \in DOMAIN s : s[i] \in Entry
  BY LenProperties, ElementOfSeq

LEMMA PlaceFound ==
    ASSUME NEW key, Cached(key)
    PROVE  Place(key) \in DOMAIN dbCache /\ EntryOf(key).key = key
  BY DEF Cached, Place, EntryOf

\* An entry is taken out of the cache, or there is none.
LEMMA RemovedLength ==
    ASSUME NEW s \in Seq(Entry), NEW i \in DOMAIN s
    PROVE  RemoveAt(s, i) \in Seq(Entry) /\ Len(RemoveAt(s, i)) = Len(s) - 1
  <1>1. i \in 1..Len(s) /\ Len(s) \in Nat /\ \A k \in 1..Len(s) : s[k] \in Entry
    BY CacheType
  <1>2. SubSeq(s, 1, i - 1) \in Seq(Entry) /\ Len(SubSeq(s, 1, i - 1)) = i - 1
    BY <1>1, SubSeqProperties
  <1>3. SubSeq(s, i + 1, Len(s)) \in Seq(Entry) /\ Len(SubSeq(s, i + 1, Len(s))) = Len(s) - i
    BY <1>1, SubSeqProperties
  <1>4. /\ RemoveAt(s, i) \in Seq(Entry)
        /\ Len(RemoveAt(s, i)) = Len(SubSeq(s, 1, i - 1)) + Len(SubSeq(s, i + 1, Len(s)))
    BY <1>2, <1>3, ConcatProperties DEF RemoveAt
  <1>5. \A n \in Nat : \A k \in 1..n : (k - 1) + (n - k) = n - 1
    OBVIOUS
  <1> QED
    BY <1>1, <1>2, <1>3, <1>4, <1>5, Zenon

LEMMA DroppedLength ==
    ASSUME dbCache \in Seq(Entry), NEW key
    PROVE  /\ Dropped(key) \in Seq(Entry) /\ Len(Dropped(key)) \in Nat
           /\ Len(Dropped(key)) <= Len(dbCache)
           /\ Cached(key) => Len(Dropped(key)) = Len(dbCache) - 1
  <1>1. CASE Cached(key)
    <2>1. Place(key) \in DOMAIN dbCache /\ Dropped(key) = RemoveAt(dbCache, Place(key))
      BY <1>1, PlaceFound DEF Dropped
    <2> QED
      BY <2>1, RemovedLength, CacheType
  <1>2. CASE ~Cached(key)
    BY <1>2, CacheType DEF Dropped
  <1> QED
    BY <1>1, <1>2

LEMMA AppendedLength ==
    ASSUME NEW s \in Seq(Entry), NEW e \in Entry
    PROVE  Append(s, e) \in Seq(Entry) /\ Len(Append(s, e)) = Len(s) + 1
  OBVIOUS

LEMMA AgedLength ==
    ASSUME NEW s \in Seq(Entry), NEW i \in DOMAIN s
    PROVE  [s EXCEPT ![i].fresh = FALSE] \in Seq(Entry) /\ Len([s EXCEPT ![i].fresh = FALSE]) = Len(s)
  <1>1. i \in 1..Len(s) /\ s[i] \in Entry
    BY CacheType
  <1>2. [s[i] EXCEPT !.fresh = FALSE] \in Entry
    BY <1>1 DEF Entry
  <1> QED
    BY <1>1, <1>2, ExceptSeq

-----------------------------------------------------------------------------
(* Dashboards: steps. *)

LEMMA StoringBound ==
    /\ IsFiniteSet(Callers) /\ Cardinality(Callers) = Cardinality(Exporters) + 1
    /\ Cardinality(Exporters) \in Nat /\ MaxCacheSize \in Nat \ {0}
    /\ \A S \in SUBSET Callers :
           /\ IsFiniteSet(S) /\ Cardinality(S) \in Nat /\ Cardinality(S) <= Cardinality(Exporters) + 1
           /\ \A c \in Callers : /\ c \notin S => Cardinality(S \cup {c}) = Cardinality(S) + 1
                                 /\ c \in S => Cardinality(S \ {c}) = Cardinality(S) - 1
  <1>1. IsFiniteSet(Exporters) /\ Viewer \notin Exporters /\ MaxCacheSize \in Nat \ {0}
    BY DashboardAssumption
  <1>2. IsFiniteSet(Callers) /\ Cardinality(Callers) = Cardinality(Exporters) + 1
        /\ Cardinality(Exporters) \in Nat
    BY <1>1, FS_AddElement, FS_CardinalityType DEF Callers
  <1>3. ASSUME NEW S \in SUBSET Callers
        PROVE  /\ IsFiniteSet(S) /\ Cardinality(S) \in Nat /\ Cardinality(S) <= Cardinality(Exporters) + 1
               /\ \A c \in Callers : /\ c \notin S => Cardinality(S \cup {c}) = Cardinality(S) + 1
                                     /\ c \in S => Cardinality(S \ {c}) = Cardinality(S) - 1
    <2>1. IsFiniteSet(S) /\ Cardinality(S) <= Cardinality(Callers)
      BY <1>2, FS_Subset
    <2> QED
      BY <1>2, <2>1, FS_AddElement, FS_RemoveElement, FS_CardinalityType
  <1> QED
    BY <1>1, <1>2, <1>3

\* Only its caller's step changes, and the cache by a bounded amount.
LEMMA Grown ==
    ASSUME DashboardInv, NEW c \in Callers, NEW step \in Steps, Goto(c, step),
           dbCache' \in Seq(Entry),
           /\ step = "store" => /\ dbStep[c] # "store"
                                /\ \/ Len(dbCache') + 1 <= Len(dbCache)
                                   \/ dbCache' = dbCache /\ Len(dbCache) < MaxCacheSize
           /\ step # "store" => \/ Len(dbCache') <= Len(dbCache)
                                \/ dbStep[c] = "store" /\ Len(dbCache') <= Len(dbCache) + 1
    PROVE  Overshoot' /\ dbStep' \in [Callers -> Steps]
  <1>1. /\ dbStep \in [Callers -> Steps] /\ Len(dbCache) \in Nat /\ Len(dbCache') \in Nat
        /\ Len(dbCache) + Cardinality(Storing) <= MaxCacheSize + Cardinality(Exporters)
    BY CacheType DEF DashboardInv, DashboardTypes, CacheKept, Overshoot, Storing
  <1>2. dbStep' \in [Callers -> Steps] /\ dbStep'[c] = step
        /\ \A d \in Callers \ {c} : dbStep'[d] = dbStep[d]
    BY <1>1 DEF Goto
  <1>3. /\ Cardinality(Storing) \in Nat /\ Cardinality(Storing) <= Cardinality(Exporters) + 1
        /\ c \notin Storing => Cardinality(Storing \cup {c}) = Cardinality(Storing) + 1
        /\ c \in Storing => Cardinality(Storing \ {c}) = Cardinality(Storing) - 1
        /\ Cardinality(Storing \cup {c}) \in Nat
    BY StoringBound DEF Storing
  <1>4. Cardinality(Exporters) \in Nat /\ MaxCacheSize \in Nat
    BY StoringBound
  <1>5. Len(dbCache') + Cardinality(Storing') <= MaxCacheSize + Cardinality(Exporters)
    <2>1. CASE step = "store"
      <3>1. Storing' = Storing \cup {c} /\ c \notin Storing
        BY <1>2, <2>1 DEF Storing
      <3>2. Cardinality(Storing \cup {c}) <= Cardinality(Exporters) + 1
        BY StoringBound DEF Storing
      <3>3. Cardinality(Storing') = Cardinality(Storing) + 1 /\ Cardinality(Storing') <= Cardinality(Exporters) + 1
        BY <1>3, <3>1, <3>2
      <3> QED
        BY <1>1, <1>3, <1>4, <2>1, <3>3
    <2>2. CASE step # "store" /\ dbStep[c] = "store"
      <3>1. Storing' = Storing \ {c} /\ c \in Storing
        BY <1>2, <2>2 DEF Storing
      <3> QED
        BY <1>1, <1>3, <1>4, <2>2, <3>1
    <2>3. CASE step # "store" /\ dbStep[c] # "store"
      <3>1. Storing' = Storing
        BY <1>2, <2>3 DEF Storing
      <3> QED
        BY <1>1, <1>3, <1>4, <2>3, <3>1
    <2> QED
      BY <2>1, <2>2, <2>3
  <1> QED
    BY <1>2, <1>5 DEF Overshoot, Storing

LEMMA Reflexive == \A n \in Nat : n <= n
  OBVIOUS

LEMMA CallerStep ==
    ASSUME DashboardInv, NEW c \in Callers,
           \/ Lookup(c) \/ ReadEntry(c) \/ DropExpired(c) \/ RunQuery(c) \/ Room(c) \/ Evict(c) \/ Store(c)
    PROVE  DashboardInv'
  <1>1. DashboardTypes /\ Len(dbCache) \in Nat /\ MaxCacheSize \in Nat
        /\ dbCache \in Seq(Entry) /\ dbRule[c] \in Rules /\ dbQuery[c] \in Queries \cup {""}
    BY CacheType, StoringBound DEF DashboardInv, DashboardTypes
  <1>2. UNCHANGED <<dbRules, dbQuery, dbRule>>
    BY DEF Lookup, ReadEntry, DropExpired, RunQuery, Room, Evict, Store, Request, World
  <1>3. CacheKey(c) \in (Queries \cup {""}) \X Marks /\ CacheKey(c)[2] = Fingerprint(dbRule[c])
    BY <1>1, RuleTypes DEF CacheKey
  <1> DEFINE Bounded(step) ==
                 /\ step = "store" => /\ dbStep[c] # "store"
                                      /\ \/ Len(dbCache') + 1 <= Len(dbCache)
                                         \/ dbCache' = dbCache /\ Len(dbCache) < MaxCacheSize
                 /\ step # "store" => \/ Len(dbCache') <= Len(dbCache)
                                      \/ dbStep[c] = "store" /\ Len(dbCache') <= Len(dbCache) + 1
  <1>4. dbCache' \in Seq(Entry) /\ \E step \in Steps : Goto(c, step) /\ Bounded(step)
    <2>1. CASE Lookup(c) \/ ReadEntry(c) \/ RunQuery(c)
      <3>1. PICK step \in Steps \ {"store"} : Goto(c, step)
        BY <2>1 DEF Lookup, ReadEntry, RunQuery, Steps
      <3>2. dbCache' = dbCache
        BY <2>1 DEF Lookup, ReadEntry, RunQuery
      <3>3. Len(dbCache') <= Len(dbCache)
        BY <1>1, <3>2, Reflexive, Zenon
      <3>4. Bounded(step)
        BY <3>1, <3>3, Zenon
      <3> QED
        BY <1>1, <3>1, <3>2, <3>4
    <2>2. CASE DropExpired(c)
      <3>1. PICK step \in Steps \ {"store"} : Goto(c, step)
        BY <2>2 DEF DropExpired, Steps
      <3>2. dbCache' \in Seq(Entry) /\ Len(dbCache') <= Len(dbCache)
        BY <1>1, <2>2, DroppedLength DEF DropExpired
      <3>3. Bounded(step)
        BY <3>1, <3>2
      <3> QED
        BY <3>1, <3>2, <3>3
    <2>3. CASE Room(c)
      <3>1. PICK step \in Steps : Goto(c, step) /\ (step = "store" => ~(Len(dbCache) >= MaxCacheSize))
        BY <2>3 DEF Room, Steps
      <3>2. dbCache' = dbCache /\ dbStep[c] = "room"
        BY <2>3 DEF Room
      <3>3. Len(dbCache') <= Len(dbCache) /\ (step = "store" => Len(dbCache) < MaxCacheSize)
        <4>1. \A m, n \in Nat : ~(m >= n) => m < n
          OBVIOUS
        <4> QED
          BY <1>1, <3>1, <3>2, <4>1, Reflexive, Zenon
      <3>4. dbStep[c] # "store"
        BY <3>2
      <3>5. Bounded(step)
        BY <3>2, <3>3, <3>4, Zenon
      <3> QED
        BY <1>1, <3>1, <3>2, <3>5
    <2>4. CASE Evict(c)
      <3>1. CASE Cached(dbVictim[c]) /\ dbCache' = Dropped(dbVictim[c]) /\ Goto(c, "store")
        <4>1. dbCache' \in Seq(Entry) /\ Len(dbCache') = Len(dbCache) - 1
          BY <1>1, <3>1, DroppedLength
        <4>2. dbStep[c] # "store" /\ "store" \in Steps
          BY <2>4 DEF Evict, Steps
        <4>3. Len(dbCache') + 1 <= Len(dbCache)
          <5>1. \A n \in Nat : (n - 1) + 1 <= n
            OBVIOUS
          <5> QED
            BY <1>1, <4>1, <5>1, Zenon
        <4>4. Bounded("store")
          BY <4>2, <4>3
        <4> QED
          BY <3>1, <4>1, <4>2, <4>4
      <3>2. CASE Goto(c, "idle") /\ UNCHANGED dbCache
        <4>1. Len(dbCache') <= Len(dbCache) /\ "idle" # "store" /\ "idle" \in Steps
          BY <1>1, <3>2, Reflexive, Zenon DEF Steps
        <4>2. Bounded("idle")
          BY <4>1, Zenon
        <4> QED
          BY <1>1, <3>2, <4>1, <4>2
      <3> QED
        BY <2>4, <3>1, <3>2 DEF Evict
    <2>5. CASE Store(c)
      <3> DEFINE e == [key |-> CacheKey(c), rule |-> dbRule[c], fresh |-> TRUE]
                 d == Dropped(CacheKey(c))
      <3>1. e \in Entry
        BY <1>1, <1>3 DEF Entry
      <3>2. d \in Seq(Entry) /\ Len(d) \in Nat /\ Len(d) <= Len(dbCache)
        BY <1>1, DroppedLength
      <3>3. dbCache' = Append(d, e) /\ Goto(c, "idle") /\ dbStep[c] = "store"
        BY <2>5 DEF Store
      <3> HIDE DEF e, d
      <3>4. dbCache' \in Seq(Entry) /\ Len(dbCache') = Len(d) + 1
        BY <3>1, <3>2, <3>3, AppendedLength
      <3>5. Len(dbCache') <= Len(dbCache) + 1
        <4>1. \A m, n \in Nat : m <= n => m + 1 <= n + 1
          OBVIOUS
        <4> QED
          BY <1>1, <3>2, <3>4, <4>1, Zenon
      <3>6. Bounded("idle") /\ "idle" \in Steps
        BY <3>3, <3>5 DEF Steps
      <3> QED
        BY <3>3, <3>4, <3>6
    <2> QED
      BY <2>1, <2>2, <2>3, <2>4, <2>5
  <1>5. Overshoot' /\ dbStep' \in [Callers -> Steps]
    BY <1>4, Grown
  <1>6. HitsMatchPolicies'
    <2>1. CASE dbHit' = dbHit
      BY <2>1 DEF DashboardInv, CacheKept, HitsMatchPolicies
    <2>2. CASE dbHit' # dbHit
      <3>1. Cached(CacheKey(c)) /\ dbHit' = [asked |-> dbRule[c], given |-> EntryOf(CacheKey(c)).rule]
        BY <2>2 DEF Lookup, ReadEntry, DropExpired, RunQuery, Room, Evict, Store
      <3>2. EntryOf(CacheKey(c)) \in Entry /\ EntryOf(CacheKey(c)).key = CacheKey(c)
        BY <1>1, <3>1, PlaceFound, CacheType DEF EntryOf
      <3> QED
        BY <1>3, <3>1, <3>2 DEF Entry, HitsMatchPolicies
    <2> QED
      BY <2>1, <2>2
  <1> QED
    BY <1>1, <1>2, <1>4, <1>5, <1>6 DEF DashboardInv, DashboardTypes, CacheKept

LEMMA OtherSteps ==
    ASSUME DashboardInv,
           Age \/ ClearCache \/ (\E u \in Users : ChangePolicy(u))
               \/ \E c \in Callers, u \in Users, q \in Queries : Govern(c, u, q)
    PROVE  DashboardInv'
  <1>1. DashboardTypes /\ Len(dbCache) \in Nat /\ MaxCacheSize \in Nat /\ dbCache \in Seq(Entry)
        /\ Cardinality(Storing) \in Nat /\ Cardinality(Storing) <= Cardinality(Exporters) + 1
        /\ Cardinality(Exporters) \in Nat /\ MaxCacheSize >= 1
    <2>1. Storing \in SUBSET Callers
      BY DEF Storing
    <2>2. /\ Cardinality(Storing) \in Nat /\ Cardinality(Storing) <= Cardinality(Exporters) + 1
          /\ Cardinality(Exporters) \in Nat /\ MaxCacheSize \in Nat \ {0}
      BY <2>1, StoringBound
    <2>3. DashboardTypes /\ Len(dbCache) \in Nat /\ dbCache \in Seq(Entry)
      BY CacheType DEF DashboardInv, DashboardTypes
    <2> QED
      BY <2>2, <2>3
  <1>2. dbHit' = dbHit
    BY DEF Age, ClearCache, ChangePolicy, Govern
  <1>3. CASE Age
    <2>1. PICK i \in DOMAIN dbCache : dbCache' = [dbCache EXCEPT ![i].fresh = FALSE]
      BY <1>3 DEF Age
    <2>2. dbCache' \in Seq(Entry) /\ Len(dbCache') = Len(dbCache)
      BY <1>1, <2>1, AgedLength
    <2>3. UNCHANGED <<dbRules, dbStep, dbQuery, dbRule>>
      BY <1>3 DEF Age, Request, World
    <2> QED
      BY <1>1, <1>2, <2>2, <2>3 DEF DashboardInv, DashboardTypes, CacheKept, HitsMatchPolicies, Overshoot
  <1>4. CASE ClearCache
    <2>1. dbCache' = <<>> /\ UNCHANGED <<dbRules, dbStep, dbQuery, dbRule>>
      BY <1>4 DEF ClearCache, Request, World
    <2>2. dbCache' \in Seq(Entry) /\ Len(dbCache') = 0
      BY <2>1, EmptySeq
    <2>3. Overshoot'
      BY <1>1, <2>1, <2>2 DEF Overshoot, Storing
    <2> QED
      BY <1>1, <1>2, <2>1, <2>2, <2>3 DEF DashboardInv, DashboardTypes, CacheKept, HitsMatchPolicies
  <1>5. CASE \E u \in Users : ChangePolicy(u)
    <2>1. dbRules' \in [Users -> Rules] /\ UNCHANGED <<dbCache, dbStep, dbQuery, dbRule>>
      BY <1>1, <1>5 DEF ChangePolicy, Request, DashboardTypes
    <2> QED
      BY <1>1, <1>2, <2>1 DEF DashboardInv, DashboardTypes, CacheKept, HitsMatchPolicies, Overshoot
  <1>6. CASE \E c \in Callers, u \in Users, q \in Queries : Govern(c, u, q)
    <2>1. PICK c \in Callers, u \in Users, q \in Queries : Govern(c, u, q)
      BY <1>6
    <2>2. UNCHANGED <<dbRules, dbCache>>
      BY <2>1 DEF Govern
    <2>3. CASE UNCHANGED <<dbStep, Request>>
      BY <1>1, <1>2, <2>2, <2>3 DEF DashboardInv, DashboardTypes, CacheKept, HitsMatchPolicies, Overshoot, Request
    <2>4. CASE /\ Goto(c, "lookup") /\ dbQuery' = [dbQuery EXCEPT ![c] = q]
               /\ dbRule' = [dbRule EXCEPT ![c] = dbRules[u]]
      <3>1. dbQuery' \in [Callers -> Queries \cup {""}] /\ dbRule' \in [Callers -> Rules]
        BY <1>1, <2>4 DEF DashboardTypes
      <3>2. Overshoot' /\ dbStep' \in [Callers -> Steps]
        <4>1. "lookup" \in Steps /\ dbCache' \in Seq(Entry) /\ Len(dbCache') <= Len(dbCache)
          BY <1>1, <2>2 DEF Steps
        <4> QED
          BY <2>4, <4>1, Grown
      <3> QED
        BY <1>1, <1>2, <2>2, <3>1, <3>2 DEF DashboardInv, DashboardTypes, CacheKept, HitsMatchPolicies
    <2> QED
      BY <2>1, <2>3, <2>4 DEF Govern
  <1> QED
    BY <1>3, <1>4, <1>5, <1>6

\* For any number of exporting threads, queries and calls: an answer from the cache fits the policies its
\* caller was given, and callers that overlap overshoot the limit by at most one entry for each thread.
THEOREM CacheIsKept == DashboardSpec => []CacheKept
  <1>1. DashboardInit => DashboardInv
    <2> SUFFICES ASSUME DashboardInit PROVE DashboardInv
      OBVIOUS
    <2>1. DashboardTypes
      BY EmptySeq, RuleTypes DEF DashboardInit, DashboardTypes, Steps
    <2>2. Len(dbCache) = 0 /\ Storing = {}
      BY DEF DashboardInit, Storing
    <2>3. Overshoot
      BY <2>2, StoringBound, FS_EmptySet DEF Overshoot, Storing
    <2>4. HitsMatchPolicies
      BY DEF DashboardInit, HitsMatchPolicies
    <2> QED
      BY <2>1, <2>3, <2>4 DEF DashboardInv, CacheKept
  <1>2. DashboardInv /\ [DashboardNext]_dashboardVars => DashboardInv'
    <2>1. CASE UNCHANGED dashboardVars
      BY <2>1 DEF dashboardVars, DashboardInv, DashboardTypes, CacheKept, HitsMatchPolicies, Overshoot
    <2>2. CASE DashboardNext
      BY <2>2, CallerStep, OtherSteps DEF DashboardNext
    <2> QED
      BY <2>1, <2>2
  <1>3. DashboardInv => CacheKept
    BY DEF DashboardInv
  <1> QED
    BY <1>1, <1>2, <1>3, PTL DEF DashboardSpec
-----------------------------------------------------------------------------
(* Ray pools.                                                              *)
(*                                                                         *)
(* Every list belongs to one warehouse.  A list in the hands of a scaling  *)
(* is the pool of its warehouse, or noted as apart, or the only one in     *)
(* hands while the warehouse has no pool yet; so what a deletion finds in  *)
(* the list it cuts bounds what can survive it, but for the actors that    *)
(* queries and scans add.                                                  *)

HouseOf(t)   == raDoing[t].house
Scales(t)    == raAt[t] \in {"add", "name", "cut", "put"}
ListedActors(a, l) == \E i \in DOMAIN raLists[l] : raLists[l][i] = a
Worker       == [house : Houses, idx : Nat]

RayTypes ==
    /\ raUp \in BOOLEAN /\ raHouses \subseteq Houses
    /\ raPool \in [Houses -> 0 .. MaxLists]
    /\ raLists \in [0 .. MaxLists -> Seq(Worker)] /\ raMade \in 0 .. MaxLists
    /\ raIdx \in Nat /\ raLive \subseteq Worker /\ IsFiniteSet(raLive)
    /\ raAt \in [Running -> {"idle", "init", "look", "pick", "add", "name", "cut", "put", "remove"}]
    /\ raDoing \in [Running -> [house : Houses \cup {DefaultHouse}, target : Nat, then : {"none", "pick", "remove"}]]
    /\ raMine \in [Running -> 0 .. MaxLists] /\ raNeed \in [Running -> Int]
    /\ raApart \subseteq 0 .. MaxLists /\ raLate \in [Houses -> Nat]

\* own says whose each list is; a list not made yet may be anybody's.
Owned(own) ==
    /\ \A h \in Houses : raPool[h] # 0 => own[raPool[h]] = h
    /\ \A t \in Running : Scales(t) => own[raMine[t]] = HouseOf(t)
    /\ \A l \in 1 .. MaxLists : \A i \in DOMAIN raLists[l] : raLists[l][i].house = own[l]

ListsInv ==
    /\ \A l \in 0 .. MaxLists : l = 0 \/ l > raMade => raLists[l] = <<>>
    /\ \A h \in Houses : raPool[h] <= raMade
    /\ \A t \in Running : Scales(t) => raMine[t] \in 1 .. raMade
    /\ \E own \in [1 .. MaxLists -> Houses \cup {DefaultHouse}] : Owned(own)

ApartInv ==
    \A t \in Running : Scales(t) =>
        IF raPool[HouseOf(t)] = 0
        THEN \A u \in Running \ {t} : Scales(u) /\ HouseOf(u) = HouseOf(t) => raMine[t] \in raApart
        ELSE raMine[t] # raPool[HouseOf(t)] => raMine[t] \in raApart /\ raPool[HouseOf(t)] \in raApart

\* What a thread is doing, by where it is.
RequestFits(t) ==
    raAt[t] # "idle" =>
        /\ HouseOf(t) \in Houses
        /\ raAt[t] = "put" => raNeed[t] = 0
        /\ raAt[t] \in {"add", "name", "cut"} => raNeed[t] > 0
        /\ raDoing[t].then = "none" => raAt[t] \in {"init", "add", "name", "cut", "put"} /\ HouseOf(t) \in raHouses
        /\ raDoing[t].then = "remove" => raAt[t] \in {"init", "cut", "put", "remove"} /\ raDoing[t].target = 0
        /\ raDoing[t].then = "pick" => raAt[t] # "remove"
        /\ t # EventLoop => raDoing[t].then = "pick"

RequestInv ==
    /\ \A t \in Running : RequestFits(t)
    /\ ~raUp => raLive = {}

\* Actors that a deletion of h, or what came after it, must account for.
Unexplained(h) == {a \in raLive : a.house = h /\ ~IsApart(a)}
LateEnough(h)  == Cardinality(Unexplained(h)) <= raLate[h]

CountInv ==
    /\ \A h \in Houses \ raHouses : LateEnough(h)
    /\ \A t \in Running : raAt[t] = "remove" => LateEnough(HouseOf(t))
    /\ \A t \in Running : Scales(t) /\ raDoing[t].then = "remove" =>
           Len(raLists[raMine[t]]) <= raLate[HouseOf(t)] + raNeed[t]

RayInv == RayTypes /\ RequestInv /\ ListsInv /\ ApartInv /\ WorkersAccountedFor /\ CountInv

\* A step that touches no list: a thread stops scaling only if its list is the pool or noted as apart.
Calm ==
    /\ UNCHANGED <<raLists, raPool, raMade, raLive>> /\ raApart \subseteq raApart'
    /\ \A u \in Running : Scales(u)' => Scales(u) /\ raMine'[u] = raMine[u] /\ raDoing'[u] = raDoing[u]
    /\ \A u \in Running : Scales(u) /\ ~Scales(u)' => raMine[u] \in raApart' \cup {raPool[HouseOf(u)]}

\* The requests.
Asks(t, h, target, first, then) ==
    \/ t = EventLoop /\ h \in raHouses /\ first = "init" /\ then = "none"
    \/ t = EventLoop /\ target = 0 /\ first = "init" /\ then = "remove"
    \/ first = "look" /\ then = "pick"

LEMMA RayCases ==
    ASSUME [RayNext]_rayVars
    PROVE  \/ \E t \in Running, h \in Houses, first \in {"init", "look"}, then \in {"none", "pick", "remove"}, n \in Int :
                  Asks(t, h, n, first, then) /\ Handle(t, h, n, first, then)
           \/ \E t \in Running :
                  \/ Connect(t) \/ Look(t) \/ Get(t) \/ Number(t) \/ Spawn(t)
                  \/ Cut(t) \/ PutBack(t) \/ RemoveHouse(t) \/ Pick(t)
           \/ StopRay
           \/ UNCHANGED rayVars
  <1>0. EventLoop \in Running /\ QueryThreads \subseteq Running /\ WorkerCounts \subseteq Int
    BY RayAssumption DEF Running
  <1> DEFINE Goal == \E t \in Running, h \in Houses, first \in {"init", "look"}, then \in {"none", "pick", "remove"}, n \in Int :
                         Asks(t, h, n, first, then) /\ Handle(t, h, n, first, then)
  <1>1. ASSUME NEW h \in Houses, NEW n \in WorkerCounts, Scale(h, n) PROVE Goal
    BY <1>0, <1>1 DEF Scale, Asks
  <1>2. ASSUME NEW h \in Houses, StopHouse(h) PROVE Goal
    BY <1>0, <1>2 DEF StopHouse, Asks
  <1>3. ASSUME NEW h \in Houses, DeleteHouse(h) PROVE Goal
    BY <1>0, <1>3 DEF DeleteHouse, Asks
  <1>4. ASSUME NEW h \in Houses, Scan(h) PROVE Goal
    BY <1>0, <1>4 DEF Scan, Asks
  <1>5. ASSUME NEW h \in Houses, NEW t \in QueryThreads, Query(t, h) PROVE Goal
    BY <1>0, <1>5 DEF Query, Asks
  <1> HIDE DEF Goal
  <1>6. CASE \E h \in Houses : \/ \E n \in WorkerCounts : Scale(h, n)
                               \/ StopHouse(h) \/ DeleteHouse(h) \/ Scan(h)
                               \/ \E t \in QueryThreads : Query(t, h)
    <2>1. Goal
      BY <1>1, <1>2, <1>3, <1>4, <1>5, <1>6
    <2> QED
      BY <2>1 DEF Goal
  <1>7. CASE UNCHANGED rayVars
    BY <1>7
  <1>8. CASE \E t \in Running : Connect(t) \/ Look(t) \/ Get(t) \/ Number(t) \/ Spawn(t) \/ Cut(t)
                                \/ PutBack(t) \/ RemoveHouse(t) \/ Pick(t)
    BY <1>8
  <1>9. CASE StopRay
    BY <1>9
  <1> QED
    BY <1>6, <1>7, <1>8, <1>9 DEF RayNext

LEMMA RayTypesStep == RayTypes /\ RequestInv /\ [RayNext]_rayVars => RayTypes'
  <1> SUFFICES ASSUME RayTypes, RequestInv, [RayNext]_rayVars PROVE RayTypes'
    OBVIOUS
  <1> USE DEF RayTypes, GoesTo
  <1>0. MaxLists \in Nat /\ Ceiling \in Nat \ {0}
    BY RayAssumption
  <1>1. ASSUME NEW t \in Running, NEW h \in Houses, NEW first \in {"init", "look"}, NEW then \in {"none", "pick", "remove"},
               NEW n \in Int,
               Asks(t, h, n, first, then), Handle(t, h, n, first, then)
        PROVE  RayTypes'
    <2>1. Clamped(n) \in Nat
      BY <1>0 DEF Clamped
    <2> QED
      BY <1>1, <2>1 DEF Handle, placeVars
  <1>2. ASSUME NEW t \in Running, Connect(t) PROVE RayTypes'
    BY <1>2 DEF Connect, placeVars
  <1>3. ASSUME NEW t \in Running, Look(t) PROVE RayTypes'
    <2>1. raPool[raDoing[t].house] \in 0 .. MaxLists
      BY <1>3 DEF Look, RequestInv, RequestFits, HouseOf
    <2> DEFINE l == raPool[raDoing[t].house]
    <2>2. \/ raMine' = raMine /\ raAt' = [raAt EXCEPT ![t] = "init"]
          \/ raMine' = [raMine EXCEPT ![t] = l] /\ raAt' = [raAt EXCEPT ![t] = "pick"]
      BY <1>3 DEF Look
    <2> HIDE DEF l
    <2>3. raMine' \in [Running -> 0 .. MaxLists]
      BY <2>1, <2>2 DEF l
    <2>4. raAt' \in [Running -> {"idle", "init", "look", "pick", "add", "name", "cut", "put", "remove"}]
      BY <2>2
    <2> QED
      BY <1>3, <2>3, <2>4 DEF Look, placeVars
  <1>4. ASSUME NEW t \in Running, Get(t) PROVE RayTypes'
    <2> DEFINE h == raDoing[t].house
               l == IF raPool[h] = 0 THEN raMade + 1 ELSE raPool[h]
               n == Len(raLists[l])
               k == raDoing[t].target
    <2>1. h \in Houses
      BY <1>4 DEF Get, RequestInv, RequestFits, HouseOf
    <2>2. l \in 0 .. MaxLists /\ raMade' \in 0 .. MaxLists
      BY <1>0, <1>4, <2>1 DEF Get
    <2>3. n \in Nat /\ k \in Nat
      BY <2>2
    <2>4. /\ raMine' = [raMine EXCEPT ![t] = l]
          /\ raNeed' = [raNeed EXCEPT ![t] = IF k > n THEN k - n ELSE n - k]
          /\ raAt' = [raAt EXCEPT ![t] = IF k > n THEN "add" ELSE IF k < n THEN "cut" ELSE "put"]
          /\ raLate' \in {raLate, [raLate EXCEPT ![h] = 0]}
          /\ UNCHANGED <<raUp, raHouses, raPool, raLists, raIdx, raLive, raDoing>>
      BY <1>4 DEF Get
    <2>9. raApart' \subseteq 0 .. MaxLists
      <3>1. Others(t, h) \subseteq 0 .. MaxLists
        BY DEF Others
      <3> QED
        BY <1>4, <2>2, <3>1 DEF Get
    <2> HIDE DEF l, n, k, h
    <2>5. raNeed' \in [Running -> Int]
      BY <2>3, <2>4
    <2>6. raAt' \in [Running -> {"idle", "init", "look", "pick", "add", "name", "cut", "put", "remove"}]
      BY <2>4
    <2>7. raLate' \in [Houses -> Nat]
      <3>1. CASE raLate' = raLate
        BY <3>1
      <3>2. CASE raLate' = [raLate EXCEPT ![h] = 0]
        BY <3>2
      <3> QED
        BY <2>4, <3>1, <3>2
    <2>8. raMine' \in [Running -> 0 .. MaxLists]
      BY <2>2, <2>4
    <2> QED
      BY <2>2, <2>4, <2>5, <2>6, <2>7, <2>8, <2>9
  <1>5. ASSUME NEW t \in Running, Number(t) PROVE RayTypes'
    BY <1>5 DEF Number, placeVars
  <1>r. ASSUME NEW t \in Running, Raise(t) PROVE RayTypes'
    BY <1>r DEF Raise
  <1>6. ASSUME NEW t \in Running, Spawn(t) PROVE RayTypes'
    <2> DEFINE a == [house |-> raDoing[t].house, idx |-> raIdx]
    <2>1. a \in Worker
      BY <1>6 DEF Worker, Spawn, RequestInv, RequestFits, HouseOf
    <2> HIDE DEF a
    <2>2. CASE Start(t, a)
      <3>1. IsFiniteSet(raLive') /\ raLive' \subseteq Worker
        BY <2>1, <2>2, FS_AddElement DEF Start
      <3>2. raLists' \in [0 .. MaxLists -> Seq(Worker)]
        BY <2>1, <2>2 DEF Start
      <3>3. raLate' \in [Houses -> Nat]
        <4>1. raLate' \in {raLate, [raLate EXCEPT ![a.house] = @ + 1]}
          BY <2>2 DEF Start
        <4>2. a.house \in Houses
          BY <1>6 DEF Spawn, a, RequestInv, RequestFits, HouseOf
        <4>3. CASE raLate' = raLate
          BY <4>3
        <4>4. CASE raLate' = [raLate EXCEPT ![a.house] = @ + 1]
          BY <4>2, <4>4
        <4> QED
          BY <4>1, <4>3, <4>4
      <3>4. raAt' \in [Running -> {"idle", "init", "look", "pick", "add", "name", "cut", "put", "remove"}]
            /\ raNeed' \in [Running -> Int]
        BY <2>2 DEF Start
      <3>5. raUp' = TRUE /\ UNCHANGED <<raHouses, raPool, raMade, raIdx, raDoing, raMine, raApart>>
        BY <2>2 DEF Start
      <3> QED
        BY <3>1, <3>2, <3>3, <3>4, <3>5
    <2> QED
      BY <1>6, <1>r, <2>2 DEF Spawn, a
  <1>7. ASSUME NEW t \in Running, Cut(t) PROVE RayTypes'
    <2> DEFINE s == raLists[raMine[t]]
    <2>1. CASE s = <<>>
      BY <1>7, <1>r, <2>1 DEF Cut
    <2>2. CASE s # <<>>
      <3>1. s \in Seq(Worker) /\ SubSeq(s, 1, Len(s) - 1) \in Seq(Worker)
        BY <2>2
      <3>2. raLists' \in [0 .. MaxLists -> Seq(Worker)]
        BY <1>7, <2>2, <3>1 DEF Cut
      <3>3. raLive' \subseteq raLive
        BY <1>7, <2>2 DEF Cut
      <3>4. IsFiniteSet(raLive')
        BY <3>3, FS_Subset
      <3>5. raAt' \in [Running -> {"idle", "init", "look", "pick", "add", "name", "cut", "put", "remove"}]
        BY <1>7, <2>2 DEF Cut
      <3>7. raNeed' \in [Running -> Int]
        <4>1. raNeed' = [raNeed EXCEPT ![t] = @ - 1]
          BY <1>7, <2>2 DEF Cut
        <4> QED
          BY <4>1
      <3>6. UNCHANGED <<raUp, raHouses, raPool, raMade, raIdx, raDoing, raMine, raApart, raLate>>
        BY <1>7, <2>2 DEF Cut
      <3> QED
        BY <3>2, <3>3, <3>4, <3>5, <3>6, <3>7
    <2> QED
      BY <2>1, <2>2
  <1>8. ASSUME NEW t \in Running, PutBack(t) PROVE RayTypes'
    BY <1>8 DEF PutBack
  <1>9. ASSUME NEW t \in Running, RemoveHouse(t) PROVE RayTypes'
    BY <1>9 DEF RemoveHouse
  <1>10. ASSUME NEW t \in Running, Pick(t) PROVE RayTypes'
    BY <1>10 DEF Pick, placeVars
  <1>11. CASE StopRay
    <2>1. raLists' \in [0 .. MaxLists -> Seq(Worker)]
      <3>1. <<>> \in Seq(Worker)
        OBVIOUS
      <3> QED
        BY <1>11, <3>1 DEF StopRay
    <2>2. IsFiniteSet(raLive')
      BY <1>11, FS_EmptySet DEF StopRay
    <2> QED
      BY <1>11, <2>1, <2>2 DEF StopRay
  <1>12. CASE UNCHANGED rayVars
    BY <1>12 DEF rayVars
  <1> HIDE DEF RayTypes
  <1> QED
    BY <1>1, <1>2, <1>3, <1>4, <1>5, <1>6, <1>7, <1>8, <1>9, <1>10, <1>11, <1>12, RayCases

\* A step of one thread leaves the others' requests and what is written of them alone.
LEMMA RayRequestsStep ==
    ASSUME RayTypes, RequestInv, [RayNext]_rayVars
    PROVE  RequestInv'
  <1> USE DEF RayTypes
  <1>0. EventLoop \in Running /\ Ceiling \in Nat \ {0}
    BY RayAssumption DEF Running
  <1>1. \A u \in Running : RequestFits(u)
    BY DEF RequestInv
  \* All threads but one stand still, and no warehouse is removed while the event loop works.
  <1>a. ASSUME NEW t \in Running, RequestFits(t)',
               \A u \in Running \ {t} : raAt'[u] = raAt[u] /\ raDoing'[u] = raDoing[u] /\ raNeed'[u] = raNeed[u],
               raHouses' = raHouses \/ t = EventLoop, ~raUp' => raLive' = {}
        PROVE  RequestInv'
    <2>1. ASSUME NEW u \in Running \ {t} PROVE RequestFits(u)'
      <3>1. RequestFits(u) /\ raAt'[u] = raAt[u] /\ raDoing'[u] = raDoing[u] /\ raNeed'[u] = raNeed[u]
        BY <1>1, <1>a
      <3>2. raHouses' = raHouses \/ u # EventLoop
        BY <1>a
      <3> QED
        BY <3>1, <3>2 DEF RequestFits, HouseOf
    <2> QED
      BY <1>a, <2>1 DEF RequestInv
  <1>2. ASSUME NEW t \in Running, NEW h \in Houses, NEW first \in {"init", "look"}, NEW then \in {"none", "pick", "remove"},
               NEW n \in Int, Asks(t, h, n, first, then), Handle(t, h, n, first, then)
        PROVE  RequestInv'
    <2>1. /\ raAt' = [raAt EXCEPT ![t] = first] /\ raHouses' = raHouses /\ raNeed' = raNeed
          /\ raDoing' = [raDoing EXCEPT ![t] = [house |-> h, target |-> Clamped(n), then |-> then]]
          /\ raUp' = raUp /\ raLive' = raLive
      BY <1>2 DEF Handle, GoesTo, placeVars
    <2>2. RequestFits(t)'
      <3>1. n = 0 => Clamped(n) = 0
        BY <1>0 DEF Clamped
      <3>2. raAt'[t] = first /\ raDoing'[t] = [house |-> h, target |-> Clamped(n), then |-> then]
        BY <2>1
      <3> QED
        BY <1>2, <2>1, <3>1, <3>2 DEF RequestFits, HouseOf, Asks
    <2> QED
      BY <1>a, <2>1, <2>2 DEF RequestInv
  <1>3. ASSUME NEW t \in Running, Connect(t) PROVE RequestInv'
    BY <1>a, <1>3, <1>1 DEF Connect, GoesTo, placeVars, RequestFits, HouseOf, RequestInv
  <1>4. ASSUME NEW t \in Running, Look(t) PROVE RequestInv'
    <2>1. \/ raAt' = [raAt EXCEPT ![t] = "init"] \/ raAt' = [raAt EXCEPT ![t] = "pick"]
      BY <1>4 DEF Look, GoesTo
    <2>2. raAt[t] = "look" /\ UNCHANGED <<raDoing, raNeed, raHouses, raUp, raLive>>
      BY <1>4 DEF Look, placeVars
    <2>3. RequestFits(t) /\ raDoing[t].then = "pick"
      BY <1>1, <2>2 DEF RequestFits
    <2>4. RequestFits(t)'
      BY <2>1, <2>2, <2>3 DEF RequestFits, HouseOf
    <2> QED
      BY <1>a, <2>1, <2>2, <2>4 DEF RequestInv
  <1>5. ASSUME NEW t \in Running, Get(t) PROVE RequestInv'
    <2> DEFINE h == raDoing[t].house
               l == IF raPool[h] = 0 THEN raMade + 1 ELSE raPool[h]
               n == Len(raLists[l])
               k == raDoing[t].target
    <2>1. /\ raNeed' = [raNeed EXCEPT ![t] = IF k > n THEN k - n ELSE n - k]
          /\ raAt' = [raAt EXCEPT ![t] = IF k > n THEN "add" ELSE IF k < n THEN "cut" ELSE "put"]
          /\ UNCHANGED <<raHouses, raUp, raLive, raDoing>> /\ raAt[t] = "init"
          /\ (raPool[h] = 0 => raMade < MaxLists)
      BY <1>5 DEF Get, GoesTo
    <2>2. RequestFits(t) /\ h \in Houses
      BY <1>1, <2>1 DEF RequestFits, HouseOf
    <2>3. l \in 0 .. MaxLists
      BY <2>1, <2>2, RayAssumption
    <2>4. n \in Nat /\ k \in Nat
      BY <2>3
    <2> HIDE DEF l, n, k
    <2>5. /\ raAt'[t] \in {"add", "cut"} => raNeed'[t] > 0
          /\ raAt'[t] = "put" => raNeed'[t] = 0
          /\ raAt'[t] \in {"add", "cut", "put"}
          /\ raAt'[t] = "add" => k # 0
      BY <2>1, <2>4
    <2>6. RequestFits(t)'
      BY <2>1, <2>2, <2>5 DEF RequestFits, HouseOf, k
    <2> QED
      BY <1>a, <2>1, <2>6 DEF RequestInv
  <1>6. ASSUME NEW t \in Running, Number(t) PROVE RequestInv'
    <2>1. raAt[t] = "add" /\ raAt' = [raAt EXCEPT ![t] = "name"] /\ UNCHANGED <<raDoing, raNeed, raHouses, raUp, raLive>>
      BY <1>6 DEF Number, GoesTo, placeVars
    <2>2. RequestFits(t)'
      BY <1>1, <2>1 DEF RequestFits, HouseOf
    <2> QED
      BY <1>a, <2>1, <2>2 DEF RequestInv
  <1>r. ASSUME NEW t \in Running, Raise(t), raAt[t] \in {"name", "cut"} PROVE RequestInv'
    <2>1. /\ raAt' = [raAt EXCEPT ![t] = IF raDoing[t].then = "remove" THEN "remove" ELSE "idle"]
          /\ UNCHANGED <<raDoing, raNeed, raHouses, raUp, raLive>>
      BY <1>r DEF Raise, GoesTo
    <2>2. RequestFits(t)'
      BY <1>1, <1>r, <2>1 DEF RequestFits, HouseOf
    <2> QED
      BY <1>a, <2>1, <2>2 DEF RequestInv
  <1>7. ASSUME NEW t \in Running, Spawn(t) PROVE RequestInv'
    <2> DEFINE a == [house |-> raDoing[t].house, idx |-> raIdx]
    <2> HIDE DEF a
    <2>0. raAt[t] = "name" /\ (Raise(t) \/ Start(t, a))
      BY <1>7 DEF Spawn, a
    <2>1. CASE Start(t, a)
      <3>1. /\ raAt' = [raAt EXCEPT ![t] = IF raNeed[t] = 1 THEN "put" ELSE "add"] /\ raUp' = TRUE
            /\ raNeed' = [raNeed EXCEPT ![t] = @ - 1] /\ UNCHANGED <<raDoing, raHouses>>
        BY <2>1 DEF Start, GoesTo
      <3>2. raNeed[t] \in Int /\ raNeed[t] > 0
        BY <1>1, <2>0 DEF RequestFits
      <3>4. raAt'[t] = (IF raNeed[t] = 1 THEN "put" ELSE "add") /\ raNeed'[t] = raNeed[t] - 1
        BY <3>1
      <3>5. (raAt'[t] = "put" => raNeed'[t] = 0) /\ (raAt'[t] = "add" => raNeed'[t] > 0)
        BY <3>2, <3>4
      <3>6. RequestFits(t) /\ raDoing'[t] = raDoing[t] /\ raAt'[t] \in {"put", "add"}
        BY <1>1, <3>1, <3>4
      <3>3. RequestFits(t)'
        BY <2>0, <3>1, <3>5, <3>6 DEF RequestFits, HouseOf
      <3> QED
        BY <1>a, <3>1, <3>3
    <2> QED
      BY <1>r, <2>0, <2>1
  <1>8. ASSUME NEW t \in Running, Cut(t) PROVE RequestInv'
    <2>1. raAt[t] = "cut"
      BY <1>8 DEF Cut
    <2>2. CASE raLists[raMine[t]] # <<>>
      <3>1. /\ raAt' = [raAt EXCEPT ![t] = IF raNeed[t] = 1 THEN "put" ELSE "cut"] /\ raLive' \subseteq raLive
            /\ raNeed' = [raNeed EXCEPT ![t] = @ - 1] /\ UNCHANGED <<raDoing, raHouses, raUp>>
        BY <1>8, <2>2 DEF Cut, GoesTo
      <3>2. raNeed[t] \in Int /\ raNeed[t] > 0
        BY <1>1, <2>1 DEF RequestFits
      <3>3. RequestFits(t)'
        BY <1>1, <2>1, <3>1, <3>2 DEF RequestFits, HouseOf
      <3> QED
        BY <1>a, <3>1, <3>3 DEF RequestInv
    <2>3. CASE raLists[raMine[t]] = <<>>
      BY <1>8, <1>r, <2>1, <2>3 DEF Cut
    <2> QED
      BY <2>2, <2>3
  <1>9. ASSUME NEW t \in Running, PutBack(t) PROVE RequestInv'
    <2>1. /\ raAt[t] = "put" /\ UNCHANGED <<raDoing, raNeed, raHouses, raUp, raLive>>
          /\ raAt' = [raAt EXCEPT ![t] = IF raDoing[t].then = "none" THEN "idle" ELSE raDoing[t].then]
      BY <1>9 DEF PutBack, GoesTo
    <2>2. RequestFits(t)'
      BY <1>1, <2>1 DEF RequestFits, HouseOf
    <2> QED
      BY <1>a, <2>1, <2>2 DEF RequestInv
  <1>10. ASSUME NEW t \in Running, RemoveHouse(t) PROVE RequestInv'
    <2>1. raAt[t] = "remove" /\ raAt' = [raAt EXCEPT ![t] = "idle"] /\ UNCHANGED <<raDoing, raNeed, raUp, raLive>>
      BY <1>10 DEF RemoveHouse, GoesTo
    <2>2. t = EventLoop
      BY <1>1, <2>1 DEF RequestFits
    <2>3. RequestFits(t)'
      BY <2>1 DEF RequestFits
    <2> QED
      BY <1>a, <2>1, <2>2, <2>3 DEF RequestInv
  <1>11. ASSUME NEW t \in Running, Pick(t) PROVE RequestInv'
    <2>1. raAt' = [raAt EXCEPT ![t] = "idle"] /\ UNCHANGED <<raDoing, raNeed, raHouses, raUp, raLive>>
      BY <1>11 DEF Pick, GoesTo, placeVars
    <2>2. RequestFits(t)'
      BY <2>1 DEF RequestFits
    <2> QED
      BY <1>a, <2>1, <2>2 DEF RequestInv
  <1>12. CASE StopRay
    <2>1. RequestFits(EventLoop)'
      BY <1>0, <1>1, <1>12 DEF StopRay, RequestFits
    <2> QED
      BY <1>0, <1>a, <1>12, <2>1 DEF StopRay
  <1>13. CASE UNCHANGED rayVars
    BY <1>13 DEF rayVars, RequestInv, RequestFits, HouseOf
  <1> QED
    BY <1>2, <1>3, <1>4, <1>5, <1>6, <1>7, <1>8, <1>9, <1>10, <1>11, <1>12, <1>13, RayCases

\* What the steps that touch no list have in common.
LEMMA CalmSteps ==
    ASSUME RayTypes, RequestInv, NEW t \in Running,
           \/ \E h \in Houses, first \in {"init", "look"}, then \in {"none", "pick", "remove"}, n \in Int :
                  Handle(t, h, n, first, then)
           \/ Connect(t) \/ Look(t) \/ Number(t) \/ RemoveHouse(t) \/ Pick(t) \/ UNCHANGED rayVars
           \/ raAt[t] \in {"name", "cut"} /\ Raise(t)
    PROVE  Calm
  <1> USE DEF RayTypes, Calm, GoesTo, Scales, placeVars
  <1>0. HouseOf(t) = raDoing[t].house
    BY DEF HouseOf
  <1>1. CASE \E h \in Houses, first \in {"init", "look"}, then \in {"none", "pick", "remove"}, n \in Int :
                 Handle(t, h, n, first, then)
    BY <1>1 DEF Handle
  <1>2. CASE Connect(t)
    BY <1>2 DEF Connect
  <1>3. CASE Look(t)
    BY <1>3 DEF Look
  <1>4. CASE Number(t)
    BY <1>4 DEF Number
  <1>5. CASE RemoveHouse(t)
    BY <1>5 DEF RemoveHouse
  <1>6. CASE Pick(t)
    BY <1>6 DEF Pick
  <1>7. CASE UNCHANGED rayVars
    BY <1>7 DEF rayVars
  <1>8. CASE raAt[t] \in {"name", "cut"} /\ Raise(t)
    BY <1>0, <1>8 DEF Raise
  <1> QED
    BY <1>1, <1>2, <1>3, <1>4, <1>5, <1>6, <1>7, <1>8

LEMMA CalmKeeps ==
    ASSUME RayTypes, ListsInv, ApartInv, WorkersAccountedFor, Calm
    PROVE  ListsInv' /\ ApartInv' /\ WorkersAccountedFor'
  <1>0. /\ UNCHANGED <<raLists, raPool, raMade, raLive>> /\ raApart \subseteq raApart'
        /\ \A u \in Running : Scales(u)' => /\ Scales(u) /\ raMine'[u] = raMine[u]
                                            /\ HouseOf(u)' = HouseOf(u)
    BY DEF Calm, HouseOf
  <1>1. ListsInv'
    <2> PICK own \in [1 .. MaxLists -> Houses \cup {DefaultHouse}] : Owned(own)
      BY DEF ListsInv
    <2>1. Owned(own)'
      BY <1>0 DEF Owned
    <2> QED
      BY <1>0, <2>1 DEF ListsInv
  <1>2. ApartInv'
    <2> SUFFICES ASSUME NEW t \in Running, Scales(t)'
                 PROVE  IF raPool[HouseOf(t)] = 0
                        THEN \A u \in Running \ {t} : Scales(u)' /\ HouseOf(u)' = HouseOf(t) => raMine[t] \in raApart'
                        ELSE raMine[t] # raPool[HouseOf(t)]
                                 => raMine[t] \in raApart' /\ raPool[HouseOf(t)] \in raApart'
      BY <1>0 DEF ApartInv
    <2> QED
      BY <1>0 DEF ApartInv
  <1>3. WorkersAccountedFor'
    <2> SUFFICES ASSUME NEW a \in raLive PROVE (InPool(a) \/ InHand(a) \/ IsApart(a))'
      BY <1>0 DEF WorkersAccountedFor
    <2>1. IsApart(a) => IsApart(a)'
      BY <1>0 DEF IsApart
    <2>2. InPool(a) => InPool(a)'
      BY <1>0 DEF InPool
    <2>3. ASSUME NEW t \in Running, Scales(t), ListedActors(a, raMine[t])
          PROVE  (InPool(a) \/ InHand(a) \/ IsApart(a))'
      <3>1. CASE Scales(t)'
        BY <1>0, <2>3, <3>1 DEF InHand, ListedActors, Scales
      <3>2. CASE ~Scales(t)' /\ raMine[t] \in raApart'
        BY <1>0, <2>3, <3>2 DEF IsApart, ListedActors
      <3>3. CASE ~Scales(t)' /\ raMine[t] = raPool[HouseOf(t)]
        <4>1. a.house = HouseOf(t)
          BY <2>3 DEF ListsInv, Owned, ListedActors, RayTypes
        <4> QED
          BY <1>0, <2>3, <3>3, <4>1 DEF InPool, ListedActors
      <3> QED
        BY <2>3, <3>1, <3>2, <3>3 DEF Calm
    <2> QED
      BY <2>1, <2>2, <2>3 DEF WorkersAccountedFor, InHand, ListedActors, Scales
  <1> QED
    BY <1>1, <1>2, <1>3

-----------------------------------------------------------------------------
(* The steps that do touch a list.                                         *)

\* A scaling gets the pool, or a list of its own.
LEMMA GetKeeps ==
    ASSUME RayTypes, RequestInv, ListsInv, ApartInv, WorkersAccountedFor, NEW t \in Running, Get(t)
    PROVE  ListsInv' /\ ApartInv' /\ WorkersAccountedFor'
  <1> DEFINE h == HouseOf(t)
             l == IF raPool[h] = 0 THEN raMade + 1 ELSE raPool[h]
  <1>0. /\ raAt[t] = "init" /\ raMine' = [raMine EXCEPT ![t] = l]
        /\ raPool[h] = 0 => raMade < MaxLists
        /\ raMade' = (IF raPool[h] = 0 THEN raMade + 1 ELSE raMade)
        /\ raApart' = (IF raPool[h] = 0 /\ Others(t, h) # {} THEN raApart \cup {l} \cup Others(t, h) ELSE raApart)
        /\ UNCHANGED <<raPool, raLists, raLive, raDoing>>
    BY DEF Get, HouseOf
  <1>1. /\ \A u \in Running \ {t} : raMine'[u] = raMine[u] /\ (Scales(u)' <=> Scales(u))
        /\ raMine'[t] = l /\ ~Scales(t) /\ \A u \in Running : HouseOf(u)' = HouseOf(u)
    BY <1>0 DEF Get, GoesTo, RayTypes, Scales, HouseOf
  <1>2. h \in Houses /\ MaxLists \in Nat /\ raMade \in 0 .. MaxLists /\ raPool[h] \in 0 .. MaxLists
    BY <1>0, RayAssumption DEF RequestInv, RequestFits, HouseOf, RayTypes
  <1>3. l \in 1 .. MaxLists /\ l \in 1 .. raMade' /\ raMade <= raMade' /\ raMade' \in 0 .. MaxLists
    <2>1. raPool[h] <= raMade
      BY <1>2 DEF ListsInv
    <2> QED
      BY <1>0, <1>2, <2>1
  <1>4. ListsInv'
    <2> PICK own \in [1 .. MaxLists -> Houses \cup {DefaultHouse}] : Owned(own)
      BY DEF ListsInv
    <2> PICK new \in [1 .. MaxLists -> Houses \cup {DefaultHouse}] : new = [own EXCEPT ![l] = h]
      BY <1>2
    <2>1. new[l] = h /\ \A m \in 1 .. MaxLists : m # l => new[m] = own[m]
      BY <1>2, <1>3
    <2>2. raPool[h] # 0 => own[l] = h
      BY <1>2 DEF Owned
    <2>3. raPool[h] = 0 => raLists[l] = <<>>
      BY <1>2, <1>3 DEF ListsInv
    <2>4. \A g \in Houses : raPool[g] # 0 => new[raPool[g]] = g
      <3> SUFFICES ASSUME NEW g \in Houses, raPool[g] # 0 PROVE new[raPool[g]] = g
        OBVIOUS
      <3>1. raPool[g] \in 0 .. MaxLists /\ raPool[g] <= raMade /\ own[raPool[g]] = g
        BY DEF ListsInv, Owned, RayTypes
      <3>2. raPool[g] \in 1 .. MaxLists
        BY <1>2, <3>1
      <3>3. raPool[g] = l => g = h
        <4>1. CASE raPool[h] = 0
          BY <1>2, <3>1, <4>1
        <4>2. CASE raPool[h] # 0
          BY <2>2, <3>1, <4>2
        <4> QED
          BY <4>1, <4>2
      <3> QED
        BY <2>1, <3>1, <3>2, <3>3
    <2>5. \A u \in Running : Scales(u)' => new[raMine'[u]] = HouseOf(u)
      <3> SUFFICES ASSUME NEW u \in Running \ {t}, Scales(u) PROVE new[raMine[u]] = HouseOf(u)
        BY <1>1, <2>1
      <3>1. raMine[u] \in 1 .. raMade /\ own[raMine[u]] = HouseOf(u)
        BY DEF ListsInv, Owned
      <3>2. raMine[u] \in 1 .. MaxLists
        BY <1>2, <3>1
      <3>3. raMine[u] = l => HouseOf(u) = h
        BY <1>2, <2>2, <3>1
      <3> QED
        BY <2>1, <3>1, <3>2, <3>3
    <2>6. \A m \in 1 .. MaxLists : \A i \in DOMAIN raLists[m] : raLists[m][i].house = new[m]
      <3> SUFFICES ASSUME NEW m \in 1 .. MaxLists, NEW i \in DOMAIN raLists[m] PROVE raLists[m][i].house = new[m]
        OBVIOUS
      <3>1. raLists[m][i].house = own[m]
        BY DEF Owned
      <3>2. m = l => raPool[h] # 0
        BY <2>3
      <3> QED
        BY <2>1, <2>2, <3>1, <3>2
    <2> HIDE DEF l
    <2>7. Owned(new)'
      BY <1>0, <1>1, <2>4, <2>5, <2>6 DEF Owned
    <2>8. \A m \in 0 .. MaxLists : m = 0 \/ m > raMade' => raLists'[m] = <<>>
      BY <1>0, <1>2, <1>3 DEF ListsInv
    <2>9. \A g \in Houses : raPool'[g] <= raMade'
      <3> TAKE g \in Houses
      <3>1. raPool[g] \in 0 .. MaxLists /\ raPool[g] <= raMade
        BY DEF ListsInv, RayTypes
      <3> QED
        BY <1>0, <1>2, <1>3, <3>1
    <2>10. \A u \in Running : Scales(u)' => raMine'[u] \in 1 .. raMade'
      <3> SUFFICES ASSUME NEW u \in Running \ {t}, Scales(u) PROVE raMine[u] \in 1 .. raMade'
        BY <1>1, <1>3
      <3>1. raMine[u] \in 1 .. raMade
        BY DEF ListsInv
      <3> QED
        BY <1>2, <1>3, <3>1
    <2> QED
      BY <2>1, <2>7, <2>8, <2>9, <2>10 DEF ListsInv
  <1> HIDE DEF l
  <1>5. raApart \subseteq raApart'
    BY <1>0
  <1>6. \A u \in Running \ {t} : Scales(u) /\ HouseOf(u) = h /\ raPool[h] = 0
                                     => raMine[u] \in raApart' /\ l \in raApart'
    <2> SUFFICES ASSUME NEW u \in Running \ {t}, Scales(u), HouseOf(u) = h, raPool[h] = 0
                 PROVE  raMine[u] \in Others(t, h)
      BY <1>0
    <2>1. raMine[u] # 0
      BY <1>2 DEF ListsInv
    <2> QED
      BY <2>1 DEF Others, Scales, HouseOf
  <1>7. ApartInv'
    <2> SUFFICES ASSUME NEW u \in Running, Scales(u)'
                 PROVE  IF raPool[HouseOf(u)] = 0
                        THEN \A v \in Running \ {u} : Scales(v)' /\ HouseOf(v) = HouseOf(u) => raMine'[u] \in raApart'
                        ELSE raMine'[u] # raPool[HouseOf(u)]
                                 => raMine'[u] \in raApart' /\ raPool[HouseOf(u)] \in raApart'
      BY <1>0, <1>1 DEF ApartInv
    <2>1. CASE u = t
      BY <1>1, <1>6, <2>1 DEF l
    <2>2. CASE u # t /\ raPool[HouseOf(u)] # 0
      BY <1>1, <1>5, <2>2 DEF ApartInv
    <2>3. CASE u # t /\ raPool[HouseOf(u)] = 0
      <3> SUFFICES ASSUME NEW v \in Running \ {u}, Scales(v)', HouseOf(v) = HouseOf(u)
                   PROVE  raMine'[u] \in raApart'
        BY <2>3
      <3>1. CASE v = t
        BY <1>1, <1>6, <2>3, <3>1
      <3>2. CASE v # t
        BY <1>1, <1>5, <2>3, <3>2 DEF ApartInv
      <3> QED
        BY <3>1, <3>2
    <2> QED
      BY <2>1, <2>2, <2>3
  <1>8. WorkersAccountedFor'
    <2> SUFFICES ASSUME NEW a \in raLive PROVE (InPool(a) \/ InHand(a) \/ IsApart(a))'
      BY <1>0 DEF WorkersAccountedFor
    <2>1. IsApart(a) => IsApart(a)'
      BY <1>0, <1>5 DEF IsApart
    <2>2. InPool(a) => InPool(a)'
      BY <1>0 DEF InPool
    <2>3. InHand(a) => InHand(a)'
      <3> SUFFICES ASSUME NEW u \in Running, Scales(u), ListedActors(a, raMine[u]) PROVE InHand(a)'
        BY DEF InHand, Scales, ListedActors
      <3>1. u # t /\ Scales(u)' /\ raMine'[u] = raMine[u] /\ raLists' = raLists
        BY <1>0, <1>1
      <3> QED
        BY <3>1 DEF InHand, Scales, ListedActors
    <2> QED
      BY <2>1, <2>2, <2>3 DEF WorkersAccountedFor
  <1> QED
    BY <1>4, <1>7, <1>8

\* Adding to or cutting from the list in hand leaves every list with its warehouse.
LEMMA EditKeeps ==
    ASSUME RayTypes, ListsInv, ApartInv, NEW t \in Running, Scales(t), NEW s \in Seq(Worker),
           raLists' = [raLists EXCEPT ![raMine[t]] = s], \A i \in DOMAIN s : s[i].house = HouseOf(t),
           UNCHANGED <<raPool, raMade, raDoing, raMine, raApart>>,
           \A u \in Running : Scales(u)' <=> Scales(u)
    PROVE  ListsInv' /\ ApartInv'
  <1> DEFINE m == raMine[t]
  <1>0. m \in 1 .. raMade /\ raMade \in 0 .. MaxLists /\ MaxLists \in Nat
    BY RayAssumption DEF ListsInv, RayTypes
  <1>1. m \in 1 .. MaxLists /\ DOMAIN raLists = 0 .. MaxLists
    BY <1>0 DEF RayTypes
  <1>2. raLists'[m] = s /\ \A l \in 0 .. MaxLists : l # m => raLists'[l] = raLists[l]
    BY <1>1
  <1>3. \A u \in Running : HouseOf(u)' = HouseOf(u)
    BY DEF HouseOf
  <1>4. ListsInv'
    <2> PICK own \in [1 .. MaxLists -> Houses \cup {DefaultHouse}] : Owned(own)
      BY DEF ListsInv
    <2>1. own[m] = HouseOf(t)
      BY DEF Owned
    <2>2. \A l \in 1 .. MaxLists : \A i \in DOMAIN raLists'[l] : raLists'[l][i].house = own[l]
      <3> SUFFICES ASSUME NEW l \in 1 .. MaxLists, NEW i \in DOMAIN raLists'[l] PROVE raLists'[l][i].house = own[l]
        OBVIOUS
      <3>1. CASE l = m
        BY <1>2, <2>1, <3>1
      <3>2. CASE l # m
        BY <1>2, <3>2 DEF Owned
      <3> QED
        BY <3>1, <3>2
    <2>3. Owned(own)'
      BY <1>3, <2>2 DEF Owned
    <2>4. \A l \in 0 .. MaxLists : l = 0 \/ l > raMade => raLists'[l] = <<>>
      <3> SUFFICES ASSUME NEW l \in 0 .. MaxLists, l = 0 \/ l > raMade PROVE raLists'[l] = <<>>
        OBVIOUS
      <3>1. l # m
        BY <1>0
      <3> QED
        BY <1>2, <3>1 DEF ListsInv
    <2> HIDE DEF m
    <2> QED
      BY <2>3, <2>4 DEF ListsInv
  <1>5. ApartInv'
    BY <1>3 DEF ApartInv
  <1> QED
    BY <1>4, <1>5

\* The house of what a scaling has in hand.
LEMMA InHandHouse ==
    ASSUME RayTypes, ListsInv, NEW t \in Running, Scales(t), NEW i \in DOMAIN raLists[raMine[t]]
    PROVE  raLists[raMine[t]][i].house = HouseOf(t)
  <1> PICK own \in [1 .. MaxLists -> Houses \cup {DefaultHouse}] : Owned(own)
    BY DEF ListsInv
  <1>1. raMine[t] \in 1 .. raMade /\ raMade \in 0 .. MaxLists /\ MaxLists \in Nat
    BY RayAssumption DEF ListsInv, RayTypes
  <1>2. raMine[t] \in 1 .. MaxLists
    BY <1>1
  <1> QED
    BY <1>2 DEF Owned

\* An actor joins the list in hand.
LEMMA StartKeeps ==
    ASSUME RayTypes, RequestInv, ListsInv, ApartInv, WorkersAccountedFor, NEW t \in Running, NEW a \in Worker,
           a.house = HouseOf(t), raAt[t] = "name", Start(t, a)
    PROVE  ListsInv' /\ ApartInv' /\ WorkersAccountedFor'
  <1> DEFINE m == raMine[t]
             s == Append(raLists[m], a)
  <1>0. /\ raLive' = raLive \cup {a} /\ raLists' = [raLists EXCEPT ![m] = s]
        /\ raAt' = [raAt EXCEPT ![t] = IF raNeed[t] = 1 THEN "put" ELSE "add"]
        /\ UNCHANGED <<raPool, raMade, raDoing, raMine, raApart>>
    BY DEF Start, GoesTo
  <1>1. Scales(t) /\ \A u \in Running : Scales(u)' <=> Scales(u)
    BY <1>0 DEF Scales, RayTypes
  <1>2. raLists[m] \in Seq(Worker) /\ m \in 0 .. MaxLists
    BY DEF RayTypes
  <1>3. /\ s \in Seq(Worker) /\ Len(s) = Len(raLists[m]) + 1 /\ s[Len(s)] = a
        /\ \A i \in DOMAIN raLists[m] : i \in DOMAIN s /\ s[i] = raLists[m][i]
    BY <1>2
  <1>4. \A i \in DOMAIN s : s[i].house = HouseOf(t)
    <2> TAKE i \in DOMAIN s
    <2>1. i \in DOMAIN raLists[m] \/ s[i] = a
      BY <1>2
    <2> QED
      BY <1>1, <1>3, <2>1, InHandHouse
  <1> HIDE DEF s
  <1>5. ListsInv' /\ ApartInv'
    BY <1>0, <1>1, <1>3, <1>4, EditKeeps
  <1>6. raLists'[m] = s /\ \A l \in 0 .. MaxLists : l # m => raLists'[l] = raLists[l]
    BY <1>0, <1>2 DEF RayTypes
  <1>7. \A l \in 0 .. MaxLists : \A b : ListedActors(b, l) => ListedActors(b, l)'
    <2> SUFFICES ASSUME NEW l \in 0 .. MaxLists, NEW b, NEW i \in DOMAIN raLists[l], raLists[l][i] = b
                 PROVE  \E j \in DOMAIN raLists'[l] : raLists'[l][j] = b
      BY DEF ListedActors
    <2>1. CASE l = m
      BY <1>3, <1>6, <2>1
    <2>2. CASE l # m
      BY <1>6, <2>2
    <2> QED
      BY <2>1, <2>2
  <1>8. ListedActors(a, m)'
    <2>1. Len(s) \in DOMAIN s
      BY <1>2, <1>3
    <2> QED
      BY <1>0, <1>3, <1>6, <2>1 DEF ListedActors
  <1>9. InHand(a)'
    BY <1>0, <1>1, <1>8 DEF InHand, ListedActors, Scales
  <1>10. ASSUME NEW b \in raLive PROVE (InPool(b) \/ InHand(b) \/ IsApart(b))'
    <2>1. \/ b.house \in Houses /\ ListedActors(b, raPool[b.house])
          \/ \E u \in Running : Scales(u) /\ ListedActors(b, raMine[u])
          \/ \E l \in raApart : ListedActors(b, l)
      BY DEF WorkersAccountedFor, InPool, InHand, IsApart, ListedActors, Scales, RayTypes, Worker
    <2>2. CASE b.house \in Houses /\ ListedActors(b, raPool[b.house])
      <3>1. raPool[b.house] \in 0 .. MaxLists
        BY <2>2 DEF RayTypes
      <3>2. ListedActors(b, raPool[b.house])'
        BY <1>0, <1>7, <2>2, <3>1 DEF ListedActors
      <3> QED
        BY <3>2 DEF InPool, ListedActors
    <2>3. CASE \E u \in Running : Scales(u) /\ ListedActors(b, raMine[u])
      <3> PICK u \in Running : Scales(u) /\ ListedActors(b, raMine[u])
        BY <2>3
      <3>1. raMine[u] \in 0 .. MaxLists
        BY DEF RayTypes
      <3>2. ListedActors(b, raMine[u])'
        BY <1>0, <1>7, <3>1 DEF ListedActors
      <3> QED
        BY <1>1, <3>2 DEF InHand, ListedActors, Scales
    <2>4. CASE \E l \in raApart : ListedActors(b, l)
      <3> PICK l \in raApart : ListedActors(b, l)
        BY <2>4
      <3>1. ListedActors(b, l)' /\ l \in raApart'
        BY <1>0, <1>7 DEF RayTypes
      <3> QED
        BY <3>1 DEF IsApart, ListedActors
    <2> QED
      BY <2>1, <2>2, <2>3, <2>4
  <1>11. WorkersAccountedFor'
    BY <1>0, <1>9, <1>10 DEF WorkersAccountedFor
  <1> QED
    BY <1>5, <1>11

\* The last actor of the list in hand is popped and killed.
LEMMA PopKeeps ==
    ASSUME RayTypes, ListsInv, ApartInv, WorkersAccountedFor, NEW t \in Running,
           Cut(t), raLists[raMine[t]] # <<>>
    PROVE  ListsInv' /\ ApartInv' /\ WorkersAccountedFor'
  <1> DEFINE m == raMine[t]
             s == raLists[m]
             r == SubSeq(s, 1, Len(s) - 1)
  <1>0. /\ raAt[t] = "cut" /\ raLive' = raLive \ {s[Len(s)]} /\ raLists' = [raLists EXCEPT ![m] = r]
        /\ raAt' = [raAt EXCEPT ![t] = IF raNeed[t] = 1 THEN "put" ELSE "cut"]
        /\ UNCHANGED <<raPool, raMade, raDoing, raMine, raApart>>
    BY DEF Cut, GoesTo, Killed
  <1>1. Scales(t) /\ \A u \in Running : Scales(u)' <=> Scales(u)
    BY <1>0 DEF Scales, RayTypes
  <1>2. s \in Seq(Worker) /\ m \in 0 .. MaxLists /\ s # <<>>
    BY DEF RayTypes
  <1>3. /\ r \in Seq(Worker) /\ Len(r) = Len(s) - 1
        /\ \A i \in DOMAIN r : i \in DOMAIN s /\ r[i] = s[i]
        /\ \A i \in DOMAIN s : i # Len(s) => i \in DOMAIN r
    BY <1>2
  <1>4. \A i \in DOMAIN r : r[i].house = HouseOf(t)
    BY <1>1, <1>3, InHandHouse
  <1> HIDE DEF r
  <1>5. ListsInv' /\ ApartInv'
    BY <1>0, <1>1, <1>3, <1>4, EditKeeps
  <1>6. raLists'[m] = r /\ \A l \in 0 .. MaxLists : l # m => raLists'[l] = raLists[l]
    BY <1>0, <1>2 DEF RayTypes
  <1>7. \A l \in 0 .. MaxLists : \A b : b # s[Len(s)] /\ ListedActors(b, l) => ListedActors(b, l)'
    <2> SUFFICES ASSUME NEW l \in 0 .. MaxLists, NEW b, NEW i \in DOMAIN raLists[l], raLists[l][i] = b,
                        b # s[Len(s)]
                 PROVE  \E j \in DOMAIN raLists'[l] : raLists'[l][j] = b
      BY DEF ListedActors
    <2>1. CASE l = m
      BY <1>3, <1>6, <2>1
    <2>2. CASE l # m
      BY <1>6, <2>2
    <2> QED
      BY <2>1, <2>2
  <1>8. ASSUME NEW b \in raLive' PROVE (InPool(b) \/ InHand(b) \/ IsApart(b))'
    <2>0. b \in raLive /\ b # s[Len(s)]
      BY <1>0
    <2>1. \/ b.house \in Houses /\ ListedActors(b, raPool[b.house])
          \/ \E u \in Running : Scales(u) /\ ListedActors(b, raMine[u])
          \/ \E l \in raApart : ListedActors(b, l)
      BY <2>0 DEF WorkersAccountedFor, InPool, InHand, IsApart, ListedActors, Scales, RayTypes, Worker
    <2>2. CASE b.house \in Houses /\ ListedActors(b, raPool[b.house])
      <3> PICK l \in 0 .. MaxLists : l = raPool[b.house]
        BY <2>2 DEF RayTypes
      <3>1. ListedActors(b, l)' /\ l = raPool'[b.house]
        BY <1>0, <1>7, <2>0, <2>2
      <3> QED
        BY <3>1 DEF InPool, ListedActors
    <2>3. CASE \E u \in Running : Scales(u) /\ ListedActors(b, raMine[u])
      <3> PICK u \in Running : Scales(u) /\ ListedActors(b, raMine[u])
        BY <2>3
      <3> PICK l \in 0 .. MaxLists : l = raMine[u]
        BY DEF RayTypes
      <3>1. ListedActors(b, l)' /\ l = raMine'[u]
        BY <1>0, <1>7, <2>0
      <3> QED
        BY <1>1, <3>1 DEF InHand, ListedActors, Scales
    <2>4. CASE \E l \in raApart : ListedActors(b, l)
      <3> PICK l \in raApart : ListedActors(b, l)
        BY <2>4
      <3>1. ListedActors(b, l)' /\ l \in raApart'
        BY <1>0, <1>7, <2>0 DEF RayTypes
      <3> QED
        BY <3>1 DEF IsApart, ListedActors
    <2> QED
      BY <2>1, <2>2, <2>3, <2>4
  <1> QED
    BY <1>5, <1>8 DEF WorkersAccountedFor

\* The list in hand becomes the pool of its warehouse.
LEMMA PutBackKeeps ==
    ASSUME RayTypes, RequestInv, ListsInv, ApartInv, WorkersAccountedFor, NEW t \in Running, PutBack(t)
    PROVE  ListsInv' /\ ApartInv' /\ WorkersAccountedFor'
  <1> DEFINE m == raMine[t]
             h == HouseOf(t)
  <1>0. /\ raAt[t] = "put" /\ raPool' = [raPool EXCEPT ![h] = m] /\ ~Scales(t)' /\ Scales(t)
        /\ \A u \in Running \ {t} : Scales(u)' <=> Scales(u)
        /\ UNCHANGED <<raLists, raMade, raLive, raDoing, raMine, raApart>>
    <2>1. raDoing[t].then \notin {"add", "name", "cut", "put"}
      BY DEF RayTypes
    <2> QED
      BY <2>1 DEF PutBack, GoesTo, HouseOf, Scales, RayTypes
  <1>1. h \in Houses /\ \A u \in Running : HouseOf(u)' = HouseOf(u)
    BY <1>0 DEF RequestInv, RequestFits, HouseOf
  <1>2. raPool'[h] = m /\ \A g \in Houses : g # h => raPool'[g] = raPool[g]
    BY <1>0, <1>1 DEF RayTypes
  <1>3. m \in 1 .. raMade /\ raMade \in Nat
    BY <1>0 DEF ListsInv, RayTypes
  <1>4. ListsInv'
    <2> PICK own \in [1 .. MaxLists -> Houses \cup {DefaultHouse}] : Owned(own)
      BY DEF ListsInv
    <2>1. own[m] = h
      BY <1>0 DEF Owned
    <2>2. Owned(own)'
      BY <1>0, <1>1, <1>2, <2>1 DEF Owned
    <2>3. \A g \in Houses : raPool'[g] <= raMade
      <3> TAKE g \in Houses
      <3>1. raPool'[g] = m \/ raPool'[g] = raPool[g]
        BY <1>2
      <3> QED
        BY <1>3, <3>1 DEF ListsInv
    <2>4. \A u \in Running : Scales(u)' => raMine[u] \in 1 .. raMade
      BY <1>0 DEF ListsInv
    <2> QED
      BY <1>0, <2>2, <2>3, <2>4 DEF ListsInv
  <1>5. ASSUME NEW u \in Running \ {t}, Scales(u), HouseOf(u) = h, raMine[u] # m
        PROVE  raMine[u] \in raApart /\ m \in raApart
    <2>1. CASE raPool[h] = 0
      BY <1>0, <1>5, <2>1 DEF ApartInv
    <2>2. CASE raPool[h] # 0
      <3>1. (raMine[u] # raPool[h] => raMine[u] \in raApart /\ raPool[h] \in raApart)
            /\ (m # raPool[h] => m \in raApart /\ raPool[h] \in raApart)
        BY <1>0, <1>5, <2>2 DEF ApartInv
      <3> QED
        BY <1>5, <3>1
    <2> QED
      BY <2>1, <2>2
  <1>6. ApartInv'
    <2> SUFFICES ASSUME NEW u \in Running, Scales(u)'
                 PROVE  IF raPool'[HouseOf(u)] = 0
                        THEN \A v \in Running \ {u} : Scales(v)' /\ HouseOf(v) = HouseOf(u) => raMine[u] \in raApart
                        ELSE raMine[u] # raPool'[HouseOf(u)]
                                 => raMine[u] \in raApart /\ raPool'[HouseOf(u)] \in raApart
      BY <1>0, <1>1 DEF ApartInv
    <2>0. u # t /\ Scales(u) /\ HouseOf(u) \in Houses
      BY <1>0 DEF RequestInv, RequestFits, Scales
    <2>1. CASE HouseOf(u) = h
      BY <1>2, <1>3, <1>5, <2>0, <2>1
    <2>2. CASE HouseOf(u) # h
      BY <1>0, <1>2, <2>0, <2>2 DEF ApartInv
    <2> QED
      BY <2>1, <2>2
  <1>7. WorkersAccountedFor'
    <2> SUFFICES ASSUME NEW b \in raLive PROVE (InPool(b) \/ InHand(b) \/ IsApart(b))'
      BY <1>0 DEF WorkersAccountedFor
    <2>a. IsApart(b) => IsApart(b)'
      BY <1>0 DEF IsApart
    <2>b. b.house = h /\ ListedActors(b, m) => InPool(b)'
      BY <1>0, <1>2 DEF InPool, ListedActors
    <2>1. CASE InPool(b)
      <3>1. CASE b.house # h
        <4>1. b.house \in Houses
          BY DEF RayTypes, Worker
        <4> QED
          BY <1>0, <1>2, <2>1, <3>1, <4>1 DEF InPool
      <3>2. CASE b.house = h
        <4>1. raPool[h] # 0
          <5>1. raLists[0] = <<>>
            BY RayAssumption DEF ListsInv
          <5> QED
            BY <2>1, <3>2, <5>1 DEF InPool
        <4>2. m = raPool[h] \/ raPool[h] \in raApart
          BY <1>0, <4>1 DEF ApartInv
        <4> QED
          BY <2>1, <2>a, <2>b, <3>2, <4>2 DEF InPool, IsApart, ListedActors
      <3> QED
        BY <3>1, <3>2
    <2>2. CASE InHand(b)
      <3> PICK u \in Running : Scales(u) /\ ListedActors(b, raMine[u])
        BY <2>2 DEF InHand, ListedActors, Scales
      <3>1. CASE u = t
        <4>1. b.house = h
          BY <1>0, <3>1, InHandHouse DEF ListedActors
        <4> QED
          BY <2>b, <3>1, <4>1
      <3>2. CASE u # t
        BY <1>0, <3>2 DEF InHand, ListedActors, Scales
      <3> QED
        BY <3>1, <3>2
    <2> QED
      BY <2>1, <2>2, <2>a DEF WorkersAccountedFor
  <1> QED
    BY <1>4, <1>6, <1>7

\* Ray is shut down, and the pools' lists are emptied.
LEMMA StopRayKeeps ==
    ASSUME RayTypes, ListsInv, ApartInv, StopRay
    PROVE  ListsInv' /\ ApartInv' /\ WorkersAccountedFor'
  <1>0. /\ UNCHANGED <<raPool, raMade, raAt, raDoing, raMine, raApart>> /\ raLive' = {}
        /\ DOMAIN raLists = 0 .. MaxLists
        /\ \A l \in 0 .. MaxLists : raLists'[l] \in {raLists[l], <<>>}
    BY DEF StopRay, RayTypes
  <1>1. \A u \in Running : (Scales(u)' <=> Scales(u)) /\ HouseOf(u)' = HouseOf(u)
    BY <1>0 DEF Scales, HouseOf
  <1>2. ListsInv'
    <2> PICK own \in [1 .. MaxLists -> Houses \cup {DefaultHouse}] : Owned(own)
      BY DEF ListsInv
    <2>1. \A l \in 1 .. MaxLists : \A i \in DOMAIN raLists'[l] : raLists'[l][i].house = own[l]
      <3> SUFFICES ASSUME NEW l \in 1 .. MaxLists, NEW i \in DOMAIN raLists'[l] PROVE raLists'[l][i].house = own[l]
        OBVIOUS
      <3>1. raLists'[l] = raLists[l] \/ raLists'[l] = <<>>
        BY <1>0
      <3>2. raLists'[l] = raLists[l]
        BY <3>1
      <3> QED
        BY <3>2 DEF Owned
    <2>2. Owned(own)'
      BY <1>0, <1>1, <2>1 DEF Owned
    <2>3. \A l \in 0 .. MaxLists : l = 0 \/ l > raMade => raLists'[l] = <<>>
      BY <1>0 DEF ListsInv
    <2> QED
      BY <1>0, <1>1, <2>2, <2>3 DEF ListsInv
  <1>3. ApartInv'
    BY <1>0, <1>1 DEF ApartInv
  <1> QED
    BY <1>0, <1>2, <1>3 DEF WorkersAccountedFor

-----------------------------------------------------------------------------
(* How many actors may be unexplained.                                     *)

LEMMA EntriesAtMost ==
    ASSUME NEW s \in Seq(Worker), NEW T, \A a \in T : \E i \in DOMAIN s : s[i] = a
    PROVE  Cardinality(T) <= Len(s) /\ Len(s) \in Nat /\ Cardinality(T) \in Nat
  <1> DEFINE I == 1 .. Len(s)
             R == {s[i] : i \in I}
             f == [i \in I |-> s[i]]
  <1>1. Len(s) \in Nat /\ DOMAIN s = I
    OBVIOUS
  <1>2. IsFiniteSet(I) /\ Cardinality(I) = Len(s)
    <2>1. IsFiniteSet(1 .. Len(s)) /\ Cardinality(1 .. Len(s)) = IF 1 > Len(s) THEN 0 ELSE Len(s) - 1 + 1
      BY <1>1, FS_Interval
    <2> QED
      BY <1>1, <2>1
  <1>3. f \in Surjection(I, R)
    BY DEF Surjection
  <1>4. T \subseteq R
    BY <1>1
  <1> HIDE DEF I, R, f
  <1>5. IsFiniteSet(R) /\ Cardinality(R) <= Cardinality(I)
    BY <1>2, <1>3, FS_Surjection
  <1>6. IsFiniteSet(T) /\ Cardinality(T) <= Cardinality(R)
    BY <1>4, <1>5, FS_Subset
  <1>7. Cardinality(T) \in Nat /\ Cardinality(R) \in Nat
    BY <1>5, <1>6, FS_CardinalityType
  <1> QED
    BY <1>1, <1>2, <1>5, <1>6, <1>7

\* Whoever scales a warehouse has everything in hand that is not noted as apart.
LEMMA ScalingHoldsAll ==
    ASSUME RayTypes, ListsInv, ApartInv, WorkersAccountedFor, NEW t \in Running, Scales(t),
           HouseOf(t) \in Houses, NEW a \in Unexplained(HouseOf(t))
    PROVE  ListedActors(a, raMine[t])
  <1> DEFINE h == HouseOf(t)
  <1>0. a \in raLive /\ a.house = h /\ \A l \in raApart : ~ListedActors(a, l)
    BY DEF Unexplained, IsApart, ListedActors
  <1>1. InPool(a) \/ InHand(a)
    BY <1>0 DEF WorkersAccountedFor, IsApart, ListedActors
  <1>2. CASE InPool(a)
    <2>1. ListedActors(a, raPool[h])
      BY <1>0, <1>2 DEF InPool, ListedActors
    <2>2. raPool[h] # 0
      <3>1. raLists[0] = <<>>
        BY RayAssumption DEF ListsInv
      <3> QED
        BY <2>1, <3>1 DEF ListedActors
    <2> QED
      BY <1>0, <2>1, <2>2 DEF ApartInv
  <1>3. CASE InHand(a)
    <2> PICK u \in Running : Scales(u) /\ ListedActors(a, raMine[u])
      BY <1>3 DEF InHand, ListedActors, Scales
    <2>1. HouseOf(u) = h
      BY <1>0, InHandHouse DEF ListedActors
    <2>2. raMine[u] \notin raApart
      BY <1>0
    <2>3. CASE u # t
      <3>1. CASE raPool[h] = 0
        BY <2>1, <2>2, <2>3, <3>1 DEF ApartInv
      <3>2. CASE raPool[h] # 0
        <4>1. raMine[u] = raPool[h]
          BY <2>1, <2>2, <3>2 DEF ApartInv
        <4>2. raMine[t] = raPool[h]
          BY <2>2, <3>2, <4>1 DEF ApartInv
        <4> QED
          BY <4>1, <4>2
      <3> QED
        BY <3>1, <3>2
    <2> QED
      BY <2>3
  <1> QED
    BY <1>1, <1>2, <1>3

LEMMA RayCountStep ==
    ASSUME RayInv, [RayNext]_rayVars
    PROVE  CountInv'
  <1>0. RayTypes /\ RequestInv /\ ListsInv /\ ApartInv /\ WorkersAccountedFor /\ CountInv
    BY DEF RayInv
  <1>1. /\ EventLoop \in Running /\ \A u \in Running : RequestFits(u)
        /\ \A u \in Running : raAt[u] = "remove" => u = EventLoop
        /\ \A u \in Running : raAt[u] # "idle" /\ raDoing[u].then = "remove" => u = EventLoop
    <2>1. \A u \in Running : RequestFits(u)
      BY <1>0 DEF RequestInv
    <2> QED
      BY <1>0, <2>1 DEF RequestFits, Running, RayTypes
  <1>h. \A u \in Running : raAt[u] # "idle" => HouseOf(u) \in Houses
    BY <1>1 DEF RequestFits
  \* A step that kills some and explains more.
  <1>e. ASSUME raLive' \subseteq raLive, \A a \in raLive' : IsApart(a) => IsApart(a)'
        PROVE  \A h \in Houses : raLate'[h] = raLate[h] /\ LateEnough(h) => LateEnough(h)'
    <2> SUFFICES ASSUME NEW h \in Houses, raLate'[h] = raLate[h], LateEnough(h) PROVE LateEnough(h)'
      OBVIOUS
    <2>1. Unexplained(h)' \subseteq Unexplained(h)
      BY <1>e DEF Unexplained
    <2>2. IsFiniteSet(Unexplained(h))
      <3>1. Unexplained(h) \subseteq raLive
        BY DEF Unexplained
      <3> QED
        BY <1>0, <3>1, FS_Subset DEF RayTypes
    <2>3. Cardinality(Unexplained(h)') <= Cardinality(Unexplained(h)) /\ IsFiniteSet(Unexplained(h)')
      BY <2>1, <2>2, FS_Subset
    <2>4. Cardinality(Unexplained(h)') \in Nat /\ Cardinality(Unexplained(h)) \in Nat /\ raLate[h] \in Nat
      BY <1>0, <2>2, <2>3, FS_CardinalityType DEF RayTypes
    <2> QED
      BY <2>3, <2>4 DEF LateEnough
  <1>n. ASSUME raLive' = {} PROVE \A h \in Houses : raLate'[h] \in Nat => LateEnough(h)'
    <2>1. \A h : Unexplained(h)' = {}
      BY <1>n DEF Unexplained
    <2>2. Cardinality({}) = 0
      BY FS_EmptySet
    <2> QED
      BY <2>1, <2>2 DEF LateEnough
  \* Nobody scales and no warehouse is removed: only the counts matter.
  <1>q. ASSUME Calm, raHouses' = raHouses, raLate' = raLate, raNeed' = raNeed, NEW t \in Running,
               \A u \in Running \ {t} : raAt'[u] = "remove" => raAt[u] = "remove" /\ raDoing'[u] = raDoing[u],
               raAt'[t] = "remove" => \E h \in Houses : h = HouseOf(t)' /\ LateEnough(h)'
        PROVE  CountInv'
    <2>0. UNCHANGED <<raLists, raLive>> /\ raApart \subseteq raApart'
      BY <1>q DEF Calm
    <2>1. \A h \in Houses : LateEnough(h) => LateEnough(h)'
      BY <1>e, <1>q, <2>0 DEF IsApart
    <2>2. \A h \in Houses \ raHouses' : LateEnough(h)'
      BY <1>0, <1>q, <2>1 DEF CountInv
    <2>3. ASSUME NEW u \in Running, raAt'[u] = "remove" PROVE LateEnough(HouseOf(u))'
      <3> SUFFICES \E h \in Houses : h = HouseOf(u)' /\ LateEnough(h)'
        BY DEF LateEnough, Unexplained
      <3>1. CASE u = t
        BY <1>q, <2>3, <3>1
      <3>2. CASE u # t
        <4>1. raAt[u] = "remove" /\ HouseOf(u)' = HouseOf(u)
          BY <1>q, <2>3, <3>2 DEF HouseOf
        <4>2. LateEnough(HouseOf(u)) /\ HouseOf(u) \in Houses
          BY <1>0, <1>h, <4>1 DEF CountInv
        <4> QED
          BY <2>1, <4>1, <4>2
      <3> QED
        BY <3>1, <3>2
    <2>4. ASSUME NEW u \in Running, Scales(u)', raDoing'[u].then = "remove"
          PROVE  Len(raLists'[raMine'[u]]) <= raLate'[HouseOf(u)'] + raNeed'[u]
      <3>1. Scales(u) /\ raMine'[u] = raMine[u] /\ raDoing'[u] = raDoing[u] /\ HouseOf(u)' = HouseOf(u)
        BY <1>q, <2>4 DEF Calm, HouseOf
      <3> QED
        BY <1>0, <1>q, <2>0, <2>4, <3>1 DEF CountInv
    <2> QED
      BY <2>2, <2>3, <2>4 DEF CountInv, LateEnough
  <1>2. ASSUME NEW t \in Running, NEW h \in Houses, NEW first \in {"init", "look"}, NEW then \in {"none", "pick", "remove"},
               NEW n \in Int, Handle(t, h, n, first, then)
        PROVE  CountInv'
    <2>1. Calm
      BY <1>0, <1>2, CalmSteps
    <2>2. /\ raAt' = [raAt EXCEPT ![t] = first] /\ UNCHANGED <<raHouses, raLate, raNeed>>
          /\ \A u \in Running \ {t} : raDoing'[u] = raDoing[u]
      BY <1>0, <1>2 DEF Handle, GoesTo, placeVars, RayTypes
    <2>3. raAt'[t] # "remove" /\ \A u \in Running \ {t} : raAt'[u] = raAt[u]
      BY <1>0, <2>2 DEF RayTypes
    <2> QED
      BY <1>q, <2>1, <2>2, <2>3
  <1>3. ASSUME NEW t \in Running, Connect(t) PROVE CountInv'
    <2>1. Calm
      BY <1>0, <1>3, CalmSteps
    <2>2. /\ UNCHANGED <<raHouses, raLate, raNeed, raDoing, raLive>> /\ ~raUp /\ raAt[t] # "idle"
          /\ \A u \in Running \ {t} : raAt'[u] = raAt[u]
      BY <1>0, <1>3 DEF Connect, GoesTo, placeVars, RayTypes
    <2>3. raLive' = {}
      BY <1>0, <2>2 DEF RequestInv
    <2>4. HouseOf(t) \in Houses /\ HouseOf(t)' = HouseOf(t)
      BY <1>h, <2>2 DEF HouseOf
    <2>5. LateEnough(HouseOf(t))'
      <3> PICK h \in Houses : h = HouseOf(t)'
        BY <2>4
      <3>1. LateEnough(h)'
        BY <1>0, <1>n, <2>2, <2>3 DEF RayTypes
      <3> QED
        BY <3>1 DEF LateEnough, Unexplained
    <2>6. \E h \in Houses : h = HouseOf(t)' /\ LateEnough(h)'
      BY <2>4, <2>5 DEF LateEnough, Unexplained
    <2> QED
      BY <1>q, <2>1, <2>2, <2>6
  <1>4. ASSUME NEW t \in Running, Look(t) \/ Number(t) \/ Pick(t) PROVE CountInv'
    <2>1. Calm
      BY <1>0, <1>4, CalmSteps
    <2>2. /\ UNCHANGED <<raHouses, raLate, raNeed, raDoing>> /\ raAt'[t] # "remove"
          /\ \A u \in Running \ {t} : raAt'[u] = raAt[u]
      BY <1>0, <1>4 DEF Look, Number, Pick, GoesTo, placeVars, RayTypes
    <2> QED
      BY <1>q, <2>1, <2>2
  <1>r. ASSUME NEW t \in Running, Raise(t),
               raAt[t] = "name" \/ (raAt[t] = "cut" /\ raLists[raMine[t]] = <<>>)
        PROVE  CountInv'
    <2>1. Calm
      BY <1>0, <1>r, CalmSteps
    <2>2. /\ UNCHANGED <<raHouses, raLate, raNeed, raDoing, raLive, raLists>> /\ raApart \subseteq raApart'
          /\ raAt' = [raAt EXCEPT ![t] = IF raDoing[t].then = "remove" THEN "remove" ELSE "idle"]
      BY <1>r DEF Raise, GoesTo
    <2>3. \A u \in Running \ {t} : raAt'[u] = raAt[u]
      BY <1>0, <2>2 DEF RayTypes
    <2>4. ASSUME raAt'[t] = "remove" PROVE \E h \in Houses : h = HouseOf(t)' /\ LateEnough(h)'
      <3>1. raAt[t] = "cut" /\ raLists[raMine[t]] = <<>>
        BY <1>0, <1>1, <1>r, <2>2, <2>4 DEF RequestFits, RayTypes
      <3> PICK h \in Houses : h = HouseOf(t)
        BY <1>h, <3>1
      <3>2. Unexplained(h) = {}
        <4> SUFFICES ASSUME NEW a \in Unexplained(h) PROVE FALSE
          OBVIOUS
        <4>1. ListedActors(a, raMine[t])
          BY <1>0, <3>1, ScalingHoldsAll DEF Scales
        <4> QED
          BY <3>1, <4>1 DEF ListedActors
      <3>3. LateEnough(h)
        <4>1. Cardinality({}) = 0
          BY FS_EmptySet
        <4> QED
          BY <1>0, <3>2, <4>1 DEF LateEnough, RayTypes
      <3>4. LateEnough(h)'
        BY <1>e, <2>2, <3>3 DEF IsApart
      <3> QED
        BY <2>2, <3>4 DEF HouseOf
    <2> QED
      BY <1>q, <2>1, <2>2, <2>3, <2>4
  <1>5. ASSUME NEW t \in Running, Get(t) PROVE CountInv'
    <2> DEFINE h == HouseOf(t)
               l == IF raPool[h] = 0 THEN raMade + 1 ELSE raPool[h]
               n == Len(raLists[l])
               k == raDoing[t].target
               deletes == raDoing[t].then = "remove"
    <2>1. /\ raAt[t] = "init" /\ raMine' = [raMine EXCEPT ![t] = l] /\ raApart \subseteq raApart'
          /\ raNeed' = [raNeed EXCEPT ![t] = IF k > n THEN k - n ELSE n - k]
          /\ raAt' = [raAt EXCEPT ![t] = IF k > n THEN "add" ELSE IF k < n THEN "cut" ELSE "put"]
          /\ raLate' = (IF deletes /\ h \in raHouses THEN [raLate EXCEPT ![h] = 0] ELSE raLate)
          /\ (raPool[h] = 0 => raMade < MaxLists)
          /\ UNCHANGED <<raHouses, raLists, raLive, raDoing>>
      BY <1>5 DEF Get, GoesTo, HouseOf
    <2>2. h \in Houses /\ RequestFits(t) /\ raAt[t] # "remove" /\ raAt'[t] # "remove"
          /\ (\A u \in Running \ {t} : /\ raAt'[u] = raAt[u] /\ raMine'[u] = raMine[u] /\ raNeed'[u] = raNeed[u]
                                       /\ (Scales(u)' <=> Scales(u)))
          /\ raMine'[t] = l /\ raNeed'[t] = (IF k > n THEN k - n ELSE n - k)
          /\ \A u \in Running : HouseOf(u)' = HouseOf(u)
      BY <1>0, <1>1, <1>h, <2>1 DEF RayTypes, Scales, HouseOf
    <2>3. \A g \in Houses : raLate'[g] = raLate[g] /\ LateEnough(g) => LateEnough(g)'
      BY <1>e, <2>1 DEF IsApart
    <2>4. \A g \in Houses : raLate'[g] = raLate[g] \/ (deletes /\ g = h /\ h \in raHouses)
      BY <1>0, <2>1, <2>2 DEF RayTypes
    <2>5. \A g \in Houses \ raHouses' : LateEnough(g)'
      BY <1>0, <2>1, <2>3, <2>4 DEF CountInv
    <2>6. ASSUME NEW u \in Running, raAt'[u] = "remove" PROVE LateEnough(HouseOf(u))'
      <3>1. u # t /\ raAt[u] = "remove"
        BY <2>2, <2>6
      <3>2. ~deletes
        BY <1>1, <2>1, <3>1
      <3> PICK g \in Houses : g = HouseOf(u)
        BY <1>h, <3>1
      <3>3. LateEnough(g)
        BY <1>0, <3>1 DEF CountInv
      <3>4. LateEnough(g)'
        BY <2>3, <2>4, <3>2, <3>3
      <3> QED
        BY <2>2, <3>4 DEF LateEnough, Unexplained
    <2>7. ASSUME NEW u \in Running, Scales(u)', raDoing'[u].then = "remove"
          PROVE  Len(raLists'[raMine'[u]]) <= raLate'[HouseOf(u)'] + raNeed'[u]
      <3>1. CASE u = t
        <4>1. k = 0
          BY <2>1, <2>2, <2>7, <3>1 DEF RequestFits
        <4>2. l \in 0 .. MaxLists
          BY <1>0, <2>1, <2>2, RayAssumption DEF RayTypes
        <4>3. n \in Nat
          BY <1>0, <4>2 DEF RayTypes
        <4>4. raLate'[h] \in Nat
          BY <1>0, <2>1, <2>2 DEF RayTypes
        <4> HIDE DEF l, n, k, h
        <4>5. raNeed'[t] = n
          BY <2>2, <4>1, <4>3
        <4>6. Len(raLists'[raMine'[t]]) = n /\ HouseOf(t)' = h
          BY <2>1, <2>2 DEF n, h
        <4> QED
          BY <3>1, <4>3, <4>4, <4>5, <4>6
      <3>2. CASE u # t
        <4>1. Scales(u) /\ raDoing[u].then = "remove" /\ HouseOf(u) \in Houses
          BY <1>h, <2>1, <2>2, <2>7, <3>2 DEF Scales
        <4>2. ~deletes
          BY <1>1, <2>1, <3>2, <4>1 DEF Scales
        <4> QED
          BY <1>0, <2>1, <2>2, <2>4, <3>2, <4>1, <4>2 DEF CountInv
      <3> QED
        BY <3>1, <3>2
    <2> QED
      BY <2>5, <2>6, <2>7 DEF CountInv
  <1>6. ASSUME NEW t \in Running, Spawn(t) PROVE CountInv'
    <2> DEFINE a == [house |-> raDoing[t].house, idx |-> raIdx]
    <2>0. raAt[t] = "name" /\ (Raise(t) \/ (a \notin raLive /\ Start(t, a)))
      BY <1>6 DEF Spawn
    <2>1. CASE Start(t, a)
      <3> DEFINE h == HouseOf(t)
                 m == raMine[t]
      <3>1. h \in Houses /\ RequestFits(t) /\ Scales(t)
        BY <1>1, <1>h, <2>0 DEF Scales
      <3> PICK b \in Worker : b = a
        BY <1>0, <3>1 DEF Worker, HouseOf, RayTypes
      <3>2. b.house = h
        BY DEF HouseOf
      <3>3. /\ raLive' = raLive \cup {b} /\ raLists' = [raLists EXCEPT ![m] = Append(@, b)]
            /\ raAt' = [raAt EXCEPT ![t] = IF raNeed[t] = 1 THEN "put" ELSE "add"]
            /\ raNeed' = [raNeed EXCEPT ![t] = @ - 1]
            /\ raLate' = (IF raDoing[t].then # "pick" THEN raLate ELSE [raLate EXCEPT ![b.house] = @ + 1])
            /\ UNCHANGED <<raHouses, raDoing, raMine, raApart>>
        BY <2>1 DEF Start, GoesTo
      <3> HIDE DEF a
      <3>4. /\ raDoing[t].then # "remove"
            /\ raDoing[t].then = "none" => t = EventLoop /\ h \in raHouses
        BY <1>1, <2>0, <3>1 DEF RequestFits
      <3>5. /\ raDoing[t].then = "pick" => raLate'[h] = raLate[h] + 1
            /\ \A g \in Houses : g # h \/ raDoing[t].then # "pick" => raLate'[g] = raLate[g]
            /\ \A g \in Houses : raLate[g] \in Nat /\ raLate'[g] \in Nat
        BY <1>0, <3>1, <3>2, <3>3 DEF RayTypes
      <3>6. \A l \in 0 .. MaxLists : \A c : ListedActors(c, l) => ListedActors(c, l)'
        <4> SUFFICES ASSUME NEW l \in 0 .. MaxLists, NEW c, NEW i \in DOMAIN raLists[l], raLists[l][i] = c
                     PROVE  \E j \in DOMAIN raLists'[l] : raLists'[l][j] = c
          BY DEF ListedActors
        <4>1. raLists[l] \in Seq(Worker) /\ raLists'[l] \in {raLists[l], Append(raLists[l], b)}
          BY <1>0, <3>3 DEF RayTypes
        <4>2. i \in DOMAIN raLists'[l] /\ raLists'[l][i] = c
          BY <4>1
        <4> QED
          BY <4>2
      <3>7. \A c : IsApart(c) => IsApart(c)'
        <4> SUFFICES ASSUME NEW c, NEW l \in raApart, ListedActors(c, l) PROVE IsApart(c)'
          BY DEF IsApart, ListedActors
        <4>1. ListedActors(c, l)' /\ l \in raApart'
          BY <1>0, <3>3, <3>6 DEF RayTypes
        <4> QED
          BY <4>1 DEF IsApart, ListedActors
      <3>8. ASSUME NEW g \in Houses, LateEnough(g), g = h => raDoing[t].then = "pick" PROVE LateEnough(g)'
        <4>1. Unexplained(g)' \subseteq Unexplained(g) \cup (IF g = h THEN {b} ELSE {})
          BY <3>2, <3>3, <3>7 DEF Unexplained
        <4>2. IsFiniteSet(Unexplained(g))
          <5>1. Unexplained(g) \subseteq raLive
            BY DEF Unexplained
          <5> QED
            BY <1>0, <5>1, FS_Subset DEF RayTypes
        <4>3. /\ IsFiniteSet(Unexplained(g) \cup {b})
              /\ Cardinality(Unexplained(g) \cup {b}) <= Cardinality(Unexplained(g)) + 1
          <5>1. Cardinality(Unexplained(g)) \in Nat
            BY <4>2, FS_CardinalityType
          <5> QED
            BY <4>2, <5>1, FS_AddElement
        <4>4. CASE g = h
          <5>1. Unexplained(g)' \subseteq Unexplained(g) \cup {b}
            BY <4>1, <4>4
          <5>2. IsFiniteSet(Unexplained(g)') /\ Cardinality(Unexplained(g)') <= Cardinality(Unexplained(g) \cup {b})
            BY <4>3, <5>1, FS_Subset
          <5>3. /\ Cardinality(Unexplained(g)) \in Nat /\ Cardinality(Unexplained(g)') \in Nat
                /\ Cardinality(Unexplained(g) \cup {b}) \in Nat
            BY <4>2, <4>3, <5>2, FS_CardinalityType
          <5>4. raLate'[g] = raLate[g] + 1 /\ raLate[g] \in Nat
            BY <3>5, <3>8, <4>4
          <5> QED
            BY <3>8, <4>3, <5>2, <5>3, <5>4 DEF LateEnough
        <4>5. CASE g # h
          <5>1. Unexplained(g)' \subseteq Unexplained(g)
            BY <4>1, <4>5
          <5>2. IsFiniteSet(Unexplained(g)') /\ Cardinality(Unexplained(g)') <= Cardinality(Unexplained(g))
            BY <4>2, <5>1, FS_Subset
          <5>3. Cardinality(Unexplained(g)) \in Nat /\ Cardinality(Unexplained(g)') \in Nat
            BY <4>2, <5>2, FS_CardinalityType
          <5>4. raLate'[g] = raLate[g] /\ raLate[g] \in Nat
            BY <3>5, <4>5
          <5> QED
            BY <3>8, <5>2, <5>3, <5>4 DEF LateEnough
        <4> QED
          BY <4>4, <4>5
      <3>9. \A g \in Houses \ raHouses' : LateEnough(g)'
        <4> TAKE g \in Houses \ raHouses'
        <4>1. g = h => raDoing[t].then = "pick"
          BY <1>0, <3>3, <3>4 DEF RayTypes
        <4>2. LateEnough(g)
          BY <1>0, <3>3 DEF CountInv
        <4> QED
          BY <3>8, <4>1, <4>2
      <3>10. ASSUME NEW u \in Running, raAt'[u] = "remove" PROVE LateEnough(HouseOf(u))'
        <4>1. u # t /\ raAt[u] = "remove" /\ u = EventLoop
          BY <1>0, <1>1, <3>3, <3>10 DEF RayTypes
        <4>2. raDoing[t].then = "pick"
          BY <1>0, <3>4, <4>1 DEF RayTypes
        <4> PICK g \in Houses : g = HouseOf(u)
          BY <1>h, <4>1
        <4>3. LateEnough(g)
          BY <1>0, <4>1 DEF CountInv
        <4>4. LateEnough(g)'
          BY <3>8, <4>2, <4>3
        <4> QED
          BY <3>3, <4>4 DEF LateEnough, Unexplained, HouseOf
      <3>11. ASSUME NEW u \in Running, Scales(u)', raDoing'[u].then = "remove"
             PROVE  Len(raLists'[raMine'[u]]) <= raLate'[HouseOf(u)'] + raNeed'[u]
        <4>1. u # t /\ Scales(u) /\ raDoing[u].then = "remove" /\ u = EventLoop /\ raNeed'[u] = raNeed[u]
              /\ raMine'[u] = raMine[u] /\ HouseOf(u)' = HouseOf(u)
          BY <1>0, <1>1, <3>3, <3>4, <3>11 DEF RayTypes, Scales, HouseOf
        <4>2. raDoing[t].then = "pick"
          BY <1>0, <3>4, <4>1 DEF RayTypes
        <4>3. Len(raLists[raMine[u]]) <= raLate[HouseOf(u)] + raNeed[u] /\ HouseOf(u) \in Houses
          BY <1>0, <1>h, <4>1 DEF CountInv, Scales
        <4>4. raLists[raMine[u]] \in Seq(Worker) /\ raMine[u] \in 0 .. MaxLists /\ raNeed[u] \in Int
          BY <1>0 DEF RayTypes
        <4>5. CASE raMine[u] = m
          <5>1. HouseOf(u) = h
            <6> PICK own \in [1 .. MaxLists -> Houses \cup {DefaultHouse}] : Owned(own)
              BY <1>0 DEF ListsInv
            <6> QED
              BY <3>1, <4>1, <4>5 DEF Owned
          <5>2. Len(raLists'[raMine[u]]) = Len(raLists[raMine[u]]) + 1
            BY <1>0, <3>3, <4>4, <4>5 DEF RayTypes
          <5>3. raLate'[h] = raLate[h] + 1 /\ raLate[h] \in Nat
            BY <3>1, <3>5, <4>2
          <5> QED
            BY <4>1, <4>3, <4>4, <5>1, <5>2, <5>3
        <4>6. CASE raMine[u] # m
          <5>1. raLists'[raMine[u]] = raLists[raMine[u]]
            BY <1>0, <3>3, <4>4, <4>6 DEF RayTypes
          <5>2. raLate[HouseOf(u)] <= raLate'[HouseOf(u)] /\ raLate'[HouseOf(u)] \in Nat /\ raLate[HouseOf(u)] \in Nat
            BY <3>5, <4>2, <4>3
          <5> QED
            BY <4>1, <4>3, <4>4, <5>1, <5>2
        <4> QED
          BY <4>5, <4>6
      <3> QED
        BY <3>9, <3>10, <3>11 DEF CountInv
    <2> HIDE DEF a
    <2> QED
      BY <1>r, <2>0, <2>1
  <1>7. ASSUME NEW t \in Running, Cut(t) PROVE CountInv'
    <2>0. raAt[t] = "cut"
      BY <1>7 DEF Cut
    <2>1. CASE raLists[raMine[t]] = <<>>
      BY <1>7, <1>r, <2>0, <2>1 DEF Cut
    <2>2. CASE raLists[raMine[t]] # <<>>
      <3> DEFINE m == raMine[t]
                 s == raLists[m]
                 r == SubSeq(s, 1, Len(s) - 1)
      <3>1. /\ raLive' = raLive \ {s[Len(s)]} /\ raLists' = [raLists EXCEPT ![m] = r]
            /\ raAt' = [raAt EXCEPT ![t] = IF raNeed[t] = 1 THEN "put" ELSE "cut"]
            /\ raNeed' = [raNeed EXCEPT ![t] = @ - 1]
            /\ UNCHANGED <<raHouses, raDoing, raMine, raApart, raLate>>
        BY <1>7, <2>2 DEF Cut, GoesTo, Killed
      <3>2. s \in Seq(Worker) /\ m \in 0 .. MaxLists /\ s # <<>> /\ DOMAIN raLists = 0 .. MaxLists
        BY <1>0, <2>2 DEF RayTypes
      <3>3. /\ Len(s) \in Nat /\ Len(r) = Len(s) - 1
            /\ \A i \in DOMAIN s : i # Len(s) => i \in DOMAIN r /\ r[i] = s[i]
        BY <3>2
      <3> HIDE DEF r
      <3>4. raLists'[m] = r /\ \A l \in 0 .. MaxLists : l # m => raLists'[l] = raLists[l]
        BY <3>1, <3>2
      <3>5. \A c \in raLive' : IsApart(c) => IsApart(c)'
        <4> SUFFICES ASSUME NEW c \in raLive', NEW l \in raApart, NEW i \in DOMAIN raLists[l], raLists[l][i] = c
                     PROVE  \E j \in DOMAIN raLists'[l] : raLists'[l][j] = c
          BY <3>1 DEF IsApart
        <4>1. c # s[Len(s)] /\ l \in 0 .. MaxLists
          BY <1>0, <3>1 DEF RayTypes
        <4>2. CASE l = m
          BY <3>3, <3>4, <4>1, <4>2
        <4>3. CASE l # m
          BY <3>4, <4>1, <4>3
        <4> QED
          BY <4>2, <4>3
      <3>6. \A g \in Houses : LateEnough(g) => LateEnough(g)'
        BY <1>e, <3>1, <3>5
      <3>7. \A u \in Running : /\ raAt'[u] = "remove" => raAt[u] = "remove"
                               /\ Scales(u)' => Scales(u)
                               /\ HouseOf(u)' = HouseOf(u)
        BY <1>0, <2>0, <3>1 DEF RayTypes, Scales, HouseOf
      <3>8. \A g \in Houses \ raHouses' : LateEnough(g)'
        BY <1>0, <3>1, <3>6 DEF CountInv
      <3>9. ASSUME NEW u \in Running, raAt'[u] = "remove" PROVE LateEnough(HouseOf(u))'
        <4> PICK g \in Houses : g = HouseOf(u)
          BY <1>h, <3>7, <3>9
        <4>1. LateEnough(g)'
          BY <1>0, <3>6, <3>7, <3>9 DEF CountInv
        <4> QED
          BY <3>7, <4>1 DEF LateEnough, Unexplained
      <3>10. ASSUME NEW u \in Running, Scales(u)', raDoing'[u].then = "remove"
             PROVE  Len(raLists'[raMine'[u]]) <= raLate'[HouseOf(u)'] + raNeed'[u]
        <4>1. Scales(u) /\ raDoing[u].then = "remove" /\ HouseOf(u)' = HouseOf(u) /\ HouseOf(u) \in Houses
              /\ raMine'[u] = raMine[u] /\ raLate' = raLate
          BY <1>h, <3>1, <3>7, <3>10 DEF Scales
        <4>2. Len(raLists[raMine[u]]) <= raLate[HouseOf(u)] + raNeed[u]
          BY <1>0, <4>1 DEF CountInv
        <4>3. /\ raLate[HouseOf(u)] \in Nat /\ raNeed[u] \in Int /\ raMine[u] \in 0 .. MaxLists
              /\ Len(raLists[raMine[u]]) \in Nat
          BY <1>0, <4>1 DEF RayTypes
        <4>4. CASE u = t
          <5>1. raNeed'[u] = raNeed[u] - 1
            BY <1>0, <3>1, <4>4 DEF RayTypes
          <5> QED
            BY <3>3, <3>4, <4>1, <4>2, <4>3, <4>4, <5>1
        <4>5. CASE u # t
          <5>1. raNeed'[u] = raNeed[u]
            BY <1>0, <3>1, <4>5 DEF RayTypes
          <5>2. Len(raLists'[raMine[u]]) <= Len(raLists[raMine[u]]) /\ Len(raLists'[raMine[u]]) \in Int
            BY <3>3, <3>4, <4>3
          <5> QED
            BY <4>1, <4>2, <4>3, <5>1, <5>2
        <4> QED
          BY <4>4, <4>5
      <3> QED
        BY <3>8, <3>9, <3>10 DEF CountInv
    <2> QED
      BY <2>1, <2>2
  <1>8. ASSUME NEW t \in Running, PutBack(t) PROVE CountInv'
    <2> DEFINE h == HouseOf(t)
    <2>1. /\ raAt[t] = "put"
          /\ raAt' = [raAt EXCEPT ![t] = IF raDoing[t].then = "none" THEN "idle" ELSE raDoing[t].then]
          /\ UNCHANGED <<raHouses, raLists, raLive, raDoing, raMine, raNeed, raApart, raLate>>
      BY <1>8 DEF PutBack, GoesTo
    <2>2. Scales(t) /\ h \in Houses /\ RequestFits(t)
      BY <1>1, <1>h, <2>1 DEF Scales
    <2>3. \A g \in Houses : LateEnough(g) => LateEnough(g)'
      BY <1>e, <2>1 DEF IsApart
    <2>4. \A u \in Running : /\ HouseOf(u)' = HouseOf(u) /\ (Scales(u)' => Scales(u))
                             /\ raAt'[u] = "remove" => raAt[u] = "remove" \/ (u = t /\ raDoing[t].then = "remove")
      BY <1>0, <2>1 DEF RayTypes, Scales, HouseOf
    <2>5. ASSUME raDoing[t].then = "remove" PROVE LateEnough(h)
      <3>1. Len(raLists[raMine[t]]) <= raLate[h] + raNeed[t] /\ raNeed[t] = 0
        BY <1>0, <2>1, <2>2, <2>5 DEF CountInv, RequestFits
      <3>2. raLists[raMine[t]] \in Seq(Worker) /\ raLate[h] \in Nat
        BY <1>0, <2>2 DEF RayTypes
      <3>3. \A a \in Unexplained(h) : \E i \in DOMAIN raLists[raMine[t]] : raLists[raMine[t]][i] = a
        BY <1>0, <2>2, ScalingHoldsAll DEF ListedActors
      <3>4. /\ Cardinality(Unexplained(h)) <= Len(raLists[raMine[t]]) /\ Len(raLists[raMine[t]]) \in Nat
            /\ Cardinality(Unexplained(h)) \in Nat
        BY <3>2, <3>3, EntriesAtMost
      <3> QED
        BY <3>1, <3>2, <3>4 DEF LateEnough
    <2>6. \A g \in Houses \ raHouses' : LateEnough(g)'
      BY <1>0, <2>1, <2>3 DEF CountInv
    <2>7. ASSUME NEW u \in Running, raAt'[u] = "remove" PROVE LateEnough(HouseOf(u))'
      <3>0. HouseOf(u) \in Houses /\ LateEnough(HouseOf(u))
        BY <1>0, <1>h, <2>2, <2>4, <2>5, <2>7 DEF CountInv
      <3> PICK g \in Houses : g = HouseOf(u)
        BY <3>0
      <3>1. LateEnough(g)'
        BY <2>3, <3>0
      <3> QED
        BY <2>4, <3>1 DEF LateEnough, Unexplained
    <2>8. ASSUME NEW u \in Running, Scales(u)', raDoing'[u].then = "remove"
          PROVE  Len(raLists'[raMine'[u]]) <= raLate'[HouseOf(u)'] + raNeed'[u]
      BY <1>0, <2>1, <2>4, <2>8 DEF CountInv
    <2> QED
      BY <2>6, <2>7, <2>8 DEF CountInv
  <1>9. ASSUME NEW t \in Running, RemoveHouse(t) PROVE CountInv'
    <2> DEFINE h == HouseOf(t)
    <2>1. /\ raAt[t] = "remove" /\ raAt' = [raAt EXCEPT ![t] = "idle"] /\ raHouses \subseteq raHouses' \cup {h}
          /\ UNCHANGED <<raLists, raLive, raDoing, raMine, raNeed, raApart, raLate>>
      BY <1>9 DEF RemoveHouse, GoesTo, HouseOf
    <2>2. \A g \in Houses : LateEnough(g) => LateEnough(g)'
      BY <1>e, <2>1 DEF IsApart
    <2>3. \A u \in Running : /\ HouseOf(u)' = HouseOf(u) /\ (Scales(u)' => Scales(u))
                             /\ raAt'[u] # "remove"
      BY <1>0, <1>1, <2>1 DEF RayTypes, Scales, HouseOf
    <2>4. \A g \in Houses \ raHouses' : LateEnough(g)'
      BY <1>0, <2>1, <2>2 DEF CountInv
    <2>5. ASSUME NEW u \in Running, Scales(u)', raDoing'[u].then = "remove"
          PROVE  Len(raLists'[raMine'[u]]) <= raLate'[HouseOf(u)'] + raNeed'[u]
      BY <1>0, <2>1, <2>3, <2>5 DEF CountInv
    <2> QED
      BY <2>3, <2>4, <2>5 DEF CountInv
  <1>10. CASE StopRay
    <2>1. raLive' = {} /\ UNCHANGED <<raAt, raHouses, raDoing, raLate>> /\ raAt[EventLoop] = "idle"
      BY <1>10 DEF StopRay
    <2>2. \A h \in Houses : LateEnough(h)'
      BY <1>0, <1>n, <2>1 DEF RayTypes
    <2>3. \A u \in Running : raAt'[u] # "remove" /\ ~(Scales(u)' /\ raDoing'[u].then = "remove")
      BY <1>1, <2>1 DEF Scales
    <2> QED
      BY <2>2, <2>3 DEF CountInv
  <1>11. CASE UNCHANGED rayVars
    <2>1. Calm
      BY <1>0, <1>1, <1>11, CalmSteps
    <2>2. UNCHANGED <<raHouses, raLate, raNeed, raAt, raDoing, raLive, raLists, raApart>>
      BY <1>11 DEF rayVars
    <2>3. \A g \in Houses : LateEnough(g) => LateEnough(g)'
      BY <1>e, <2>2 DEF IsApart
    <2>4. raAt'[EventLoop] = "remove" => \E h \in Houses : h = HouseOf(EventLoop)' /\ LateEnough(h)'
      <3> SUFFICES ASSUME raAt[EventLoop] = "remove" PROVE \E h \in Houses : h = HouseOf(EventLoop)' /\ LateEnough(h)'
        BY <2>2
      <3> PICK h \in Houses : h = HouseOf(EventLoop)
        BY <1>1, <1>h
      <3>1. LateEnough(h)' /\ HouseOf(EventLoop)' = HouseOf(EventLoop)
        BY <1>0, <1>1, <2>2, <2>3 DEF CountInv, HouseOf
      <3> QED
        BY <3>1
    <2> QED
      BY <1>1, <1>q, <2>1, <2>2, <2>4
  <1> QED
    BY <1>2, <1>3, <1>4, <1>5, <1>6, <1>7, <1>8, <1>9, <1>10, <1>11, RayCases

LEMMA RayStep == RayInv /\ [RayNext]_rayVars => RayInv'
  <1> SUFFICES ASSUME RayInv, [RayNext]_rayVars PROVE RayInv'
    OBVIOUS
  <1>0. RayTypes /\ RequestInv /\ ListsInv /\ ApartInv /\ WorkersAccountedFor
    BY DEF RayInv
  <1>1. RayTypes' /\ RequestInv' /\ CountInv'
    BY <1>0, RayTypesStep, RayRequestsStep, RayCountStep
  <1> DEFINE Kept == ListsInv' /\ ApartInv' /\ WorkersAccountedFor'
  <1>2. ASSUME NEW t \in Running, Spawn(t) PROVE Kept
    <2> PICK a : a = [house |-> raDoing[t].house, idx |-> raIdx]
      OBVIOUS
    <2>1. raAt[t] = "name" /\ (Raise(t) \/ Start(t, a))
      BY <1>2 DEF Spawn
    <2>2. a \in Worker /\ a.house = HouseOf(t)
      BY <1>0, <2>1 DEF Worker, HouseOf, RayTypes, RequestInv, RequestFits
    <2>3. Raise(t) => Calm
      BY <1>0, <2>1, CalmSteps
    <2> QED
      BY <1>0, <2>1, <2>2, <2>3, CalmKeeps, StartKeeps
  <1>3. ASSUME NEW t \in Running, Cut(t) PROVE Kept
    <2>1. CASE raLists[raMine[t]] = <<>>
      <3>1. raAt[t] = "cut" /\ Raise(t)
        BY <1>3, <2>1 DEF Cut
      <3>2. Calm
        BY <1>0, <3>1, CalmSteps
      <3> QED
        BY <1>0, <3>2, CalmKeeps
    <2>2. CASE raLists[raMine[t]] # <<>>
      BY <1>0, <1>3, <2>2, PopKeeps
    <2> QED
      BY <2>1, <2>2
  <1>4. ASSUME NEW t \in Running, Get(t) PROVE Kept
    BY <1>0, <1>4, GetKeeps
  <1>5. ASSUME NEW t \in Running, PutBack(t) PROVE Kept
    BY <1>0, <1>5, PutBackKeeps
  <1>6. CASE StopRay
    <2>1. Kept
      BY <1>0, <1>6, StopRayKeeps
    <2> QED
      BY <1>1, <2>1 DEF RayInv
  <1>7. ASSUME NEW t \in Running,
               \/ \E h \in Houses, first \in {"init", "look"}, then \in {"none", "pick", "remove"}, n \in Int :
                      Handle(t, h, n, first, then)
               \/ Connect(t) \/ Look(t) \/ Number(t) \/ RemoveHouse(t) \/ Pick(t) \/ UNCHANGED rayVars
        PROVE  Kept
    <2>1. Calm
      BY <1>0, <1>7, CalmSteps
    <2> QED
      BY <1>0, <2>1, CalmKeeps
  <1> HIDE DEF Kept
  <1>8. EventLoop \in Running
    BY DEF Running
  <1>9. Kept \/ StopRay
    BY <1>2, <1>3, <1>4, <1>5, <1>7, <1>8, RayCases
  <1> QED
    BY <1>1, <1>6, <1>9 DEF Kept, RayInv

\* Of the actors that run none is forgotten, and none but late ones runs for a deleted
\* warehouse, for any number of warehouses, query threads, lists and requests.
THEOREM PoolsAreKept == RaySpec => []PoolsKept
  <1>1. RayInit => RayInv
    <2> SUFFICES ASSUME RayInit PROVE RayInv
      OBVIOUS
    <2>0. MaxLists \in Nat /\ 0 \in 0 .. MaxLists
      BY RayAssumption
    <2>1. /\ \A l \in 0 .. MaxLists : raLists[l] = <<>>
          /\ \A h \in Houses : raPool[h] = 0
          /\ \A t \in Running : raAt[t] = "idle" /\ ~Scales(t)
          /\ raLive = {} /\ raMade = 0 /\ raHouses = Houses
      BY DEF RayInit, Scales
    <2>2. RayTypes
      <3>1. <<>> \in Seq(Worker) /\ IsFiniteSet({})
        BY FS_EmptySet
      <3>2. raLists \in [0 .. MaxLists -> Seq(Worker)]
        BY <3>1 DEF RayInit
      <3>3. raPool \in [Houses -> 0 .. MaxLists] /\ raMine \in [Running -> 0 .. MaxLists] /\ raLate \in [Houses -> Nat]
        BY <2>0 DEF RayInit
      <3>4. /\ raDoing \in [Running -> [house : Houses \cup {DefaultHouse}, target : Nat, then : {"none", "pick", "remove"}]]
            /\ raAt \in [Running -> {"idle", "init", "look", "pick", "add", "name", "cut", "put", "remove"}]
            /\ raNeed \in [Running -> Int]
        BY DEF RayInit
      <3> QED
        BY <2>0, <3>1, <3>2, <3>3, <3>4 DEF RayInit, RayTypes
    <2>3. RequestInv
      BY <2>1 DEF RequestInv, RequestFits
    <2>4. ListsInv
      <3>1. \E own \in [1 .. MaxLists -> Houses \cup {DefaultHouse}] : Owned(own)
        <4>1. [l \in 1 .. MaxLists |-> DefaultHouse] \in [1 .. MaxLists -> Houses \cup {DefaultHouse}]
          OBVIOUS
        <4>2. \A l \in 1 .. MaxLists : DOMAIN raLists[l] = {}
          BY <2>0, <2>1
        <4>3. Owned([l \in 1 .. MaxLists |-> DefaultHouse])
          BY <2>1, <4>2 DEF Owned
        <4> QED
          BY <4>1, <4>3
      <3> QED
        BY <2>0, <2>1, <3>1 DEF ListsInv
    <2>5. ApartInv /\ WorkersAccountedFor
      BY <2>1 DEF ApartInv, WorkersAccountedFor
    <2>6. CountInv
      BY <2>1 DEF CountInv
    <2> QED
      BY <2>2, <2>3, <2>4, <2>5, <2>6 DEF RayInv
  <1>2. RayInv => PoolsKept
    BY DEF RayInv, CountInv, LateEnough, Unexplained, PoolsKept, DeletedAreLate
  <1> QED
    BY <1>1, <1>2, RayStep, PTL DEF RaySpec
-----------------------------------------------------------------------------
(* E-mail reports.                                                         *)
(*                                                                         *)
(* Senders whose recordings overlap are excused, both of them, and so is   *)
(* one that a listing overlaps.  So whoever is about to bind or to write   *)
(* holds a list with all the mails that were recorded before, its own      *)
(* included once it is there, but for the excused ones; a whole file has   *)
(* them as well.                                                           *)

MailPlaces == {"idle", "update", "set", "settings", "load", "check", "deliver",
               "read", "append", "save", "write", "listing"}

MailTypes ==
    /\ mlAt \in [Senders -> MailPlaces] /\ mlMail \in [Senders -> Nat] /\ mlMails \in Nat
    /\ mlHistory \in Seq(Nat) /\ mlMine \in [Senders -> Seq(Nat)]
    /\ mlLog \in Seq(Nat) /\ mlLogText \in {"none", "cut", "whole"}

SettingsInv ==
    \/ mlSpoiled
    \/ /\ mlAt[MailLoop] \notin {"set", "settings"} => Loaded = mlAsked
       /\ mlAt[MailLoop] = "update" => mlConfig = Loaded
       /\ mlAt[MailLoop] \in {"set", "settings"} => mlConfig = mlAsked

Recording(s) == mlAt[s] \in InRecording
Has(mails, list) == mails \subseteq ToSet(list) \cup mlExcused

HolderInv(s) ==
    /\ mlAt[s] = "read" => Has(mlTold, mlMine[s])
    /\ mlAt[s] = "append" => Has(mlTold, mlHistory)
    /\ mlAt[s] = "save" => Has(mlTold \cup {mlMail[s]}, mlHistory)
    /\ mlAt[s] = "write" => Has(mlTold \cup {mlMail[s]}, Saving(s))

OverlapInv == \A s, u \in Senders : s # u /\ Recording(s) /\ Recording(u) => mlMail[s] \in mlExcused

ListingInv ==
    mlAt[MailLoop] = "listing" =>
        /\ Has(mlTold, mlMine[MailLoop]) \/ mlMine[MailLoop] = <<>>
        /\ \A s \in Senders : Recording(s) => mlMail[s] \in mlExcused

FileInv ==
    /\ mlLogText = "none" => mlTold = {} /\ \A s \in Senders : mlAt[s] # "write"
    /\ mlLogText = "none" => \A s \in Senders : mlAt[s] \notin {"read", "listing"}
    /\ mlLogText = "whole" => Has(mlTold, mlLog)
    /\ mlLogText = "cut" => mlTold \subseteq mlExcused \/ \E s \in Senders : mlAt[s] = "write"
    /\ mlLogText # "whole" => mlLog = <<>>

RecordInv ==
    /\ OverlapInv /\ ListingInv /\ FileInv /\ \A s \in Senders : HolderInv(s)
    /\ \A s \in mlShared : s \in Senders /\ mlAt[s] = "write"

MailInv == MailTypes /\ SettingsInv /\ RecordInv

LEMMA MailInit0 == MailInit => MailInv
  <1> SUFFICES ASSUME MailInit PROVE MailInv
    OBVIOUS
  <1>0. MailLoop \in Senders
    BY DEF Senders
  <1>1. /\ mlLog = <<>> /\ mlHistory = <<>> /\ <<>> \in Seq(Nat) /\ mlLogText = "none" /\ mlShared = {}
        /\ mlAt = [s \in Senders |-> "idle"] /\ mlTold = {} /\ mlMine = [s \in Senders |-> <<>>]
    BY DEF MailInit
  <1>2. MailTypes
    BY <1>1 DEF MailInit, MailTypes, MailPlaces
  <1>3. SettingsInv
    BY <1>0, <1>1 DEF MailInit, SettingsInv, Loaded
  <1>4. RecordInv
    BY <1>0, <1>1 DEF RecordInv, OverlapInv, ListingInv, FileInv, HolderInv, Recording, InRecording, Has
  <1> QED
    BY <1>2, <1>3, <1>4 DEF MailInv

LEMMA EntryAppended ==
    ASSUME NEW l \in Seq(Nat), NEW n \in Nat
    PROVE  Append(l, n) \in Seq(Nat) /\ ToSet(l) \cup {n} \subseteq ToSet(Append(l, n))
  <1>1. Append(l, n) \in Seq(Nat) /\ DOMAIN l \subseteq DOMAIN Append(l, n) /\ Len(l) + 1 \in DOMAIN Append(l, n)
        /\ Append(l, n)[Len(l) + 1] = n /\ \A i \in DOMAIN l : Append(l, n)[i] = l[i]
    OBVIOUS
  <1> QED
    BY <1>1 DEF ToSet

LEMMA KeptType == ASSUME NEW l \in Seq(Nat) PROVE KeptMails(l) \in Seq(Nat)
  <1>1. CASE Len(l) > KeepMails
    <2>1. KeepMails \in Nat /\ Len(l) \in Nat /\ Len(l) - KeepMails + 1 \in 1 .. Len(l) + 1
      BY <1>1, MailAssumption
    <2>2. SubSeq(l, Len(l) - KeepMails + 1, Len(l)) \in Seq(Nat)
      BY <2>1
    <2> QED
      BY <1>1, <2>2 DEF KeptMails
  <1>2. CASE ~(Len(l) > KeepMails)
    BY <1>2 DEF KeptMails
  <1> QED
    BY <1>1, <1>2

\* A step of one sender moves that sender only.
LEMMA MailMoves ==
    ASSUME MailTypes, NEW s \in Senders, NEW place \in MailPlaces, MailAt(s, place)
    PROVE  /\ mlAt' \in [Senders -> MailPlaces] /\ mlAt'[s] = place
           /\ \A u \in Senders \ {s} : mlAt'[u] = mlAt[u]
  BY DEF MailTypes, MailAt

LEMMA LoopSends == MailLoop \in Senders
  BY DEF Senders

\* What a sender that records does, and where it is afterwards.
RecordStepOf(s) == ReadHistory(s) \/ BindHistory(s) \/ AppendEntry(s) \/ OpenHistory(s) \/ WriteHistory(s)

LEMMA RecordMoves ==
    ASSUME MailTypes, NEW s \in Senders, Check(s) \/ RecordStepOf(s)
    PROVE  /\ UNCHANGED <<mlText, mlFile, mlConfig, mlAsked, mlSpoiled>>
           /\ mlAt[s] \in {"check", "deliver", "read", "append", "save", "write"}
           /\ mlAt'[s] \in {"idle", "deliver", "read", "append", "save", "write"}
           /\ mlAt' \in [Senders -> MailPlaces] /\ \A u \in Senders \ {s} : mlAt'[u] = mlAt[u]
  <1>1. /\ UNCHANGED settingsVars /\ mlAt[s] \in {"check", "deliver", "read", "append", "save", "write"}
        /\ \E place \in {"idle", "deliver", "read", "append", "save", "write"} : MailAt(s, place)
    BY DEF RecordStepOf, Check, ReadHistory, BindHistory, AppendEntry, OpenHistory, WriteHistory
  <1>2. PICK place \in {"idle", "deliver", "read", "append", "save", "write"} : MailAt(s, place)
    BY <1>1
  <1>3. place \in MailPlaces
    BY DEF MailPlaces
  <1>4. mlAt' \in [Senders -> MailPlaces] /\ mlAt'[s] = place /\ \A u \in Senders \ {s} : mlAt'[u] = mlAt[u]
    BY <1>2, <1>3, MailMoves
  <1> QED
    BY <1>1, <1>4 DEF settingsVars

\* The settings.
LEMMA SettingsStep == MailTypes /\ SettingsInv /\ [MailNext]_mailVars => SettingsInv'
  <1> SUFFICES ASSUME MailTypes, SettingsInv, [MailNext]_mailVars, ~mlSpoiled' PROVE SettingsInv'
    BY DEF SettingsInv
  <1>0. MailLoop \in Senders
    BY LoopSends
  <1> USE DEF SettingsInv
  <1>1. CASE UNCHANGED mailVars
    BY <1>1 DEF mailVars, Loaded
  <1>2. CASE Update
    <2>1. mlAt'[MailLoop] = "update"
      BY <1>0, <1>2, MailMoves DEF Update, MailPlaces
    <2> QED
      BY <1>2, <2>1 DEF Update, Load, Loaded
  <1>3. ASSUME NEW x \in Fields, SetField(x) PROVE SettingsInv'
    <2>1. mlAt'[MailLoop] = "set" /\ mlAt[MailLoop] = "update"
      BY <1>0, <1>3, MailMoves DEF SetField, MailPlaces
    <2> QED
      BY <1>3, <2>1 DEF SetField
  <1>4. CASE OpenSettings
    <2>1. mlAt'[MailLoop] = "settings" /\ mlAt[MailLoop] = "set"
      BY <1>0, <1>4, MailMoves DEF OpenSettings, MailPlaces
    <2> QED
      BY <1>4, <2>1 DEF OpenSettings
  <1>5. CASE WriteSettings
    <2>1. mlAt'[MailLoop] = "idle" /\ mlAt[MailLoop] = "settings"
      BY <1>0, <1>5, MailMoves DEF WriteSettings, MailPlaces
    <2> QED
      BY <1>5, <2>1 DEF WriteSettings, Loaded
  <1>6. CASE Restart
    <2>1. mlAt'[MailLoop] = "idle" /\ mlAt[MailLoop] \notin {"set", "settings"}
      BY <1>0, <1>6 DEF Restart
    <2> QED
      BY <1>6, <2>1 DEF Restart, Loaded
  <1>7. CASE ReadSettings
    BY <1>7 DEF ReadSettings, Load, Loaded
  <1>8. CASE ListHistory \/ BindListing
    <2>1. UNCHANGED settingsVars /\ mlAt[MailLoop] \in {"idle", "listing"} /\ mlAt'[MailLoop] \in {"idle", "listing"}
      <3>1. CASE ListHistory
        BY <1>0, <3>1, MailMoves DEF ListHistory, MailPlaces
      <3>2. CASE BindListing
        BY <1>0, <3>2, MailMoves DEF BindListing, MailPlaces
      <3> QED
        BY <1>8, <3>1, <3>2
    <2> QED
      BY <2>1 DEF settingsVars, Loaded
  <1>9. ASSUME NEW s \in Senders, SendMail(s) PROVE SettingsInv'
    <2>1. /\ mlAt[s] = "idle" /\ mlAt'[s] = "load" /\ \A u \in Senders \ {s} : mlAt'[u] = mlAt[u]
          /\ UNCHANGED <<mlText, mlFile, mlConfig, mlAsked, mlSpoiled>>
      BY <1>9, MailMoves DEF SendMail, MailPlaces
    <2> QED
      BY <1>0, <2>1 DEF Loaded
  <1>10. ASSUME NEW s \in Senders, BindSettings(s) PROVE SettingsInv'
    <2>1. /\ mlAt[s] = "load" /\ mlAt'[s] = "check" /\ \A u \in Senders \ {s} : mlAt'[u] = mlAt[u]
          /\ UNCHANGED <<mlText, mlFile, mlAsked>> /\ mlConfig' = mlRead[s]
      BY <1>10, MailMoves DEF BindSettings, MailPlaces
    <2>2. ~mlSpoiled /\ mlAt[MailLoop] \notin {"set", "settings"} /\ (mlAt[MailLoop] = "update" => mlRead[s] = mlConfig)
      BY <1>10 DEF BindSettings
    <2> QED
      BY <1>0, <2>1, <2>2 DEF Loaded
  <1>11. ASSUME NEW s \in Senders, Check(s) \/ RecordStepOf(s) PROVE SettingsInv'
    BY <1>0, <1>11, RecordMoves DEF Loaded
  <1> QED
    BY <1>1, <1>2, <1>3, <1>4, <1>5, <1>6, <1>7, <1>8, <1>9, <1>10, <1>11 DEF MailNext, RecordStepOf

\* The history.
LEMMA RecordTypes == MailTypes /\ [MailNext]_mailVars => MailTypes'
  <1> SUFFICES ASSUME MailTypes, [MailNext]_mailVars PROVE MailTypes'
    OBVIOUS
  <1>0. MailLoop \in Senders
    BY LoopSends
  <1>a. ASSUME NEW s \in Senders, NEW place \in MailPlaces, MailAt(s, place) PROVE mlAt' \in [Senders -> MailPlaces]
    BY <1>a, MailMoves
  <1>e. <<>> \in Seq(Nat)
    OBVIOUS
  <1>b. ASSUME NEW list \in Seq(Nat), Bind(list) PROVE mlHistory' \in Seq(Nat) /\ mlMine' \in [Senders -> Seq(Nat)]
    <2>1. \A u \in Senders : Saving(u) \in Seq(Nat)
      BY DEF Saving, MailTypes
    <2> QED
      BY <1>b, <2>1 DEF Bind
  <1>1. CASE UNCHANGED mailVars
    BY <1>1 DEF mailVars, MailTypes
  <1>2. CASE Update \/ OpenSettings \/ WriteSettings \/ \E x \in Fields : SetField(x)
    <2>1. UNCHANGED logVars /\ UNCHANGED <<mlMail, mlMails>>
          /\ \E place \in {"update", "set", "settings", "idle"} : MailAt(MailLoop, place)
      BY <1>2 DEF Update, SetField, OpenSettings, WriteSettings
    <2>2. mlAt' \in [Senders -> MailPlaces]
      BY <1>0, <1>a, <2>1 DEF MailPlaces
    <2> QED
      BY <2>1, <2>2 DEF MailTypes, logVars
  <1>3. CASE ReadSettings
    BY <1>3 DEF ReadSettings, MailTypes, logVars
  <1>4. CASE Restart
    BY <1>4, <1>e DEF Restart, MailTypes, MailPlaces
  <1>5. ASSUME NEW s \in Senders, SendMail(s) \/ BindSettings(s) \/ Check(s) PROVE MailTypes'
    <2>1. UNCHANGED logVars /\ \E place \in {"load", "check", "deliver", "idle"} : MailAt(s, place)
      BY <1>5 DEF SendMail, BindSettings, Check
    <2>2. mlAt' \in [Senders -> MailPlaces]
      BY <1>a, <2>1 DEF MailPlaces
    <2>3. mlMail' \in [Senders -> Nat] /\ mlMails' \in Nat
      <3>1. CASE SendMail(s)
        BY <3>1 DEF SendMail, MailTypes
      <3>2. CASE BindSettings(s) \/ Check(s)
        BY <3>2 DEF BindSettings, Check, MailTypes
      <3> QED
        BY <1>5, <3>1, <3>2
    <2> QED
      BY <2>1, <2>2, <2>3 DEF MailTypes, logVars
  <1>6. ASSUME NEW s \in Senders, RecordStepOf(s) PROVE MailTypes'
    <2>0. mlAt' \in [Senders -> MailPlaces] /\ UNCHANGED <<mlMail, mlMails>>
      BY <1>6, RecordMoves DEF RecordStepOf, ReadHistory, BindHistory, AppendEntry, OpenHistory, WriteHistory
    <2>1. CASE ReadHistory(s)
      <3>1. mlMine' \in [Senders -> Seq(Nat)] /\ UNCHANGED <<mlLogText, mlLog, mlHistory>>
        BY <2>1 DEF ReadHistory, MailTypes
      <3> QED
        BY <2>0, <3>1 DEF MailTypes
    <2>2. CASE BindHistory(s)
      <3>1. mlMine[s] \in Seq(Nat) /\ Bind(mlMine[s]) /\ UNCHANGED <<mlLogText, mlLog>>
        BY <2>2 DEF BindHistory, MailTypes
      <3> QED
        BY <2>0, <3>1, <1>b DEF MailTypes
    <2>3. CASE AppendEntry(s)
      <3>1. Append(mlHistory, mlMail[s]) \in Seq(Nat)
        BY EntryAppended DEF MailTypes
      <3> QED
        BY <2>0, <2>3, <3>1 DEF AppendEntry, MailTypes
    <2>4. CASE OpenHistory(s)
      <3>1. KeptMails(mlHistory) \in Seq(Nat)
        BY KeptType DEF MailTypes
      <3>2. mlMine' \in [Senders -> Seq(Nat)] /\ mlLogText' = "cut" /\ mlLog' = <<>> /\ UNCHANGED mlHistory
        BY <2>4, <3>1 DEF OpenHistory, MailTypes
      <3> QED
        BY <1>e, <2>0, <3>2 DEF MailTypes
    <2>5. CASE WriteHistory(s)
      <3>1. Saving(s) \in Seq(Nat)
        BY DEF Saving, MailTypes
      <3>2. mlLogText' \in {"whole", "cut"} /\ mlLog' \in Seq(Nat) /\ UNCHANGED <<mlHistory, mlMine>>
        BY <1>e, <2>5, <3>1 DEF WriteHistory
      <3> QED
        BY <2>0, <3>2 DEF MailTypes
    <2> QED
      BY <1>6, <2>1, <2>2, <2>3, <2>4, <2>5 DEF RecordStepOf
  <1>7. CASE ListHistory
    <2>1. mlAt' \in [Senders -> MailPlaces]
      BY <1>0, <1>7, MailMoves DEF ListHistory, MailPlaces
    <2> QED
      BY <1>0, <1>7, <2>1 DEF ListHistory, MailTypes
  <1>8. CASE BindListing
    <2>1. mlAt' \in [Senders -> MailPlaces]
      BY <1>0, <1>8, MailMoves DEF BindListing, MailPlaces
    <2>2. mlMine[MailLoop] \in Seq(Nat) /\ Bind(mlMine[MailLoop]) /\ UNCHANGED <<mlLogText, mlLog, mlMail, mlMails>>
      BY <1>0, <1>8 DEF BindListing, MailTypes
    <2> QED
      BY <2>1, <2>2, <1>b DEF MailTypes
  <1> QED
    BY <1>1, <1>2, <1>3, <1>4, <1>5, <1>6, <1>7, <1>8 DEF MailNext, RecordStepOf

\* Nobody begins or ends a recording or a listing.
LEMMA OthersStep ==
    ASSUME MailTypes, RecordInv, UNCHANGED logVars,
           \A u \in Senders : (mlAt'[u] = mlAt[u] /\ mlMail'[u] = mlMail[u])
                              \/ (mlAt[u] \notin InRecording \cup {"listing"} /\ mlAt'[u] \notin InRecording \cup {"listing"})
    PROVE  RecordInv'
  <1>0. MailLoop \in Senders
    BY LoopSends
  <1>1. \A u \in Senders : mlAt'[u] \in InRecording => mlAt'[u] = mlAt[u] /\ mlMail'[u] = mlMail[u]
    OBVIOUS
  <1>2. \A u \in Senders : /\ mlAt'[u] = "write" <=> mlAt[u] = "write"
                           /\ mlAt'[u] = "listing" <=> mlAt[u] = "listing"
                           /\ mlAt'[u] = "read" <=> mlAt[u] = "read"
    BY DEF InRecording
  <1>3. {"read", "append", "save", "write"} = InRecording
    BY DEF InRecording
  <1>4. OverlapInv' /\ ListingInv' /\ FileInv'
    BY <1>0, <1>1, <1>2 DEF logVars, RecordInv, OverlapInv, ListingInv, FileInv, Recording, Has
  <1>5. \A s \in Senders : HolderInv(s)'
    BY <1>1, <1>3 DEF logVars, RecordInv, HolderInv, Has, Saving
  <1>6. \A s \in mlShared' : s \in Senders /\ mlAt'[s] = "write"
    BY <1>2 DEF logVars, RecordInv
  <1> QED
    BY <1>4, <1>5, <1>6 DEF RecordInv

LEMMA ReadHistoryStep == ASSUME MailTypes, RecordInv, NEW s \in Senders, ReadHistory(s) PROVE RecordInv'
  <1>0. MailLoop \in Senders
    BY LoopSends
  <1>1. /\ mlAt[s] = "deliver" /\ mlAt'[s] = (IF mlLogText = "none" THEN "append" ELSE "read")
        /\ \A u \in Senders \ {s} : mlAt'[u] = mlAt[u]
        /\ mlMine'[s] = mlLog /\ \A u \in Senders \ {s} : mlMine'[u] = mlMine[u]
        /\ UNCHANGED <<mlLogText, mlLog, mlHistory, mlShared, mlTold, mlMail>>
    BY MailMoves DEF ReadHistory, MailPlaces, MailTypes
  <1>2. /\ mlExcused \subseteq mlExcused' /\ (mlLogText = "cut" => mlTold \subseteq mlExcused')
        /\ \A u \in Senders \ {s} : Recording(u) => mlMail[u] \in mlExcused' /\ mlMail[s] \in mlExcused'
        /\ mlAt[MailLoop] = "listing" => mlMail[s] \in mlExcused'
    BY DEF ReadHistory, Recording, RecordingBut
  <1>3. Has(mlTold, mlLog)'
    BY <1>1, <1>2 DEF MailTypes, RecordInv, FileInv, Has
  <1>4. OverlapInv'
    BY <1>1, <1>2 DEF OverlapInv, Recording, RecordInv
  <1>5. ListingInv'
    <2> SUFFICES ASSUME mlAt'[MailLoop] = "listing" PROVE ListingInv'
      BY DEF ListingInv
    <2>1. MailLoop # s /\ mlAt[MailLoop] = "listing" /\ mlMine'[MailLoop] = mlMine[MailLoop]
      BY <1>0, <1>1
    <2>2. \A u \in Senders : Recording(u)' => mlMail'[u] \in mlExcused'
      BY <1>1, <1>2, <2>1 DEF RecordInv, ListingInv, Recording
    <2> QED
      BY <1>1, <1>2, <2>1, <2>2 DEF RecordInv, ListingInv, Has
  <1>6. ASSUME NEW u \in Senders PROVE HolderInv(u)'
    <2>1. CASE u = s
      BY <1>1, <1>3, <2>1 DEF HolderInv, RecordInv, FileInv, Has
    <2>2. CASE u # s
      BY <1>1, <1>2, <2>2 DEF RecordInv, HolderInv, Has, Saving
    <2> QED
      BY <2>1, <2>2
  <1>7. FileInv'
    BY <1>1, <1>2 DEF RecordInv, FileInv, Has
  <1>8. \A u \in mlShared' : u \in Senders /\ mlAt'[u] = "write"
    BY <1>1 DEF RecordInv
  <1> QED
    BY <1>4, <1>5, <1>6, <1>7, <1>8 DEF RecordInv

\* The global is bound to a list: who saved it keeps the old one.
LEMMA Bound ==
    ASSUME MailTypes, RecordInv, NEW list, Bind(list), UNCHANGED <<mlTold, mlMail>>, mlExcused \subseteq mlExcused',
           NEW u \in Senders, mlAt'[u] = mlAt[u],
           mlAt[u] \in {"append", "save"} => mlTold \subseteq ToSet(list) \cup mlExcused',
           mlAt[u] = "save" => mlMail[u] \in mlExcused'
    PROVE  HolderInv(u)' /\ u \notin mlShared' /\ mlMine'[u] = Saving(u)
  <1>1. mlHistory' = list /\ mlMine'[u] = Saving(u) /\ mlShared' = {}
    BY DEF Bind
  <1>2. mlAt[u] = "read" => Saving(u) = mlMine[u]
    BY DEF Saving, RecordInv
  <1>3. Saving(u)' = Saving(u)
    BY <1>1 DEF Saving
  <1>4. mlAt'[u] = "read" => Has(mlTold, mlMine[u])'
    BY <1>1, <1>2 DEF RecordInv, HolderInv, Has
  <1>5. mlAt'[u] = "append" => Has(mlTold, mlHistory)'
    BY <1>1 DEF Has
  <1>6. mlAt'[u] = "save" => Has(mlTold \cup {mlMail[u]}, mlHistory)'
    BY <1>1 DEF Has
  <1>7. mlAt'[u] = "write" => Has(mlTold \cup {mlMail[u]}, Saving(u))'
    BY <1>3 DEF RecordInv, HolderInv, Has
  <1> QED
    BY <1>1, <1>4, <1>5, <1>6, <1>7 DEF HolderInv

LEMMA BindHistoryStep == ASSUME MailTypes, RecordInv, NEW s \in Senders, BindHistory(s) PROVE RecordInv'
  <1>0. MailLoop \in Senders
    BY LoopSends
  <1>1. /\ mlAt[s] = "read" /\ mlAt'[s] = "append" /\ \A u \in Senders \ {s} : mlAt'[u] = mlAt[u]
        /\ UNCHANGED <<mlLogText, mlLog, mlTold, mlExcused, mlMail>> /\ Bind(mlMine[s])
    BY MailMoves DEF BindHistory, MailPlaces
  <1>2. mlTold \subseteq ToSet(mlMine[s]) \cup mlExcused'
    BY <1>1 DEF RecordInv, HolderInv, Has
  <1>3. \A u \in Senders : u # s /\ Recording(u) => mlMail[u] \in mlExcused'
    BY <1>1 DEF RecordInv, OverlapInv, Recording, InRecording
  <1>4. OverlapInv'
    BY <1>1 DEF RecordInv, OverlapInv, Recording, InRecording
  <1>5. ASSUME NEW u \in Senders, u # s PROVE HolderInv(u)' /\ u \notin mlShared' /\ mlMine'[u] = Saving(u)
    <2>1. mlAt'[u] = mlAt[u] /\ mlExcused \subseteq mlExcused' /\ (mlAt[u] = "save" => mlMail[u] \in mlExcused')
      BY <1>1, <1>3, <1>5 DEF Recording, InRecording
    <2> QED
      BY <1>1, <1>2, <2>1, Bound
  <1>6. HolderInv(s)'
    BY <1>1, <1>2 DEF HolderInv, Has, Bind
  <1>7. ListingInv'
    <2> SUFFICES ASSUME mlAt'[MailLoop] = "listing" PROVE ListingInv'
      BY DEF ListingInv
    <2>1. MailLoop # s /\ mlAt[MailLoop] = "listing"
      BY <1>0, <1>1
    <2>2. MailLoop \notin mlShared
      BY <2>1 DEF RecordInv
    <2>3. mlMine'[MailLoop] = mlMine[MailLoop]
      BY <1>0, <1>5, <2>1, <2>2 DEF Saving
    <2>4. \A u \in Senders : Recording(u)' => mlMail'[u] \in mlExcused'
      BY <1>1, <2>1 DEF RecordInv, ListingInv, Recording, InRecording
    <2> QED
      BY <1>1, <2>1, <2>3, <2>4 DEF RecordInv, ListingInv, Has
  <1>8. FileInv'
    BY <1>1 DEF RecordInv, FileInv, Has
  <1>9. mlShared' = {}
    BY <1>1 DEF Bind
  <1> QED
    BY <1>4, <1>5, <1>6, <1>7, <1>8, <1>9 DEF RecordInv

LEMMA BindListingStep == ASSUME MailTypes, RecordInv, BindListing PROVE RecordInv'
  <1>0. MailLoop \in Senders
    BY LoopSends
  <1>1. /\ mlAt[MailLoop] = "listing" /\ mlAt'[MailLoop] = "idle" /\ \A u \in Senders \ {MailLoop} : mlAt'[u] = mlAt[u]
        /\ UNCHANGED <<mlLogText, mlLog, mlTold, mlMail>> /\ Bind(mlMine[MailLoop]) /\ mlExcused \subseteq mlExcused'
    BY <1>0, MailMoves DEF BindListing, MailPlaces
  <1>2. \A u \in Senders : mlAt[u] \in {"append", "save"} => mlTold \subseteq ToSet(mlMine[MailLoop]) \cup mlExcused'
    <2>1. CASE mlMine[MailLoop] = <<>>
      BY <2>1 DEF BindListing
    <2>2. CASE Has(mlTold, mlMine[MailLoop])
      BY <1>1, <2>2 DEF Has
    <2> QED
      BY <1>1, <2>1, <2>2 DEF RecordInv, ListingInv
  <1>3. \A u \in Senders : Recording(u) => mlMail[u] \in mlExcused'
    BY <1>1 DEF RecordInv, ListingInv
  <1>4. OverlapInv'
    BY <1>1 DEF RecordInv, OverlapInv, Recording, InRecording
  <1>5. ASSUME NEW u \in Senders PROVE HolderInv(u)'
    <2>1. CASE u = MailLoop
      BY <1>1, <2>1 DEF HolderInv
    <2>2. CASE u # MailLoop
      <3>1. mlAt'[u] = mlAt[u] /\ (mlAt[u] = "save" => mlMail[u] \in mlExcused')
            /\ (mlAt[u] \in {"append", "save"} => mlTold \subseteq ToSet(mlMine[MailLoop]) \cup mlExcused')
        BY <1>1, <1>2, <1>3, <2>2 DEF Recording, InRecording
      <3> QED
        BY <1>1, <3>1, Bound
    <2> QED
      BY <2>1, <2>2
  <1>6. ListingInv'
    BY <1>1 DEF ListingInv
  <1>7. FileInv'
    BY <1>0, <1>1 DEF RecordInv, FileInv, Has
  <1>8. mlShared' = {}
    BY <1>1 DEF Bind
  <1> QED
    BY <1>4, <1>5, <1>6, <1>7, <1>8 DEF RecordInv

LEMMA ListHistoryStep == ASSUME MailTypes, RecordInv, ListHistory PROVE RecordInv'
  <1>0. MailLoop \in Senders
    BY LoopSends
  <1>1. /\ mlAt[MailLoop] = "idle" /\ mlAt'[MailLoop] = "listing" /\ \A u \in Senders \ {MailLoop} : mlAt'[u] = mlAt[u]
        /\ UNCHANGED <<mlLogText, mlLog, mlHistory, mlShared, mlTold, mlMail>> /\ mlLogText # "none"
        /\ mlMine'[MailLoop] = mlLog /\ \A u \in Senders \ {MailLoop} : mlMine'[u] = mlMine[u]
    BY <1>0, MailMoves DEF ListHistory, MailPlaces, MailTypes
  <1>2. /\ mlExcused \subseteq mlExcused'
        /\ \A u \in Senders : Recording(u) => mlMail[u] \in mlExcused'
    BY <1>1 DEF ListHistory, Recording, RecordingBut, InRecording
  <1>3. OverlapInv'
    BY <1>1, <1>2 DEF OverlapInv, Recording, InRecording
  <1>4. ListingInv'
    <2>1. Has(mlTold, mlLog)' \/ mlLog = <<>>
      BY <1>1, <1>2 DEF RecordInv, FileInv, Has
    <2>2. \A u \in Senders : Recording(u)' => mlMail'[u] \in mlExcused'
      BY <1>1, <1>2 DEF Recording, InRecording
    <2> QED
      BY <1>1, <2>1, <2>2 DEF ListingInv, Has
  <1>5. ASSUME NEW u \in Senders PROVE HolderInv(u)'
    <2>1. CASE u = MailLoop
      BY <1>1, <2>1 DEF HolderInv
    <2>2. CASE u # MailLoop
      BY <1>1, <1>2, <2>2 DEF RecordInv, HolderInv, Has, Saving
    <2> QED
      BY <2>1, <2>2
  <1>6. FileInv'
    BY <1>0, <1>1, <1>2 DEF RecordInv, FileInv, Has
  <1>7. \A u \in mlShared' : u \in Senders /\ mlAt'[u] = "write"
    BY <1>1 DEF RecordInv
  <1> QED
    BY <1>3, <1>4, <1>5, <1>6, <1>7 DEF RecordInv

LEMMA AppendEntryStep == ASSUME MailTypes, RecordInv, NEW s \in Senders, AppendEntry(s) PROVE RecordInv'
  <1>0. MailLoop \in Senders
    BY LoopSends
  <1>1. /\ mlAt[s] = "append" /\ mlAt'[s] = "save" /\ \A u \in Senders \ {s} : mlAt'[u] = mlAt[u]
        /\ mlHistory' = Append(mlHistory, mlMail[s])
        /\ UNCHANGED <<mlLogText, mlLog, mlMine, mlShared, mlTold, mlExcused, mlMail>>
    BY MailMoves DEF AppendEntry, MailPlaces
  <1>2. ToSet(mlHistory) \cup {mlMail[s]} \subseteq ToSet(mlHistory')
    BY <1>1, EntryAppended DEF MailTypes
  <1>3. OverlapInv'
    BY <1>1 DEF RecordInv, OverlapInv, Recording, InRecording
  <1>4. ListingInv'
    BY <1>0, <1>1 DEF RecordInv, ListingInv, Recording, InRecording, Has
  <1>5. ASSUME NEW u \in Senders PROVE HolderInv(u)'
    <2>1. CASE u = s
      BY <1>1, <1>2, <2>1 DEF RecordInv, HolderInv, Has
    <2>2. CASE u # s
      <3>1. mlAt'[u] = mlAt[u] /\ ToSet(Saving(u)) \subseteq ToSet(Saving(u)')
        BY <1>1, <1>2, <2>2 DEF Saving
      <3> QED
        BY <1>1, <1>2, <3>1 DEF RecordInv, HolderInv, Has
    <2> QED
      BY <2>1, <2>2
  <1>6. FileInv'
    BY <1>1 DEF RecordInv, FileInv, Has
  <1>7. \A u \in mlShared' : u \in Senders /\ mlAt'[u] = "write"
    BY <1>1 DEF RecordInv
  <1> QED
    BY <1>3, <1>4, <1>5, <1>6, <1>7 DEF RecordInv

LEMMA OpenHistoryStep == ASSUME MailTypes, RecordInv, NEW s \in Senders, OpenHistory(s) PROVE RecordInv'
  <1>0. MailLoop \in Senders
    BY LoopSends
  <1>1. /\ mlAt[s] = "save" /\ mlAt'[s] = "write" /\ \A u \in Senders \ {s} : mlAt'[u] = mlAt[u]
        /\ mlMine'[s] = KeptMails(mlHistory) /\ \A u \in Senders \ {s} : mlMine'[u] = mlMine[u]
        /\ UNCHANGED <<mlHistory, mlTold, mlMail>> /\ mlLogText' = "cut" /\ mlLog' = <<>>
    BY MailMoves DEF OpenHistory, MailPlaces, MailTypes
  <1>2. mlExcused' = mlExcused \cup (ToSet(mlHistory) \ ToSet(KeptMails(mlHistory)))
    BY DEF OpenHistory
  <1>3. /\ s \in mlShared' \/ (mlShared' = mlShared /\ s \notin mlShared)
        /\ \A u \in Senders \ {s} : u \in mlShared' <=> u \in mlShared
        /\ \A u \in mlShared' : u \in Senders /\ mlAt'[u] = "write"
    BY <1>1 DEF OpenHistory, RecordInv
  <1>4. OverlapInv'
    BY <1>1, <1>2 DEF RecordInv, OverlapInv, Recording, InRecording
  <1>5. ListingInv'
    BY <1>0, <1>1, <1>2 DEF RecordInv, ListingInv, Recording, InRecording, Has
  <1>6. ASSUME NEW u \in Senders PROVE HolderInv(u)'
    <2>1. CASE u = s
      <3>1. Has(mlTold \cup {mlMail[s]}, mlHistory)
        BY <1>1 DEF RecordInv, HolderInv
      <3>2. Saving(s)' \in {mlHistory, KeptMails(mlHistory)}
        BY <1>1 DEF Saving
      <3>3. Has(mlTold \cup {mlMail[s]}, Saving(s))'
        BY <1>1, <1>2, <3>1, <3>2 DEF Has
      <3> QED
        BY <1>1, <2>1, <3>3 DEF HolderInv
    <2>2. CASE u # s
      <3>1. mlAt'[u] = mlAt[u] /\ Saving(u)' = Saving(u) /\ mlMine'[u] = mlMine[u]
        BY <1>1, <1>3, <2>2 DEF Saving
      <3> QED
        BY <1>1, <1>2, <3>1 DEF RecordInv, HolderInv, Has
    <2> QED
      BY <2>1, <2>2
  <1>7. FileInv'
    BY <1>1 DEF FileInv
  <1> QED
    BY <1>3, <1>4, <1>5, <1>6, <1>7 DEF RecordInv

LEMMA WriteHistoryStep == ASSUME MailTypes, RecordInv, NEW s \in Senders, WriteHistory(s) PROVE RecordInv'
  <1>0. MailLoop \in Senders
    BY LoopSends
  <1>1. /\ mlAt[s] = "write" /\ mlAt'[s] = "idle" /\ \A u \in Senders \ {s} : mlAt'[u] = mlAt[u]
        /\ mlTold' = mlTold \cup {mlMail[s]} /\ mlShared' = mlShared \ {s}
        /\ UNCHANGED <<mlHistory, mlMine, mlMail>>
    BY MailMoves DEF WriteHistory, MailPlaces
  <1>2. \/ mlLogText' = "whole" /\ mlLog' = Saving(s) /\ mlExcused' = mlExcused
        \/ mlLogText' = "cut" /\ mlLog' = <<>> /\ mlExcused' = mlExcused \cup mlTold \cup {mlMail[s]}
    BY DEF WriteHistory
  <1>3. Has(mlTold \cup {mlMail[s]}, Saving(s))
    BY <1>1 DEF RecordInv, HolderInv
  <1>4. mlExcused \subseteq mlExcused'
    BY <1>2
  <1>5. OverlapInv'
    BY <1>1, <1>4 DEF RecordInv, OverlapInv, Recording, InRecording
  <1>6. ListingInv'
    <2> SUFFICES ASSUME mlAt'[MailLoop] = "listing" PROVE ListingInv'
      BY DEF ListingInv
    <2>1. mlAt[MailLoop] = "listing" /\ MailLoop # s
      BY <1>0, <1>1
    <2>2. mlMail[s] \in mlExcused
      BY <1>1, <2>1 DEF RecordInv, ListingInv, Recording, InRecording
    <2>3. \A u \in Senders : Recording(u)' => mlMail'[u] \in mlExcused'
      BY <1>1, <1>4, <2>1 DEF RecordInv, ListingInv, Recording, InRecording
    <2> QED
      BY <1>1, <1>4, <2>1, <2>2, <2>3 DEF RecordInv, ListingInv, Has
  <1>7. ASSUME NEW u \in Senders PROVE HolderInv(u)'
    <2>1. CASE u = s
      BY <1>1, <2>1 DEF HolderInv
    <2>2. CASE u # s
      <3>1. mlAt'[u] = mlAt[u] /\ Saving(u)' = Saving(u)
        BY <1>1, <2>2 DEF Saving
      <3>2. mlAt[u] \in InRecording => mlMail[s] \in mlExcused
        BY <1>1, <2>2 DEF RecordInv, OverlapInv, Recording, InRecording
      <3> QED
        BY <1>1, <1>4, <3>1, <3>2 DEF RecordInv, HolderInv, Has, InRecording
    <2> QED
      BY <2>1, <2>2
  <1>8. FileInv'
    <2>1. mlLogText' = "whole" => Has(mlTold, mlLog)'
      BY <1>1, <1>2, <1>3 DEF Has
    <2> QED
      BY <1>1, <1>2, <2>1 DEF FileInv
  <1>9. \A u \in mlShared' : u \in Senders /\ mlAt'[u] = "write"
    BY <1>1 DEF RecordInv
  <1> QED
    BY <1>5, <1>6, <1>7, <1>8, <1>9 DEF RecordInv

LEMMA RecordStep == MailTypes /\ RecordInv /\ [MailNext]_mailVars => RecordInv'
  <1> SUFFICES ASSUME MailTypes, RecordInv, [MailNext]_mailVars PROVE RecordInv'
    OBVIOUS
  <1>0. MailLoop \in Senders
    BY LoopSends
  <1>1. CASE UNCHANGED mailVars \/ ReadSettings
    BY <1>1, OthersStep DEF mailVars, logVars, ReadSettings
  <1>2. CASE Update \/ OpenSettings \/ WriteSettings \/ \E x \in Fields : SetField(x)
    <2>1. PICK place \in {"update", "set", "settings", "idle"} : MailAt(MailLoop, place)
      BY <1>2 DEF Update, SetField, OpenSettings, WriteSettings
    <2>2. UNCHANGED logVars /\ UNCHANGED mlMail /\ mlAt[MailLoop] \notin InRecording \cup {"listing"} /\ place \in MailPlaces
      BY <1>2 DEF Update, SetField, OpenSettings, WriteSettings, InRecording, MailPlaces
    <2>3. mlAt'[MailLoop] = place /\ \A u \in Senders \ {MailLoop} : mlAt'[u] = mlAt[u]
      BY <1>0, <2>1, <2>2, MailMoves
    <2>4. place \notin InRecording \cup {"listing"}
      BY DEF InRecording
    <2> QED
      BY <1>0, <2>2, <2>3, <2>4, OthersStep
  <1>3. CASE Restart
    <2>1. /\ \A u \in Senders : mlAt'[u] = "idle"
          /\ mlExcused \subseteq mlExcused' /\ ((\E u \in Senders : mlAt[u] = "write") => mlTold \subseteq mlExcused')
          /\ UNCHANGED <<mlTold, mlLogText, mlLog>> /\ mlShared' = {}
      BY <1>3 DEF Restart
    <2> QED
      BY <1>0, <2>1 DEF RecordInv, OverlapInv, ListingInv, FileInv, HolderInv, Recording, InRecording, Has
  <1>4. ASSUME NEW s \in Senders, SendMail(s) \/ BindSettings(s) \/ Check(s) PROVE RecordInv'
    <2>1. PICK place \in {"load", "check", "deliver", "idle"} : MailAt(s, place)
      BY <1>4 DEF SendMail, BindSettings, Check
    <2>2. UNCHANGED logVars /\ (\A u \in Senders \ {s} : mlMail'[u] = mlMail[u])
          /\ mlAt[s] \notin InRecording \cup {"listing"} /\ place \notin InRecording \cup {"listing"} /\ place \in MailPlaces
      BY <1>4 DEF SendMail, BindSettings, Check, InRecording, MailPlaces, MailTypes
    <2>3. mlAt'[s] = place /\ \A u \in Senders \ {s} : mlAt'[u] = mlAt[u]
      BY <2>1, <2>2, MailMoves
    <2> QED
      BY <2>2, <2>3, OthersStep
  <1> QED
    BY <1>1, <1>2, <1>3, <1>4, ReadHistoryStep, BindHistoryStep, AppendEntryStep, OpenHistoryStep, WriteHistoryStep,
       ListHistoryStep, BindListingStep DEF MailNext

\* However the exports' threads and the event loop overlap in the two files: the settings are those that
\* were asked for and a recorded mail is in the history, unless a load crossed the change, another recording
\* or a listing overlapped, or a write was cut off or failed, for any number of threads, mails, updates,
\* listings and restarts.
THEOREM MailIsKept == MailSpec => []MailKept
  <1>1. MailInv /\ [MailNext]_mailVars => MailInv'
    BY SettingsStep, RecordTypes, RecordStep DEF MailInv
  <1>2. MailInv => MailKept
    <2> SUFFICES ASSUME MailInv PROVE MailKept
      OBVIOUS
    <2>1. SettingsExplained
      BY DEF MailInv, SettingsInv, SettingsExplained
    <2>2. MailsAreRecorded
      BY DEF MailInv, MailTypes, RecordInv, FileInv, Has, MailsAreRecorded
    <2> QED
      BY <2>1, <2>2 DEF MailKept
  <1> QED
    BY MailInit0, <1>1, <1>2, PTL DEF MailSpec
-----------------------------------------------------------------------------
(* Dashboard documents.                                                    *)
(*                                                                         *)
(* Once dashboards.json was cut off, or a request ended between two saves, *)
(* nothing is claimed of the permissions any more; until then an author    *)
(* never changes, since an id is drawn once and the versions that can be   *)
(* restored name the author the dashboard has.                             *)

Board == [by : Members \cup {Nobody}, widgets : SUBSET Widgets]
IsRecord(r) == \E o, e, p : r = [owner |-> o, entries |-> e, public |-> p]

FilesInv ==
    /\ docText \in {"none", "whole"} /\ (docText = "none" => docDefault = Pristine)
    /\ \A id \in DOMAIN Listed : Listed[id] \in Board /\ id \in docSpent
    /\ \A id \in DOMAIN docAccess : IsRecord(docAccess[id])
    /\ \A id \in DOMAIN docVersions : docVersions[id] \in Seq(Board) /\ id \in docSpent

AuthorsInv ==
    /\ \A id \in DOMAIN docAccess : id \in DOMAIN Listed /\ docAccess[id].owner = Listed[id].by
    /\ \A id \in DOMAIN docVersions \cap DOMAIN Listed :
          \A i \in DOMAIN docVersions[id] : docVersions[id][i].by = Listed[id].by
    /\ docLosses = {} => \A id \in DOMAIN Listed : Listed[id].by # Nobody => id \in DOMAIN docAccess

Spoiled == docLosses \cap {"dashboards", "between"} # {}
DocumentInv == Spoiled \/ (FilesInv /\ AuthorsInv)

LEMMA DocumentInit0 == DocumentInit => DocumentInv
  <1> SUFFICES ASSUME DocumentInit PROVE FilesInv /\ AuthorsInv
    BY DEF DocumentInv
  <1>1. Listed = Pristine /\ docText = "none" /\ docDefault = Pristine /\ docSpent = {Seed}
        /\ DOMAIN docAccess = {} /\ DOMAIN docVersions = {}
    BY DEF DocumentInit, Listed, Empty
  <1>2. DOMAIN Pristine = {Seed} /\ Pristine[Seed] = [by |-> Nobody, widgets |-> {}]
    BY DEF Pristine
  <1>3. FilesInv
    BY <1>1, <1>2 DEF FilesInv, Board
  <1>4. AuthorsInv
    BY <1>1, <1>2 DEF AuthorsInv
  <1> QED
    BY <1>3, <1>4

LEMMA SpoiledStays == Spoiled /\ [DocumentNext]_documentVars => Spoiled'
  <1> SUFFICES ASSUME [DocumentNext]_documentVars PROVE docLosses \subseteq docLosses'
    BY DEF Spoiled
  <1> USE DEF Save, ListCut, Changes
  <1>1. CASE UNCHANGED documentVars
    BY <1>1 DEF documentVars
  <1>2. ASSUME NEW id \in Boards, NEW u \in Members, CreateDashboard(u, id) PROVE docLosses \subseteq docLosses'
    BY <1>2 DEF CreateDashboard
  <1>3. ASSUME NEW id \in Boards, NEW u \in Members, DeleteDashboard(u, id) PROVE docLosses \subseteq docLosses'
    BY <1>3 DEF DeleteDashboard, CleanupPermissions
  <1>4. ASSUME NEW id, NEW u, NEW record, Regulate(u, id, record) PROVE docLosses \subseteq docLosses'
    BY <1>4 DEF Regulate
  <1>5. ASSUME NEW id \in Boards, CreateFromTemplate(id) PROVE docLosses \subseteq docLosses'
    BY <1>5 DEF CreateFromTemplate
  <1>6. ASSUME NEW id \in Boards, NEW ws, ChangeWidgets(id, ws) PROVE docLosses \subseteq docLosses'
    BY <1>6 DEF ChangeWidgets
  <1>7. ASSUME NEW id \in Boards, NEW i, RestoreVersion(id, i) PROVE docLosses \subseteq docLosses'
    BY <1>7 DEF RestoreVersion
  <1>8. ASSUME NEW id \in Boards, CreateVersion(id) PROVE docLosses \subseteq docLosses'
    BY <1>8 DEF CreateVersion
  <1>9. ASSUME NEW id \in Boards, NEW t \in Tokens,
               CreateShare(id, t) \/ ShareExpires(t) \/ ViewShare(t) \/ RevokeShare(t)
        PROVE  docLosses \subseteq docLosses'
    BY <1>9 DEF CreateShare, ShareExpires, ViewShare, RevokeShare
  <1>10. CASE RestartDocuments
    BY <1>10 DEF RestartDocuments
  <1> HIDE DEF Save, ListCut, Changes
  <1>11. Seed \in Boards
    BY DocumentAssumption
  <1> QED
    BY <1>1, <1>2, <1>3, <1>4, <1>5, <1>6, <1>7, <1>8, <1>9, <1>10, <1>11
       DEF DocumentNext, GrantPermission, RevokePermission, SetPublic, TransferOwnership

\* A save of the list that was not cut off.
LEMMA ListSaved ==
    ASSUME NEW new, SaveListed(new) PROVE Listed' = new /\ docText' = "whole"
  BY DEF SaveListed, Listed

\* The list, its authors and its versions stay; some or all permissions may be gone, if that is known.
LEMMA ListStays ==
    ASSUME FilesInv, AuthorsInv, docText' \in {"none", "whole"}, docText' = "none" => docDefault' = Pristine,
           Listed' = Listed, docSpent \subseteq docSpent', docLosses \subseteq docLosses',
           DOMAIN docAccess' \subseteq DOMAIN docAccess, docLosses' # {} \/ DOMAIN docAccess' = DOMAIN docAccess,
           \A id \in DOMAIN docAccess' : IsRecord(docAccess'[id]) /\ docAccess'[id].owner = docAccess[id].owner,
           \A id \in DOMAIN docVersions' :
              /\ docVersions'[id] \in Seq(Board) /\ id \in docSpent
              /\ id \in DOMAIN Listed => \A i \in DOMAIN docVersions'[id] : docVersions'[id][i].by = Listed[id].by
    PROVE  FilesInv' /\ AuthorsInv'
  <1>1. FilesInv'
    BY DEF FilesInv
  <1>2. AuthorsInv'
    BY DEF AuthorsInv
  <1> QED
    BY <1>1, <1>2

\* A dashboard of the list is changed, and keeps its author.
LEMMA BoardChanged ==
    ASSUME FilesInv, AuthorsInv, NEW new, Changes(new), UNCHANGED <<docAccess, docVersions, docSpent, docLosses>>,
           DOMAIN new = DOMAIN Listed, \A id \in DOMAIN Listed : new[id] \in Board /\ new[id].by = Listed[id].by
    PROVE  FilesInv' /\ AuthorsInv'
  <1>1. Listed' = new /\ docText' = "whole"
    BY ListSaved DEF Changes
  <1>2. FilesInv'
    BY <1>1 DEF FilesInv
  <1>3. AuthorsInv'
    BY <1>1 DEF AuthorsInv
  <1> QED
    BY <1>2, <1>3

\* A new dashboard under an id nobody had; its permissions are there, or it has no author, or they are lost.
LEMMA BoardAdded ==
    ASSUME FilesInv, AuthorsInv, NEW id, NEW u \in Members \cup {Nobody}, id \notin docSpent,
           SaveListed(Put(Listed, id, [by |-> u, widgets |-> {}])), docSpent' = docSpent \cup {id},
           UNCHANGED docVersions, docLosses \subseteq docLosses',
           \/ DOMAIN docAccess' = {} /\ docLosses' # {}
           \/ u = Nobody /\ UNCHANGED docAccess
           \/ docAccess' = Put(docAccess, id, [owner |-> u, entries |-> <<>>, public |-> FALSE])
    PROVE  FilesInv' /\ AuthorsInv'
  <1> DEFINE board == [by |-> u, widgets |-> {}]
             record == [owner |-> u, entries |-> <<>>, public |-> FALSE]
  <1>1. docText' = "whole" /\ Listed' = Put(Listed, id, board)
    BY ListSaved
  <1>2. DOMAIN Listed' = DOMAIN Listed \cup {id} /\ Listed'[id] = board
        /\ \A j \in DOMAIN Listed : j # id => Listed'[j] = Listed[j]
    BY <1>1 DEF Put
  <1>3. board \in Board /\ board.by = u /\ record.owner = u /\ IsRecord(record)
    BY DEF Board, IsRecord
  <1>4. id \notin DOMAIN Listed /\ id \notin DOMAIN docVersions /\ id \notin DOMAIN docAccess
    BY DEF FilesInv, AuthorsInv
  <1>5. ASSUME docAccess' = Put(docAccess, id, record)
        PROVE  DOMAIN docAccess' = DOMAIN docAccess \cup {id} /\ docAccess'[id] = record
               /\ \A j \in DOMAIN docAccess : j # id => docAccess'[j] = docAccess[j]
    BY <1>5 DEF Put
  <1> HIDE DEF board, record
  <1>6. \/ DOMAIN docAccess' = {} /\ docLosses' # {}
        \/ u = Nobody /\ UNCHANGED docAccess
        \/ docAccess' = Put(docAccess, id, record)
    BY DEF record
  <1>7. FilesInv'
    <2>1. \A j \in DOMAIN Listed' : Listed'[j] \in Board /\ j \in docSpent'
      BY <1>2, <1>3 DEF FilesInv
    <2>2. \A j \in DOMAIN docAccess' : IsRecord(docAccess'[j])
      BY <1>3, <1>5, <1>6 DEF FilesInv
    <2> QED
      BY <1>1, <2>1, <2>2 DEF FilesInv
  <1>8. AuthorsInv'
    <2>1. \A j \in DOMAIN docAccess' : j \in DOMAIN Listed' /\ docAccess'[j].owner = Listed'[j].by
      BY <1>2, <1>3, <1>4, <1>5, <1>6 DEF AuthorsInv
    <2>2. \A j \in DOMAIN docVersions' \cap DOMAIN Listed' :
             \A i \in DOMAIN docVersions'[j] : docVersions'[j][i].by = Listed'[j].by
      BY <1>2, <1>4 DEF AuthorsInv
    <2>3. docLosses' = {} => \A j \in DOMAIN Listed' : Listed'[j].by # Nobody => j \in DOMAIN docAccess'
      BY <1>2, <1>3, <1>5, <1>6 DEF AuthorsInv
    <2> QED
      BY <2>1, <2>2, <2>3 DEF AuthorsInv
  <1> QED
    BY <1>7, <1>8

\* Versions of one author stay that author's when one more is added and the oldest is given up.
LEMMA VersionAdded ==
    ASSUME NEW s \in Seq(Board), NEW b \in Board, \A i \in DOMAIN s : s[i].by = b.by
    PROVE  /\ LastOf(Append(s, b)) \in Seq(Board)
           /\ \A i \in DOMAIN LastOf(Append(s, b)) : LastOf(Append(s, b))[i].by = b.by
  <1> DEFINE t == Append(s, b)
             from == IF Len(t) > MaxVersions THEN 2 ELSE 1
  <1>1. t \in Seq(Board) /\ Len(t) = Len(s) + 1 /\ from \in {1, 2}
        /\ \A k \in 1 .. Len(t) : t[k].by = b.by
    <2>1. \A k \in 1 .. Len(s) : t[k] = s[k]
      OBVIOUS
    <2>2. t[Len(s) + 1] = b /\ t \in Seq(Board) /\ Len(t) = Len(s) + 1 /\ Len(s) \in Nat /\ DOMAIN s = 1 .. Len(s)
      OBVIOUS
    <2>3. \A k \in 1 .. Len(t) : k \in 1 .. Len(s) \/ k = Len(s) + 1
      BY <2>2
    <2> QED
      BY <2>1, <2>2, <2>3
  <1>2. LastOf(t) = SubSeq(t, from, Len(t))
    BY DEF LastOf
  <1> HIDE DEF t, from
  <1>3. SubSeq(t, from, Len(t)) \in Seq(Board) /\ \A i \in DOMAIN SubSeq(t, from, Len(t)) :
           \E k \in 1 .. Len(t) : SubSeq(t, from, Len(t))[i] = t[k]
    <2>1. CASE from = 1
      BY <1>1, <2>1
    <2>2. CASE from = 2
      <3>1. Len(t) \in Nat /\ Len(t) >= 1
        BY <1>1
      <3>2. SubSeq(t, 2, Len(t)) \in Seq(Board) /\ Len(SubSeq(t, 2, Len(t))) = Len(t) - 1
            /\ \A i \in 1 .. Len(t) - 1 : SubSeq(t, 2, Len(t))[i] = t[i + 1]
        BY <1>1, <3>1
      <3> QED
        BY <2>2, <3>1, <3>2
    <2> QED
      BY <1>1, <2>1, <2>2
  <1>4. LastOf(t) \in Seq(Board) /\ \A i \in DOMAIN LastOf(t) : LastOf(t)[i].by = b.by
    BY <1>1, <1>2, <1>3
  <1> QED
    BY <1>4 DEF t

LEMMA DocumentStep == DocumentInv /\ [DocumentNext]_documentVars => DocumentInv'
  <1> SUFFICES ASSUME FilesInv, AuthorsInv, [DocumentNext]_documentVars, ~Spoiled'
               PROVE  FilesInv' /\ AuthorsInv'
    BY SpoiledStays DEF DocumentInv
  <1>0. /\ "dashboards" \notin docLosses' /\ "between" \notin docLosses'
        /\ \A default : ~ListCut(default)
    BY DEF Spoiled, ListCut
  <1>r. ReadOnly => Listed' = Listed /\ docText' \in {"none", "whole"} /\ docText' # "none"
    BY DEF ReadOnly, Listed, FilesInv
  <1>v. \A id \in DOMAIN docVersions :
           /\ docVersions[id] \in Seq(Board) /\ id \in docSpent
           /\ id \in DOMAIN Listed => \A i \in DOMAIN docVersions[id] : docVersions[id][i].by = Listed[id].by
    BY DEF FilesInv, AuthorsInv
  <1>a. \A id \in DOMAIN docAccess : IsRecord(docAccess[id])
    BY DEF FilesInv
  <1>t. docText \in {"none", "whole"} /\ (docText = "none" => docDefault = Pristine)
    BY DEF FilesInv
  <1>1. CASE UNCHANGED documentVars
    BY <1>1, <1>v, <1>a, <1>t, ListStays DEF documentVars, Listed
  <1>2. ASSUME NEW id \in Boards, NEW u \in Members, CreateDashboard(u, id) PROVE FilesInv' /\ AuthorsInv'
    <2> DEFINE record == [owner |-> u, entries |-> <<>>, public |-> FALSE]
    <2>1. /\ id \notin docSpent /\ docSpent' = docSpent \cup {id} /\ UNCHANGED docVersions
          /\ SaveListed(Put(Listed, id, [by |-> u, widgets |-> {}]))
          /\ Save("permissions", docAccess', Put(docAccess, id, record))
      BY <1>0, <1>2 DEF CreateDashboard
    <2>2. docLosses \subseteq docLosses' /\ (docAccess' = Put(docAccess, id, record) \/ (DOMAIN docAccess' = {} /\ docLosses' # {}))
      BY <2>1 DEF Save, Empty
    <2> QED
      BY <2>1, <2>2, BoardAdded
  <1>3. ASSUME NEW id \in Boards, CreateFromTemplate(id) PROVE FilesInv' /\ AuthorsInv'
    <2>1. /\ id \notin docSpent /\ docSpent' = docSpent \cup {id} /\ UNCHANGED <<docVersions, docAccess, docLosses>>
          /\ SaveListed(Put(Listed, id, [by |-> Nobody, widgets |-> {}]))
      BY <1>0, <1>3 DEF CreateFromTemplate, Changes
    <2> QED
      BY <2>1, BoardAdded
  <1>4. ASSUME NEW id \in Boards, NEW ws \in SUBSET Widgets, ChangeWidgets(id, ws) PROVE FilesInv' /\ AuthorsInv'
    <2> DEFINE new == [Listed EXCEPT ![id].widgets = ws]
    <2>1. id \in DOMAIN Listed /\ Changes(new) /\ UNCHANGED <<docAccess, docLosses, docVersions, docSpent>>
      BY <1>0, <1>4 DEF ChangeWidgets
    <2>2. DOMAIN new = DOMAIN Listed /\ \A j \in DOMAIN Listed : j # id => new[j] = Listed[j]
      OBVIOUS
    <2>3. PICK b \in Board : Listed[id] = b
      BY <2>1 DEF FilesInv
    <2>4. new[id] = [b EXCEPT !.widgets = ws]
      BY <2>1, <2>3
    <2>5. new[id] \in Board /\ new[id].by = b.by
      BY <2>4 DEF Board
    <2> HIDE DEF new
    <2>6. \A j \in DOMAIN Listed : Listed[j] \in Board
      BY DEF FilesInv
    <2> QED
      BY <2>1, <2>2, <2>3, <2>5, <2>6, BoardChanged
  <1>5. ASSUME NEW id \in Boards, NEW i \in 1 .. MaxVersions, RestoreVersion(id, i) PROVE FilesInv' /\ AuthorsInv'
    <2> DEFINE old == docVersions[id][i]
               new == IF id \in DOMAIN Listed THEN [Listed EXCEPT ![id] = old] ELSE Listed
    <2>1. id \in DOMAIN docVersions /\ i \in DOMAIN docVersions[id] /\ Changes(new)
          /\ UNCHANGED <<docAccess, docLosses, docVersions, docSpent>>
      BY <1>0, <1>5 DEF RestoreVersion
    <2>2. old \in Board /\ (id \in DOMAIN Listed => old.by = Listed[id].by)
      BY <1>v, <2>1
    <2>3. \A j \in DOMAIN Listed : Listed[j] \in Board
      BY DEF FilesInv
    <2>4. DOMAIN new = DOMAIN Listed /\ \A j \in DOMAIN Listed : new[j] = Listed[j] \/ (j = id /\ new[j] = old)
      OBVIOUS
    <2> HIDE DEF new, old
    <2> QED
      BY <2>1, <2>2, <2>3, <2>4, BoardChanged
  <1>6. ASSUME NEW id \in Boards, NEW u \in Members, DeleteDashboard(u, id) PROVE FilesInv' /\ AuthorsInv'
    <2>1. /\ SaveListed(Drop(Listed, id)) /\ CleanupPermissions(id) /\ UNCHANGED <<docDefault, docVersions, docSpent>>
      BY <1>0, <1>6 DEF DeleteDashboard
    <2>2. docText' = "whole" /\ Listed' = Drop(Listed, id)
      BY <2>1, ListSaved
    <2>3. DOMAIN Listed' = DOMAIN Listed \ {id} /\ \A j \in DOMAIN Listed \ {id} : Listed'[j] = Listed[j]
      BY <2>2 DEF Drop
    <2>4. /\ DOMAIN docAccess' = DOMAIN docAccess \ {id} \/ (DOMAIN docAccess' = {} /\ docLosses' # {})
          /\ \A j \in DOMAIN docAccess' : docAccess'[j] = docAccess[j]
          /\ docLosses \subseteq docLosses'
      BY <2>1 DEF CleanupPermissions, Save, Drop, Empty
    <2>5. FilesInv'
      BY <2>1, <2>2, <2>3, <2>4 DEF FilesInv
    <2>6. AuthorsInv'
      BY <2>1, <2>3, <2>4 DEF AuthorsInv
    <2> QED
      BY <2>5, <2>6
  <1>7. ASSUME NEW id, NEW u, NEW f, Regulate(u, id, [docAccess[id] EXCEPT !.entries = f]) PROVE FilesInv' /\ AuthorsInv'
    <2> DEFINE record == [docAccess[id] EXCEPT !.entries = f]
    <2>1. id \in DOMAIN docAccess /\ Save("permissions", docAccess', Put(docAccess, id, record))
          /\ UNCHANGED <<docText, docFile, docDefault, docVersions, docShares, docSpent>>
      BY <1>7 DEF Regulate
    <2>2. IsRecord(record) /\ record.owner = docAccess[id].owner
      <3>1. PICK o, e, p : docAccess[id] = [owner |-> o, entries |-> e, public |-> p]
        BY <1>a, <2>1 DEF IsRecord
      <3>2. record = [owner |-> o, entries |-> f, public |-> p]
        BY <3>1
      <3> QED
        BY <3>1, <3>2 DEF IsRecord
    <2> HIDE DEF record
    <2>3. /\ DOMAIN docAccess' \subseteq DOMAIN docAccess /\ docLosses \subseteq docLosses'
          /\ docLosses' # {} \/ DOMAIN docAccess' = DOMAIN docAccess
          /\ \A j \in DOMAIN docAccess' : docAccess'[j] = IF j = id THEN record ELSE docAccess[j]
      BY <2>1 DEF Save, Put, Empty
    <2>4. Listed' = Listed
      BY <2>1 DEF Listed
    <2> QED
      BY <1>v, <1>a, <1>t, <2>1, <2>2, <2>3, <2>4, ListStays
  <1>8. ASSUME NEW id, NEW u, NEW f, Regulate(u, id, [docAccess[id] EXCEPT !.public = f]) PROVE FilesInv' /\ AuthorsInv'
    <2> DEFINE record == [docAccess[id] EXCEPT !.public = f]
    <2>1. id \in DOMAIN docAccess /\ Save("permissions", docAccess', Put(docAccess, id, record))
          /\ UNCHANGED <<docText, docFile, docDefault, docVersions, docShares, docSpent>>
      BY <1>8 DEF Regulate
    <2>2. IsRecord(record) /\ record.owner = docAccess[id].owner
      <3>1. PICK o, e, p : docAccess[id] = [owner |-> o, entries |-> e, public |-> p]
        BY <1>a, <2>1 DEF IsRecord
      <3>2. record = [owner |-> o, entries |-> e, public |-> f]
        BY <3>1
      <3> QED
        BY <3>1, <3>2 DEF IsRecord
    <2> HIDE DEF record
    <2>3. /\ DOMAIN docAccess' \subseteq DOMAIN docAccess /\ docLosses \subseteq docLosses'
          /\ docLosses' # {} \/ DOMAIN docAccess' = DOMAIN docAccess
          /\ \A j \in DOMAIN docAccess' : docAccess'[j] = IF j = id THEN record ELSE docAccess[j]
      BY <2>1 DEF Save, Put, Empty
    <2>4. Listed' = Listed
      BY <2>1 DEF Listed
    <2> QED
      BY <1>v, <1>a, <1>t, <2>1, <2>2, <2>3, <2>4, ListStays
  <1>9. ASSUME NEW id \in Boards, CreateVersion(id) PROVE FilesInv' /\ AuthorsInv'
    <2> DEFINE list == LastOf(Append(VersionsOf(id), Listed[id]))
    <2>1. id \in DOMAIN Listed /\ ReadOnly /\ UNCHANGED <<docAccess, docSpent>>
          /\ Save("versions", docVersions', Put(docVersions, id, list))
      BY <1>9 DEF CreateVersion
    <2>2. Listed[id] \in Board /\ id \in docSpent
      BY <2>1 DEF FilesInv
    <2>3. VersionsOf(id) \in Seq(Board) /\ \A i \in DOMAIN VersionsOf(id) : VersionsOf(id)[i].by = Listed[id].by
      BY <1>v, <2>1 DEF VersionsOf
    <2>4. list \in Seq(Board) /\ \A i \in DOMAIN list : list[i].by = Listed[id].by
      BY <2>2, <2>3, VersionAdded
    <2> HIDE DEF list
    <2>5. /\ docLosses \subseteq docLosses' /\ DOMAIN docVersions' \subseteq DOMAIN docVersions \cup {id}
          /\ \A j \in DOMAIN docVersions' : docVersions'[j] = IF j = id THEN list ELSE docVersions[j]
      BY <2>1 DEF Save, Put, Empty
    <2>6. \A j \in DOMAIN docVersions' :
             /\ docVersions'[j] \in Seq(Board) /\ j \in docSpent
             /\ j \in DOMAIN Listed => \A i \in DOMAIN docVersions'[j] : docVersions'[j][i].by = Listed[j].by
      BY <1>v, <2>2, <2>4, <2>5
    <2> QED
      BY <1>a, <1>r, <2>1, <2>5, <2>6, ListStays
  <1>10. ASSUME NEW id \in Boards, NEW t \in Tokens, CreateShare(id, t) \/ ShareExpires(t) \/ ViewShare(t) \/ RevokeShare(t)
         PROVE  FilesInv' /\ AuthorsInv'
    <2>1. ReadOnly \/ UNCHANGED <<docText, docFile, docDefault>>
      BY <1>10 DEF CreateShare, ShareExpires, ViewShare, RevokeShare
    <2>2. /\ docSpent \subseteq docSpent' /\ docLosses \subseteq docLosses' /\ UNCHANGED <<docAccess, docVersions>>
      BY <1>10 DEF CreateShare, ShareExpires, ViewShare, RevokeShare, Save
    <2>3. Listed' = Listed /\ docText' \in {"none", "whole"} /\ (docText' = "none" => docDefault' = Pristine)
      BY <1>r, <1>t, <2>1 DEF Listed
    <2> QED
      BY <1>v, <1>a, <2>2, <2>3, ListStays
  <1>11. CASE RestartDocuments
    <2>1. Listed' = Listed
      BY <1>11, <1>t DEF RestartDocuments, Listed
    <2> QED
      BY <1>11, <1>v, <1>a, <1>t, <2>1, ListStays DEF RestartDocuments
  <1>12. Seed \in Boards
    BY DocumentAssumption
  <1> QED
    BY <1>1, <1>2, <1>3, <1>4, <1>5, <1>6, <1>7, <1>8, <1>9, <1>10, <1>11, <1>12
       DEF DocumentNext, GrantPermission, RevokePermission, SetPublic, TransferOwnership

\* Permissions belong to a dashboard of the list and name its author as the owner, and a dashboard with an
\* author has permissions, unless a file was cut off or a request ended between two saves: for any dashboards,
\* users, versions and requests.
THEOREM RecordsFollow == DocumentSpec => []RecordsFollowDashboards
  <1>1. DocumentInv => RecordsFollowDashboards
    BY DEF DocumentInv, Spoiled, AuthorsInv, RecordsFollowDashboards
  <1> QED
    BY DocumentInit0, DocumentStep, <1>1, PTL DEF DocumentSpec

-----------------------------------------------------------------------------
(* The upload wizard. *)

Partition == [name : ({"month"} \X Int) \cup ({"value"} \X Range(Slug)), covers : SUBSET Int]
Splits    == {"none", "LIST", "RANGE"}
Modes     == {"none", "overwrite", "append"}
IngestRequest ==
    [at : {"idle", "write", "drop", "create", "kids", "insert", "verify"}, file : Files \cup {"none"},
     target : Targets \cup {"none"}, mode : Modes, split : Splits, todo : SUBSET Partition]
Table     == [there : BOOLEAN, split : Splits, kids : SUBSET Partition, default : BOOLEAN]

IngestTypes ==
    /\ inUploads \subseteq Files /\ inFresh \subseteq Files \ inUploads
    /\ inReq \in IngestRequest /\ inTable \in [Targets -> Table]
    /\ inCopies \in [Targets -> [Files -> Nat]] /\ inAgain \in [Files -> Nat]
    /\ inDone \subseteq [file : Files, target : Targets, mode : Modes]

\* A table an overwrite may be answered for: each of its rows has a place, or the default's name is another's.
Complete(t) ==
    inTable[t].there /\ (inTable[t].split = "none" \/ inTable[t].default \/ DefaultName \in TakenNames[t])

\* What the request has done by the step it has come to.
StepFits ==
    ~At("idle") =>
        /\ inReq.file \in inUploads /\ inReq.target \in Targets
        /\ At("write") => inReq.target \notin Postgres
        /\ inReq.at \in {"drop", "create", "kids", "insert"} => inReq.target \in Postgres
        /\ At("kids") => inTable[inReq.target].there
        /\ At("create") /\ inReq.mode = "overwrite" => ~inTable[inReq.target].there
        /\ inReq.at \in {"insert", "verify"} /\ inReq.mode = "overwrite" => Complete(inReq.target)
        /\ At("verify") => inCopies[inReq.target][inReq.file] > 0

\* What was answered is there.
DoneStays ==
    /\ \A t \in Targets \ Postgres : inTable[t].split = "none"
    /\ \A d \in inDone : inCopies[d.target][d.file] > 0 /\ (d.mode = "overwrite" => Complete(d.target))

\* An upload that can still be committed has come to the tables no more often than its errors say.
Waiting(f) == f \in inFresh \cup inUploads /\ ~(At("verify") /\ inReq.file = f)
LandingsBound ==
    \A f \in Files : /\ Cardinality(Landings(f)) <= 1 + inAgain[f]
                     /\ Waiting(f) => Cardinality(Landings(f)) <= inAgain[f]

IngestInv == IngestTypes /\ StepFits /\ DoneStays /\ LandingsBound

LEMMA PartitionTypes ==
    ASSUME NEW f \in Files, NEW split \in Splits, NEW kids \in Partitions(f, split)
    PROVE  kids \subseteq Partition
  <1>1. Holds[f] \subseteq Int /\ \A v \in Holds[f] : Slug[v] \in Range(Slug)
    BY IngestionAssumption DEF Values, Range
  <1>2. CASE split = "RANGE"
    <2>1. kids = {[name |-> <<"month", m>>, covers |-> {m}] : m \in MonthlySlices(Holds[f], MaxPartitions)}
      BY <1>2 DEF Partitions
    <2>2. MonthlySlices(Holds[f], MaxPartitions) \subseteq Int
      BY DEF MonthlySlices
    <2> QED
      BY <2>1, <2>2 DEF Partition
  <1>3. CASE split # "RANGE"
    <2>1. PICK S \in Capped(Holds[f]) : kids = {[name |-> <<"value", Slug[v]>>, covers |-> {v}] : v \in S}
      BY <1>3 DEF Partitions
    <2>2. S \subseteq Holds[f]
      BY <2>1 DEF Capped, kSubset
    <2> QED
      BY <1>1, <2>1, <2>2 DEF Partition
  <1> QED
    BY <1>2, <1>3

LEMMA TableTypes ==
    /\ NoTable \in Table /\ NoRequest \in IngestRequest /\ NoCopies \in [Files -> Nat]
    /\ NoTable.there = FALSE /\ NoTable.split = "none"
  BY DEF NoTable, Table, NoRequest, IngestRequest, NoCopies, Splits, Modes

LEMMA IngestTypesStep == IngestTypes /\ StepFits /\ [IngestNext]_ingestVars => IngestTypes'
  <1> SUFFICES ASSUME IngestTypes, StepFits, [IngestNext]_ingestVars PROVE IngestTypes'
    OBVIOUS
  <1> USE DEF IngestTypes
  <1>1. ASSUME NEW f \in Files, Preview(f) PROVE IngestTypes'
    BY <1>1 DEF Preview
  <1>2. ASSUME NEW f \in Files, NEW t \in Targets, NEW mode \in {"overwrite", "append"}, NEW split \in Splits, Commit(f, t, mode, split)
        PROVE  IngestTypes'
    BY <1>2 DEF Commit, IngestRequest, Modes
  <1>3. CASE WriteDelta
    <2>1. inReq.target \in Targets /\ inReq.file \in Files
      BY <1>3 DEF WriteDelta, StepFits, At
    <2>2. inTable' \in [Targets -> Table] /\ inReq' \in IngestRequest
      <3>1. inTable' = [inTable EXCEPT ![inReq.target].there = TRUE] /\ inReq' = [inReq EXCEPT !.at = "verify"]
        BY <1>3 DEF WriteDelta, Goes
      <3> QED
        BY <2>1, <3>1 DEF Table, IngestRequest
    <2>3. inCopies' \in [Targets -> [Files -> Nat]]
      <3>1. \/ inCopies' = [inCopies EXCEPT ![inReq.target][inReq.file] = @ + 1]
            \/ inCopies' = [inCopies EXCEPT ![inReq.target] = [NoCopies EXCEPT ![inReq.file] = 1]]
        BY <1>3 DEF WriteDelta
      <3>2. [NoCopies EXCEPT ![inReq.file] = 1] \in [Files -> Nat]
        BY <2>1, TableTypes
      <3>3. [inCopies EXCEPT ![inReq.target][inReq.file] = @ + 1] \in [Targets -> [Files -> Nat]]
        BY <2>1
      <3>4. [inCopies EXCEPT ![inReq.target] = [NoCopies EXCEPT ![inReq.file] = 1]] \in [Targets -> [Files -> Nat]]
        BY <3>2
      <3> QED
        BY <3>1, <3>3, <3>4
    <2>4. inDone' \subseteq inDone
      BY <1>3 DEF WriteDelta
    <2> QED
      BY <1>3, <2>2, <2>3, <2>4 DEF WriteDelta
  <1>4. CASE DropTable
    <2>1. inReq.target \in Targets
      BY <1>4 DEF DropTable, StepFits, At
    <2>2. inTable' \in [Targets -> Table] /\ inReq' \in IngestRequest /\ inCopies' \in [Targets -> [Files -> Nat]]
      BY <1>4, <2>1, TableTypes DEF DropTable, Goes, IngestRequest
    <2> QED
      BY <1>4, <2>2 DEF DropTable
  <1>5. CASE CreateTable
    <2>1. inReq.target \in Targets /\ inReq.file \in Files /\ inReq.split \in Splits
      BY <1>5 DEF CreateTable, StepFits, At, IngestRequest
    <2>2. inTable' \in [Targets -> Table]
      BY <1>5, <2>1, TableTypes DEF CreateTable, Table
    <2>3. inReq' \in IngestRequest
      <3>1. CASE inReq.split = "none"
        BY <1>5, <3>1 DEF CreateTable, Goes, IngestRequest
      <3>2. CASE inReq.split # "none"
        <4>1. PICK kids \in Partitions(inReq.file, inReq.split) : inReq' = [inReq EXCEPT !.at = "kids", !.todo = kids]
          BY <1>5, <3>2 DEF CreateTable
        <4>2. kids \subseteq Partition
          BY <2>1, <4>1, PartitionTypes
        <4> QED
          BY <4>1, <4>2 DEF IngestRequest
      <3> QED
        BY <3>1, <3>2
    <2> QED
      BY <1>5, <2>2, <2>3 DEF CreateTable
  <1>6. ASSUME NEW k \in inReq.todo, CreatePartition(k) PROVE IngestTypes'
    <2>1. inReq.target \in Targets /\ k \in Partition
      BY <1>6 DEF CreatePartition, StepFits, At, IngestRequest
    <2>2. inTable' \in [Targets -> Table]
      BY <1>6, <2>1 DEF CreatePartition, Table
    <2>3. inReq' \in IngestRequest
      BY <1>6 DEF CreatePartition, IngestRequest
    <2> QED
      BY <1>6, <2>2, <2>3 DEF CreatePartition
  <1>7. CASE CreateDefault
    <2>1. inReq.target \in Targets
      BY <1>7 DEF CreateDefault, StepFits, At
    <2>2. inTable' = inTable \/ inTable' = [inTable EXCEPT ![inReq.target].default = TRUE]
      BY <1>7 DEF CreateDefault
    <2>3. inTable' \in [Targets -> Table]
      BY <2>1, <2>2 DEF Table
    <2>4. inReq' \in IngestRequest
      BY <1>7 DEF CreateDefault, Goes, IngestRequest
    <2> QED
      BY <1>7, <2>3, <2>4 DEF CreateDefault
  <1>8. CASE InsertRows
    <2>1. inReq.target \in Targets /\ inReq.file \in Files
      BY <1>8 DEF InsertRows, StepFits, At
    <2>2. inCopies' \in [Targets -> [Files -> Nat]] /\ inReq' \in IngestRequest
      BY <1>8, <2>1 DEF InsertRows, Goes, IngestRequest
    <2> QED
      BY <1>8, <2>2 DEF InsertRows
  <1>9. CASE Answer
    <2>1. inReq.target \in Targets /\ inReq.file \in Files /\ inReq.mode \in Modes
      BY <1>9 DEF Answer, StepFits, At, IngestRequest
    <2>2. inDone' \subseteq [file : Files, target : Targets, mode : Modes]
      BY <1>9, <2>1 DEF Answer
    <2> QED
      BY <1>9, <2>1, <2>2, TableTypes DEF Answer
  <1>10. CASE Fail
    <2>1. inReq.file \in Files
      BY <1>10 DEF Fail, StepFits
    <2> QED
      BY <1>10, <2>1, TableTypes DEF Fail
  <1>11. CASE Refuse
    BY <1>11, TableTypes DEF Refuse
  <1>12. CASE UNCHANGED ingestVars
    BY <1>12 DEF ingestVars
  <1> QED
    BY <1>1, <1>2, <1>3, <1>4, <1>5, <1>6, <1>7, <1>8, <1>9, <1>10, <1>11, <1>12 DEF IngestNext, Splits

LEMMA StepFitsStep == IngestTypes /\ StepFits /\ DoneStays /\ [IngestNext]_ingestVars => StepFits'
  <1> SUFFICES ASSUME IngestTypes, StepFits, DoneStays, [IngestNext]_ingestVars PROVE StepFits'
    OBVIOUS
  <1>q. inReq \in IngestRequest /\ inTable \in [Targets -> Table] /\ inCopies \in [Targets -> [Files -> Nat]]
    BY DEF IngestTypes
  <1>1. ASSUME NEW f \in Files, Preview(f) PROVE StepFits'
    BY <1>1 DEF Preview, StepFits, At
  <1>2. ASSUME NEW f \in Files, NEW t \in Targets, NEW mode \in {"overwrite", "append"}, NEW split \in Splits, Commit(f, t, mode, split)
        PROVE  StepFits'
    BY <1>2 DEF Commit, StepFits, At, Complete
  <1>3. CASE WriteDelta
    <2>1. inReq.target \in Targets \ Postgres /\ inReq.file \in inUploads /\ inReq.file \in Files
      BY <1>3 DEF WriteDelta, StepFits, At, IngestTypes
    <2>2. inReq' = [inReq EXCEPT !.at = "verify"] /\ inTable' = [inTable EXCEPT ![inReq.target].there = TRUE] /\ inUploads' = inUploads
      BY <1>3 DEF WriteDelta, Goes
    <2>3. inTable'[inReq.target].there /\ inTable'[inReq.target].split = "none"
      BY <1>q, <2>1, <2>2 DEF Table, DoneStays
    <2>4. inCopies'[inReq.target][inReq.file] > 0
      <3>1. \/ inCopies' = [inCopies EXCEPT ![inReq.target][inReq.file] = @ + 1]
            \/ inCopies' = [inCopies EXCEPT ![inReq.target] = [NoCopies EXCEPT ![inReq.file] = 1]]
        BY <1>3 DEF WriteDelta
      <3>2. [NoCopies EXCEPT ![inReq.file] = 1][inReq.file] = 1
        BY <2>1, TableTypes
      <3>3. ASSUME inCopies' = [inCopies EXCEPT ![inReq.target][inReq.file] = @ + 1] PROVE inCopies'[inReq.target][inReq.file] > 0
        BY <1>q, <2>1, <3>3
      <3>4. ASSUME inCopies' = [inCopies EXCEPT ![inReq.target] = [NoCopies EXCEPT ![inReq.file] = 1]]
            PROVE  inCopies'[inReq.target][inReq.file] > 0
        <4>1. inCopies'[inReq.target] = [NoCopies EXCEPT ![inReq.file] = 1]
          BY <1>q, <2>1, <3>4
        <4> QED
          BY <3>2, <4>1
      <3> QED
        BY <3>1, <3>3, <3>4
    <2> QED
      BY <1>q, <2>1, <2>2, <2>3, <2>4 DEF StepFits, At, Complete, IngestRequest
  <1>4. CASE DropTable
    <2>1. inReq.target \in Targets /\ inReq.target \in Postgres /\ inReq.file \in inUploads
      BY <1>4 DEF DropTable, StepFits, At
    <2>2. inReq' = [inReq EXCEPT !.at = "create"] /\ inTable' = [inTable EXCEPT ![inReq.target] = NoTable] /\ inUploads' = inUploads
      BY <1>4 DEF DropTable, Goes
    <2>3. ~inTable'[inReq.target].there
      BY <1>q, <2>1, <2>2, TableTypes
    <2> QED
      BY <1>q, <2>1, <2>2, <2>3 DEF StepFits, At, IngestRequest
  <1>5. CASE CreateTable
    <2> DEFINE t == inReq.target
    <2>1. t \in Targets /\ t \in Postgres /\ inReq.file \in inUploads /\ (inReq.mode = "overwrite" => ~inTable[t].there)
      BY <1>5 DEF CreateTable, StepFits, At
    <2>2. /\ inTable' = IF inTable[t].there THEN inTable
                        ELSE [inTable EXCEPT ![t] = [NoTable EXCEPT !.there = TRUE, !.split = inReq.split]]
          /\ inUploads' = inUploads
      BY <1>5 DEF CreateTable
    <2>3. inTable'[t].there /\ (~inTable[t].there => inTable'[t].split = inReq.split)
      BY <1>q, <2>1, <2>2, TableTypes DEF Table
    <2>4. CASE inReq.split = "none"
      <3>1. inReq' = [inReq EXCEPT !.at = "insert"]
        BY <1>5, <2>4 DEF CreateTable, Goes
      <3>2. inReq'.at = "insert" /\ inReq'.file = inReq.file /\ inReq'.target = t /\ inReq'.mode = inReq.mode
        BY <1>q, <3>1 DEF IngestRequest
      <3>3. inReq.mode = "overwrite" => inTable'[t].there /\ inTable'[t].split = "none"
        BY <2>1, <2>3, <2>4
      <3> QED
        BY <2>1, <2>2, <3>2, <3>3 DEF StepFits, At, Complete
    <2>5. CASE inReq.split # "none"
      <3>1. PICK kids : inReq' = [inReq EXCEPT !.at = "kids", !.todo = kids]
        BY <1>5, <2>5 DEF CreateTable
      <3>2. inReq'.at = "kids" /\ inReq'.file = inReq.file /\ inReq'.target = t
        BY <1>q, <3>1 DEF IngestRequest
      <3> QED
        BY <2>1, <2>2, <2>3, <3>2 DEF StepFits, At
    <2> QED
      BY <2>4, <2>5
  <1>6. ASSUME NEW k \in inReq.todo, CreatePartition(k) PROVE StepFits'
    <2>1. /\ inReq.target \in Targets /\ inReq.target \in Postgres /\ inReq.file \in inUploads
          /\ inTable[inReq.target].there /\ inReq.at = "kids"
      BY <1>6 DEF CreatePartition, StepFits, At
    <2>2. /\ inReq' = [inReq EXCEPT !.todo = @ \ {k}] /\ inUploads' = inUploads
          /\ inTable' = inTable \/ inTable' = [inTable EXCEPT ![inReq.target].kids = @ \cup {k}]
      BY <1>6 DEF CreatePartition
    <2>3. inReq'.at = "kids" /\ inReq'.file = inReq.file /\ inReq'.target = inReq.target
      BY <1>q, <2>1, <2>2 DEF IngestRequest
    <2>4. inTable'[inReq.target].there
      BY <1>q, <2>1, <2>2 DEF Table
    <2> QED
      BY <2>1, <2>2, <2>3, <2>4 DEF StepFits, At
  <1>7. CASE CreateDefault
    <2>1. /\ inReq.target \in Targets /\ inReq.target \in Postgres /\ inReq.file \in inUploads /\ inTable[inReq.target].there
      BY <1>7 DEF CreateDefault, StepFits, At
    <2>2. /\ inReq' = [inReq EXCEPT !.at = "insert"] /\ inUploads' = inUploads
          /\ \/ DefaultName \in TakenNames[inReq.target] /\ inTable' = inTable
             \/ inTable' = [inTable EXCEPT ![inReq.target].default = TRUE]
      BY <1>7 DEF CreateDefault, Goes
    <2>3. inTable'[inReq.target].there /\ (inTable'[inReq.target].default \/ DefaultName \in TakenNames[inReq.target])
      BY <1>q, <2>1, <2>2 DEF Table
    <2> QED
      BY <1>q, <2>1, <2>2, <2>3 DEF StepFits, At, Complete, IngestRequest
  <1>8. CASE InsertRows
    <2>1. /\ inReq.target \in Targets /\ inReq.file \in inUploads /\ inReq.file \in Files
          /\ (inReq.mode = "overwrite" => Complete(inReq.target))
      BY <1>8 DEF InsertRows, StepFits, At, IngestTypes
    <2>2. /\ inReq' = [inReq EXCEPT !.at = "verify"] /\ UNCHANGED <<inTable, inUploads>>
          /\ inCopies' = [inCopies EXCEPT ![inReq.target][inReq.file] = @ + 1]
      BY <1>8 DEF InsertRows, Goes
    <2>3. inCopies'[inReq.target][inReq.file] > 0
      BY <1>q, <2>1, <2>2
    <2> QED
      BY <1>q, <2>1, <2>2, <2>3 DEF StepFits, At, Complete, IngestRequest
  <1>9. CASE Answer \/ Fail \/ Refuse
    BY <1>9 DEF Answer, Fail, Refuse, StepFits, At, NoRequest
  <1>10. CASE UNCHANGED ingestVars
    BY <1>10 DEF ingestVars, StepFits, At, Complete
  <1> QED
    BY <1>1, <1>2, <1>3, <1>4, <1>5, <1>6, <1>7, <1>8, <1>9, <1>10 DEF IngestNext, Splits

\* What a step does to tables and copies leaves the answered ones there.
LEMMA DoneStep == IngestTypes /\ StepFits /\ DoneStays /\ [IngestNext]_ingestVars => DoneStays'
  <1> SUFFICES ASSUME IngestTypes, StepFits, DoneStays, [IngestNext]_ingestVars PROVE DoneStays'
    OBVIOUS
  <1>q. /\ inReq \in IngestRequest /\ inTable \in [Targets -> Table] /\ inCopies \in [Targets -> [Files -> Nat]]
        /\ \A d \in inDone : d.file \in Files /\ d.target \in Targets
    BY DEF IngestTypes
  <1>1. ASSUME UNCHANGED <<inTable, inCopies, inDone>> PROVE DoneStays'
    BY <1>1 DEF DoneStays, Complete
  <1>2. (\E f \in Files : Preview(f)) \/ Fail \/ Refuse \/ UNCHANGED ingestVars => UNCHANGED <<inTable, inCopies, inDone>>
    BY DEF Preview, Fail, Refuse, ingestVars
  <1>3. ASSUME NEW f, NEW t, NEW mode, NEW split, Commit(f, t, mode, split) PROVE UNCHANGED <<inTable, inCopies, inDone>>
    BY <1>3 DEF Commit
  <1>4. CASE WriteDelta
    <2> DEFINE t == inReq.target
    <2>1. t \in Targets /\ inReq.file \in Files
      BY <1>4 DEF WriteDelta, StepFits, At, IngestTypes
    <2>2. inTable' = [inTable EXCEPT ![t].there = TRUE]
      BY <1>4 DEF WriteDelta
    <2>3. /\ \A s \in Targets : inTable'[s].split = inTable[s].split /\ inTable'[s].default = inTable[s].default
          /\ \A s \in Targets : inTable[s].there => inTable'[s].there
      BY <1>q, <2>1, <2>2 DEF Table
    <2>4. inDone' \subseteq inDone /\ \A d \in inDone' : inCopies[d.target][d.file] > 0 => inCopies'[d.target][d.file] > 0
      <3>1. CASE inReq.mode = "append"
        <4>1. inCopies' = [inCopies EXCEPT ![t][inReq.file] = @ + 1] /\ inDone' = inDone
          BY <1>4, <3>1 DEF WriteDelta
        <4> QED
          BY <1>q, <2>1, <4>1
      <3>2. CASE inReq.mode # "append"
        <4>1. /\ inCopies' = [inCopies EXCEPT ![t] = [NoCopies EXCEPT ![inReq.file] = 1]]
              /\ inDone' = {d \in inDone : d.target # t}
          BY <1>4, <3>2 DEF WriteDelta
        <4> QED
          BY <1>q, <2>1, <4>1
      <3> QED
        BY <3>1, <3>2
    <2> QED
      BY <1>q, <2>3, <2>4 DEF DoneStays, Complete
  <1>5. CASE DropTable
    <2>1. /\ inTable' = [inTable EXCEPT ![inReq.target] = NoTable]
          /\ inCopies' = [inCopies EXCEPT ![inReq.target] = NoCopies]
          /\ inDone' = {d \in inDone : d.target # inReq.target}
      BY <1>5 DEF DropTable
    <2>2. \A s \in Targets : inTable'[s] = inTable[s] \/ inTable'[s].split = "none"
      BY <1>q, <2>1, TableTypes
    <2>3. \A d \in inDone' : d \in inDone /\ inTable'[d.target] = inTable[d.target] /\ inCopies'[d.target] = inCopies[d.target]
      BY <1>q, <2>1
    <2> QED
      BY <2>2, <2>3 DEF DoneStays, Complete
  <1>6. CASE CreateTable
    <2> DEFINE t == inReq.target
    <2>1. t \in Targets /\ t \in Postgres
      BY <1>6 DEF CreateTable, StepFits, At
    <2>2. /\ inTable' = IF inTable[t].there THEN inTable
                        ELSE [inTable EXCEPT ![t] = [NoTable EXCEPT !.there = TRUE, !.split = inReq.split]]
          /\ UNCHANGED <<inCopies, inDone>>
      BY <1>6 DEF CreateTable
    <2>3. \A s \in Targets : (s \notin Postgres \/ inTable[s].there) => inTable'[s] = inTable[s]
      BY <1>q, <2>1, <2>2
    <2> QED
      BY <1>q, <2>2, <2>3 DEF DoneStays, Complete
  <1>7. ASSUME NEW k \in inReq.todo, CreatePartition(k) PROVE DoneStays'
    <2>1. inReq.target \in Targets
      BY <1>7 DEF CreatePartition, StepFits, At
    <2>2. /\ inTable' = inTable \/ inTable' = [inTable EXCEPT ![inReq.target].kids = @ \cup {k}]
          /\ UNCHANGED <<inCopies, inDone>>
      BY <1>7 DEF CreatePartition
    <2>3. \A s \in Targets : /\ inTable'[s].split = inTable[s].split /\ inTable'[s].default = inTable[s].default
                             /\ inTable'[s].there = inTable[s].there
      BY <1>q, <2>1, <2>2 DEF Table
    <2> QED
      BY <1>q, <2>2, <2>3 DEF DoneStays, Complete
  <1>8. CASE CreateDefault
    <2>1. inReq.target \in Targets
      BY <1>8 DEF CreateDefault, StepFits, At
    <2>2. /\ inTable' = inTable \/ inTable' = [inTable EXCEPT ![inReq.target].default = TRUE]
          /\ UNCHANGED <<inCopies, inDone>>
      BY <1>8 DEF CreateDefault
    <2>3. \A s \in Targets : /\ inTable'[s].split = inTable[s].split /\ inTable'[s].there = inTable[s].there
                             /\ inTable[s].default => inTable'[s].default
      BY <1>q, <2>1, <2>2 DEF Table
    <2> QED
      BY <1>q, <2>2, <2>3 DEF DoneStays, Complete
  <1>9. CASE InsertRows
    <2>1. inReq.target \in Targets /\ inReq.file \in Files
      BY <1>9 DEF InsertRows, StepFits, At, IngestTypes
    <2>2. inCopies' = [inCopies EXCEPT ![inReq.target][inReq.file] = @ + 1] /\ UNCHANGED <<inTable, inDone>>
      BY <1>9 DEF InsertRows
    <2>3. \A d \in inDone : inCopies[d.target][d.file] > 0 => inCopies'[d.target][d.file] > 0
      BY <1>q, <2>1, <2>2
    <2> QED
      BY <2>2, <2>3 DEF DoneStays, Complete
  <1>10. CASE Answer
    <2> DEFINE d == [file |-> inReq.file, target |-> inReq.target, mode |-> inReq.mode]
    <2>1. inCopies[d.target][d.file] > 0 /\ (d.mode = "overwrite" => Complete(d.target))
      BY <1>10 DEF Answer, StepFits, At
    <2>2. inDone' = inDone \cup {d} /\ UNCHANGED <<inTable, inCopies>>
      BY <1>10 DEF Answer
    <2> QED
      BY <2>1, <2>2 DEF DoneStays, Complete
  <1> QED
    BY <1>1, <1>2, <1>3, <1>4, <1>5, <1>6, <1>7, <1>8, <1>9, <1>10 DEF IngestNext

-----------------------------------------------------------------------------
(* How often a file came to the tables. *)

LEMMA LandingsFinite ==
    ASSUME inCopies \in [Targets -> [Files -> Nat]], NEW f \in Files
    PROVE  IsFiniteSet(Landings(f)) /\ Cardinality(Landings(f)) \in Nat
  <1> DEFINE piece == [t \in Targets |-> {t} \X (1 .. inCopies[t][f])]
             pieces == {{t} \X (1 .. inCopies[t][f]) : t \in Targets}
  <1>1. piece \in Surjection(Targets, pieces)
    BY DEF Surjection
  <1>2. IsFiniteSet(Targets)
    BY IngestionAssumption
  <1>3. \A t \in Targets : IsFiniteSet({t} \X (1 .. inCopies[t][f]))
    <2> TAKE t \in Targets
    <2>1. inCopies[t][f] \in Nat
      OBVIOUS
    <2>2. IsFiniteSet({t})
      BY FS_Singleton
    <2>3. IsFiniteSet(1 .. inCopies[t][f])
      BY <2>1, FS_Interval
    <2> QED
      BY <2>2, <2>3, FS_Product
  <1>4. \A S \in pieces : IsFiniteSet(S)
    BY <1>3
  <1>5. Landings(f) = UNION pieces
    BY DEF Landings
  <1> HIDE DEF piece, pieces
  <1>6. IsFiniteSet(pieces)
    BY <1>1, <1>2, FS_Surjection
  <1>7. IsFiniteSet(UNION pieces)
    BY <1>4, <1>6, FS_UNION
  <1> QED
    BY <1>5, <1>7, FS_CardinalityType

\* One more landing, or none: the tables lose what they like.
LEMMA OneLanding ==
    ASSUME inCopies \in [Targets -> [Files -> Nat]], NEW f \in Files, NEW x, Landings(f)' \subseteq Landings(f) \cup {x}
    PROVE  Cardinality(Landings(f)') <= Cardinality(Landings(f)) + 1
  <1>1. IsFiniteSet(Landings(f)) /\ Cardinality(Landings(f)) \in Nat
    BY LandingsFinite
  <1> DEFINE L == Landings(f)
             more == L \cup {x}
  <1> HIDE DEF L
  <1>2. IsFiniteSet(L) /\ Cardinality(L) \in Nat
    BY <1>1 DEF L
  <1>3. IsFiniteSet(more) /\ (Cardinality(more) = Cardinality(L) \/ Cardinality(more) = Cardinality(L) + 1)
    BY <1>2, FS_AddElement
  <1>4. Landings(f)' \subseteq more
    BY DEF L
  <1> HIDE DEF more
  <1>5. IsFiniteSet(Landings(f)') /\ Cardinality(Landings(f)') <= Cardinality(more)
    BY <1>3, <1>4, FS_Subset
  <1>6. Cardinality(Landings(f)') \in Nat /\ Cardinality(more) \in Nat
    BY <1>3, <1>5, FS_CardinalityType
  <1> QED
    BY <1>2, <1>3, <1>5, <1>6 DEF L

LEMMA NoLanding ==
    ASSUME inCopies \in [Targets -> [Files -> Nat]], NEW f \in Files, Landings(f)' \subseteq Landings(f)
    PROVE  Cardinality(Landings(f)') <= Cardinality(Landings(f)) /\ Cardinality(Landings(f)') \in Nat
  <1>1. IsFiniteSet(Landings(f))
    BY LandingsFinite
  <1>2. IsFiniteSet(Landings(f)') /\ Cardinality(Landings(f)') <= Cardinality(Landings(f))
    BY <1>1, FS_Subset
  <1> QED
    BY <1>2, FS_CardinalityType

\* What a step takes to the tables: nothing, or the request's file to its target once.
LEMMA LandingsMove ==
    ASSUME IngestTypes, StepFits, [IngestNext]_ingestVars, NEW f \in Files
    PROVE  \/ Landings(f)' \subseteq Landings(f)
           \/ /\ (WriteDelta \/ InsertRows) /\ inReq.file = f
              /\ \E x : Landings(f)' \subseteq Landings(f) \cup {x}
  <1>q. inCopies \in [Targets -> [Files -> Nat]]
    BY DEF IngestTypes
  <1> DEFINE t == inReq.target
             one == [inCopies EXCEPT ![t][inReq.file] = @ + 1]
             only == [inCopies EXCEPT ![t] = [NoCopies EXCEPT ![inReq.file] = 1]]
  <1>1. CASE inCopies' = inCopies
    BY <1>1 DEF Landings
  <1>2. CASE DropTable
    <2>1. t \in Targets /\ inCopies' = [inCopies EXCEPT ![t] = NoCopies]
      BY <1>2 DEF DropTable, StepFits, At
    <2>2. \A s \in Targets : inCopies'[s][f] = inCopies[s][f] \/ inCopies'[s][f] = 0
      BY <1>q, <2>1 DEF NoCopies
    <2> QED
      BY <1>q, <2>2 DEF Landings
  <1>3. CASE WriteDelta \/ InsertRows
    <2>1. t \in Targets /\ inReq.file \in Files /\ (inCopies' = one \/ inCopies' = only)
      BY <1>3 DEF WriteDelta, InsertRows, StepFits, At, IngestTypes
    <2>2. CASE inReq.file = f
      <3>1. \A s \in Targets \ {t} : inCopies'[s][f] = inCopies[s][f]
        BY <1>q, <2>1
      <3>2. inCopies'[t][f] = inCopies[t][f] + 1 \/ inCopies'[t][f] = 1
        <4>1. CASE inCopies' = one
          BY <1>q, <2>1, <2>2, <4>1
        <4>2. CASE inCopies' = only
          <5>1. inCopies'[t] = [NoCopies EXCEPT ![inReq.file] = 1]
            BY <1>q, <2>1, <4>2
          <5> QED
            BY <2>2, <5>1 DEF NoCopies
        <4> QED
          BY <2>1, <4>1, <4>2
      <3>3. PICK n : n = inCopies'[t][f]
        OBVIOUS
      <3>4. \A i \in 1 .. n : i = n \/ i \in 1 .. inCopies[t][f]
        <4>1. PICK m \in Nat : m = inCopies[t][f]
          BY <1>q, <2>1, <2>2
        <4>2. n = m + 1 \/ n = 1
          BY <3>2, <3>3, <4>1
        <4>3. \A i \in 1 .. n : i = n \/ i \in 1 .. m
          BY <4>2
        <4> QED
          BY <4>1, <4>3
      <3>5. Landings(f)' \subseteq Landings(f) \cup {<<t, n>>}
        BY <3>1, <3>3, <3>4 DEF Landings
      <3> QED
        BY <1>3, <2>2, <3>5
    <2>3. CASE inReq.file # f
      <3>1. \A s \in Targets : inCopies'[s][f] = inCopies[s][f] \/ inCopies'[s][f] = 0
        <4>1. CASE inCopies' = one
          BY <1>q, <2>1, <2>3, <4>1
        <4>2. CASE inCopies' = only
          <5>1. inCopies'[t] = [NoCopies EXCEPT ![inReq.file] = 1] /\ \A s \in Targets \ {t} : inCopies'[s] = inCopies[s]
            BY <1>q, <2>1, <4>2
          <5> QED
            BY <2>3, <5>1 DEF NoCopies
        <4> QED
          BY <2>1, <4>1, <4>2
      <3> QED
        BY <1>q, <3>1 DEF Landings
    <2> QED
      BY <2>2, <2>3
  <1>4. (\E g \in Files : Preview(g)) \/ CreateTable \/ CreateDefault \/ Answer \/ Fail \/ Refuse \/ UNCHANGED ingestVars
            => inCopies' = inCopies
    BY DEF Preview, CreateTable, CreateDefault, Answer, Fail, Refuse, ingestVars
  <1>5. \A g, s, mode, split : Commit(g, s, mode, split) => inCopies' = inCopies
    BY DEF Commit
  <1>6. \A k : CreatePartition(k) => inCopies' = inCopies
    BY DEF CreatePartition
  <1> QED
    BY <1>1, <1>2, <1>3, <1>4, <1>5, <1>6 DEF IngestNext

LEMMA LandingsStep == IngestInv /\ [IngestNext]_ingestVars => LandingsBound'
  <1> SUFFICES ASSUME IngestInv, [IngestNext]_ingestVars, NEW f \in Files
               PROVE  /\ Cardinality(Landings(f))' <= 1 + inAgain'[f]
                      /\ Waiting(f)' => Cardinality(Landings(f))' <= inAgain'[f]
    BY DEF LandingsBound
  <1>q. /\ inCopies \in [Targets -> [Files -> Nat]] /\ inReq \in IngestRequest /\ inAgain \in [Files -> Nat]
        /\ inUploads \subseteq Files /\ inFresh \subseteq Files \ inUploads /\ StepFits
    BY DEF IngestInv, IngestTypes
  <1>b. /\ Cardinality(Landings(f)) <= 1 + inAgain[f]
        /\ Waiting(f) => Cardinality(Landings(f)) <= inAgain[f]
    BY DEF IngestInv, LandingsBound
  <1>n. Cardinality(Landings(f)) \in Nat
    BY <1>q, LandingsFinite
  <1>1. CASE (WriteDelta \/ InsertRows) /\ inReq.file = f
    <2>1. inReq' = [inReq EXCEPT !.at = "verify"] /\ inAgain' = inAgain /\ ~At("idle") /\ ~At("verify")
      BY <1>1 DEF WriteDelta, InsertRows, Goes, At
    <2>2. At("verify")' /\ inReq'.file = f
      BY <1>q, <1>1, <2>1 DEF At, IngestRequest
    <2>3. Waiting(f)
      BY <1>1, <1>q, <2>1 DEF Waiting, StepFits
    <2>4. \E x : Landings(f)' \subseteq Landings(f) \cup {x}
      <3>1. CASE Landings(f)' \subseteq Landings(f)
        BY <3>1
      <3> QED
        BY <3>1, LandingsMove DEF IngestInv
    <2>5. Cardinality(Landings(f)') <= Cardinality(Landings(f)) + 1
      BY <1>q, <2>4, OneLanding
    <2>6. IsFiniteSet(Landings(f)')
      <3>1. PICK x : Landings(f)' \subseteq Landings(f) \cup {x}
        BY <2>4
      <3>2. IsFiniteSet(Landings(f))
        BY <1>q, LandingsFinite
      <3>3. IsFiniteSet(Landings(f) \cup {x})
        BY <3>2, FS_AddElement
      <3> QED
        BY <3>1, <3>3, FS_Subset
    <2>7. Cardinality(Landings(f)') \in Nat
      BY <2>6, FS_CardinalityType
    <2>8. inAgain[f] \in Nat
      BY <1>q
    <2> QED
      BY <1>b, <1>n, <2>1, <2>2, <2>3, <2>5, <2>7, <2>8 DEF Waiting
  <1>2. CASE ~((WriteDelta \/ InsertRows) /\ inReq.file = f)
    <2>1. Landings(f)' \subseteq Landings(f)
      BY <1>2, LandingsMove DEF IngestInv
    <2>2. Cardinality(Landings(f)') <= Cardinality(Landings(f)) /\ Cardinality(Landings(f)') \in Nat
      BY <1>q, <2>1, NoLanding
    <2>3. inAgain[f] \in Nat
      BY <1>q
    <2>4. ASSUME inAgain'[f] >= inAgain[f], Waiting(f)' => (Waiting(f) \/ inAgain'[f] = inAgain[f] + 1), inAgain'[f] \in Nat
          PROVE  /\ Cardinality(Landings(f))' <= 1 + inAgain'[f]
                 /\ Waiting(f)' => Cardinality(Landings(f))' <= inAgain'[f]
      BY <1>b, <1>n, <2>2, <2>3, <2>4
    <2>5. ASSUME inAgain' = inAgain, Waiting(f)' => Waiting(f)
          PROVE  /\ Cardinality(Landings(f))' <= 1 + inAgain'[f]
                 /\ Waiting(f)' => Cardinality(Landings(f))' <= inAgain'[f]
      BY <1>b, <1>n, <2>2, <2>3, <2>5
    <2>6. ASSUME NEW g \in Files, Preview(g) PROVE inAgain' = inAgain /\ (Waiting(f)' => Waiting(f))
      BY <2>6 DEF Preview, Waiting, At
    <2>7. ASSUME NEW g, NEW t, NEW mode, NEW split, Commit(g, t, mode, split) PROVE inAgain' = inAgain /\ (Waiting(f)' => Waiting(f))
      BY <2>7 DEF Commit, Waiting, At
    <2>8. ASSUME WriteDelta \/ InsertRows PROVE inAgain' = inAgain /\ (Waiting(f)' => Waiting(f))
      BY <1>2, <2>8 DEF WriteDelta, InsertRows, Waiting, At
    <2>9. ASSUME DropTable \/ CreateTable \/ CreateDefault \/ (\E k \in inReq.todo : CreatePartition(k)) \/ Refuse \/ UNCHANGED ingestVars
          PROVE  inAgain' = inAgain /\ (Waiting(f)' => Waiting(f))
      <3>1. inAgain' = inAgain /\ UNCHANGED <<inFresh, inUploads>>
        BY <2>9 DEF DropTable, CreateTable, CreateDefault, CreatePartition, Refuse, ingestVars
      <3>2. inReq' = inReq \/ ~At("verify")
        BY <2>9 DEF DropTable, CreateTable, CreateDefault, CreatePartition, Refuse, ingestVars, At
      <3> QED
        BY <3>1, <3>2 DEF Waiting, At
    <2>10. ASSUME Answer \/ Fail
           PROVE inAgain'[f] >= inAgain[f] /\ (Waiting(f)' => (Waiting(f) \/ inAgain'[f] = inAgain[f] + 1)) /\ inAgain'[f] \in Nat
      <3>1. CASE Fail /\ ~At("verify")
        <4>1. inAgain' = inAgain /\ UNCHANGED <<inFresh, inUploads>>
          BY <3>1 DEF Fail
        <4> QED
          BY <2>3, <3>1, <4>1 DEF Waiting
      <3>2. CASE At("verify")
        <4>1. inReq.file \in inUploads /\ inReq.file \in Files
          BY <1>q, <3>2 DEF StepFits, At
        <4>2. \/ inAgain' = [inAgain EXCEPT ![inReq.file] = @ + 1] /\ inUploads' = inUploads /\ inFresh' = inFresh
              \/ inAgain' = inAgain /\ inUploads' = inUploads \ {inReq.file} /\ inFresh' = inFresh
          BY <2>10, <3>2 DEF Answer, Fail
        <4>3. CASE inReq.file = f
          <5>1. inAgain'[f] = inAgain[f] + 1 \/ (inAgain'[f] = inAgain[f] /\ ~Waiting(f)')
            BY <1>q, <4>1, <4>2, <4>3 DEF Waiting
          <5> QED
            BY <2>3, <5>1
        <4>4. CASE inReq.file # f
          <5>1. inAgain'[f] = inAgain[f] /\ (Waiting(f)' => Waiting(f))
            BY <1>q, <4>1, <4>2, <4>4 DEF Waiting
          <5> QED
            BY <2>3, <5>1
        <4> QED
          BY <4>3, <4>4
      <3> QED
        BY <2>10, <3>1, <3>2 DEF Answer
    <2> QED
      BY <2>4, <2>5, <2>6, <2>7, <2>8, <2>9, <2>10 DEF IngestNext
  <1> QED
    BY <1>1, <1>2

LEMMA IngestInit0 == IngestInit => IngestInv
  <1> SUFFICES ASSUME IngestInit PROVE IngestInv
    OBVIOUS
  <1>1. IngestTypes
    BY TableTypes DEF IngestInit, IngestTypes
  <1>2. StepFits /\ DoneStays
    BY DEF IngestInit, StepFits, At, NoRequest, DoneStays, NoTable
  <1>3. \A f \in Files : Landings(f) = {} /\ inAgain[f] = 0
    BY DEF IngestInit, Landings, NoCopies
  <1>4. Cardinality({}) = 0
    BY FS_EmptySet
  <1>5. LandingsBound
    BY <1>3, <1>4 DEF LandingsBound
  <1> QED
    BY <1>1, <1>2, <1>5 DEF IngestInv

LEMMA IngestStep == IngestInv /\ [IngestNext]_ingestVars => IngestInv'
  BY IngestTypesStep, StepFitsStep, DoneStep, LandingsStep DEF IngestInv

\* The rows of an upload are in the tables more than once only as often as a commit of it ended in an error
\* after they were in, or left the upload; what was answered is there and an overwritten table takes any
\* row unless another table has the name of its default partition: for any uploads, tables, partitions,
\* requests and errors.
THEOREM IngestsAreExplained == IngestSpec => []IngestsExplained
  <1>1. IngestInv => IngestsExplained
    BY DEF IngestInv, LandingsBound, DoneStays, Complete, IngestsExplained
  <1> QED
    BY IngestInit0, IngestStep, <1>1, PTL DEF IngestSpec

-----------------------------------------------------------------------------
(* Slices: of a scan's files, and of a partitioned table's months. *)

LEMMA EveryNumber ==
    ASSUME NEW P \in SUBSET Nat, 0 \in P, \A n \in P : n + 1 \in P
    PROVE  P = Nat
  <1> DEFINE Q == Nat \ P
  <1> SUFFICES ASSUME Q # {} PROVE FALSE
    OBVIOUS
  <1>1. PICK n \in Q : \A k \in Q : n <= k
    <2>1. Q \in SUBSET Nat
      OBVIOUS
    <2> HIDE DEF Q
    <2> QED
      BY <2>1, SmallestExists
  <1>2. n # 0 /\ n - 1 \in Nat /\ n - 1 \notin Q
    BY <1>1
  <1>3. n - 1 \in P /\ (n - 1) + 1 = n
    BY <1>2
  <1> QED
    BY <1>1, <1>3

LEMMA MoreTimes == ASSUME NEW a \in Nat, NEW b \in Nat, NEW s \in Nat, a <= b PROVE a * s <= b * s
  <1>1. PICK c \in Nat : b = a + c
    <2>1. b - a \in Nat /\ b = a + (b - a)
      OBVIOUS
    <2> QED
      BY <2>1
  <1>2. b * s = a * s + c * s
    BY <1>1
  <1>3. c * s \in Nat /\ a * s \in Nat
    OBVIOUS
  <1> QED
    BY <1>2, <1>3

LEMMA Quotient ==
    ASSUME NEW f \in Nat, NEW s \in Nat \ {0}
    PROVE  f \div s \in Nat /\ (f \div s) * s <= f /\ f < (f \div s + 1) * s
  OBVIOUS

LEMMA SliceSizeIsEnough ==
    ASSUME NEW files \in Nat, NEW workers \in Nat
    PROVE  /\ SliceSize(files, workers) \in Nat \ {0}
           /\ files <= (IF workers = 0 THEN 1 ELSE workers) * SliceSize(files, workers)
  <1>1. PICK w \in Nat \ {0} : w = IF workers = 0 THEN 1 ELSE workers
    OBVIOUS
  <1>2. files + w - 1 \in Nat
    OBVIOUS
  <1>3. PICK s \in Nat : s = (files + w - 1) \div w
    BY <1>2, Quotient
  <1>4. files + w - 1 < (s + 1) * w
    BY <1>2, <1>3, Quotient
  <1>5. (s + 1) * w = s * w + w /\ s * w = w * s /\ s * w \in Nat
    OBVIOUS
  <1>6. files <= w * s
    BY <1>4, <1>5
  <1>7. SliceSize(files, workers) = IF s = 0 THEN 1 ELSE s
    BY <1>1, <1>3 DEF SliceSize
  <1>8. s = 0 => files = 0
    BY <1>6
  <1> QED
    BY <1>1, <1>6, <1>7, <1>8

\* Every file of a scan is in one slice, which is a worker's, for any number of both
\* (execute_distributed_delta_scan).
THEOREM FilesAreShared ==
    ASSUME NEW files \in Nat, NEW workers \in Nat \ {0}
    PROVE  /\ \A f \in 0 .. files - 1 : \E i \in 0 .. workers - 1 : f \in Slice(files, workers, i)
           /\ \A i, j \in Nat : i # j => Slice(files, workers, i) \cap Slice(files, workers, j) = {}
  <1>1. PICK s \in Nat \ {0} : s = SliceSize(files, workers) /\ files <= workers * s
    BY SliceSizeIsEnough
  <1>2. ASSUME NEW f \in 0 .. files - 1 PROVE \E i \in 0 .. workers - 1 : f \in Slice(files, workers, i)
    <2>1. PICK i \in Nat : i * s <= f /\ f < (i + 1) * s
      <3>1. f \in Nat
        OBVIOUS
      <3> QED
        BY <3>1, Quotient
    <2>2. i < workers
      <3> SUFFICES ASSUME workers <= i PROVE FALSE
        OBVIOUS
      <3>1. workers * s <= i * s
        BY MoreTimes
      <3>2. workers * s \in Nat /\ i * s \in Nat
        OBVIOUS
      <3> QED
        BY <1>1, <2>1, <3>1, <3>2
    <2>3. f \in Slice(files, workers, i)
      BY <1>1, <2>1 DEF Slice
    <2> QED
      BY <2>2, <2>3
  <1>3. ASSUME NEW i \in Nat, NEW j \in Nat, i < j PROVE Slice(files, workers, i) \cap Slice(files, workers, j) = {}
    <2> SUFFICES ASSUME NEW f \in 0 .. files - 1, f < (i + 1) * s, j * s <= f PROVE FALSE
      BY <1>1 DEF Slice
    <2>1. (i + 1) * s <= j * s
      BY <1>3, MoreTimes
    <2>2. (i + 1) * s \in Nat /\ j * s \in Nat
      OBVIOUS
    <2> QED
      BY <2>1, <2>2
  <1>4. ASSUME NEW i \in Nat, NEW j \in Nat, i # j PROVE Slice(files, workers, i) \cap Slice(files, workers, j) = {}
    <2>1. CASE i < j
      BY <1>3, <2>1
    <2>2. CASE j < i
      BY <1>3, <2>2
    <2> QED
      BY <1>4, <2>1, <2>2
  <1> QED
    BY <1>2, <1>4

Months == Int \X (1 .. 12)

LEMMA NextIsNext ==
    ASSUME NEW x \in Months
    PROVE  MonthNumber(x) \in Int /\ NextMonth(x) \in Months /\ MonthNumber(NextMonth(x)) = MonthNumber(x) + 1
  BY DEF Months, MonthNumber, NextMonth

\* The months from one on.
MonthsFrom(from, n) ==
    {w \in [1 .. n -> Months] : /\ w = [k \in 1 .. n |-> IF k = 1 THEN from ELSE NextMonth(w[k - 1])]
                                /\ \A k \in 1 .. n : MonthNumber(w[k]) = MonthNumber(from) + k - 1}

LEMMA MonthsFollow ==
    ASSUME NEW from \in Months, NEW n \in Nat
    PROVE  MonthsFrom(from, n) # {}
  <1> DEFINE P == {k \in Nat : MonthsFrom(from, k) # {}}
  <1>1. 0 \in P
    <2> DEFINE w == [k \in 1 .. 0 |-> from]
    <2>1. w \in [1 .. 0 -> Months] /\ w = [k \in 1 .. 0 |-> IF k = 1 THEN from ELSE NextMonth(w[k - 1])]
      OBVIOUS
    <2> HIDE DEF w
    <2>2. w \in MonthsFrom(from, 0)
      BY <2>1 DEF MonthsFrom
    <2> QED
      BY <2>2
  <1>2. ASSUME NEW k \in P PROVE k + 1 \in P
    <2>1. k \in Nat
      OBVIOUS
    <2>2. PICK w : w \in MonthsFrom(from, k)
      OBVIOUS
    <2>3. /\ w \in [1 .. k -> Months] /\ w = [i \in 1 .. k |-> IF i = 1 THEN from ELSE NextMonth(w[i - 1])]
          /\ \A i \in 1 .. k : MonthNumber(w[i]) = MonthNumber(from) + i - 1
      BY <2>2 DEF MonthsFrom
    <2>4. PICK last : last = IF k = 0 THEN from ELSE NextMonth(w[k])
      OBVIOUS
    <2>5. last \in Months /\ MonthNumber(last) = MonthNumber(from) + k
      <3>1. CASE k = 0
        BY <2>4, <3>1, NextIsNext
      <3>2. CASE k # 0
        <4>1. k \in 1 .. k
          BY <2>1, <3>2
        <4>2. w[k] \in Months /\ MonthNumber(w[k]) = MonthNumber(from) + k - 1
          BY <2>3, <4>1
        <4> QED
          BY <2>1, <2>4, <3>2, <4>2, NextIsNext
      <3> QED
        BY <3>1, <3>2
    <2> DEFINE v == [i \in 1 .. k + 1 |-> IF i = k + 1 THEN last ELSE w[i]]
    <2>6. v \in [1 .. k + 1 -> Months] /\ v[k + 1] = last /\ \A i \in 1 .. k : v[i] = w[i]
      <3>1. k + 1 \in 1 .. k + 1 /\ \A i \in 1 .. k : i \in 1 .. k + 1 /\ i # k + 1
        BY <2>1
      <3>2. \A i \in 1 .. k + 1 : i # k + 1 => i \in 1 .. k
        BY <2>1
      <3>3. \A i \in 1 .. k + 1 : (IF i = k + 1 THEN last ELSE w[i]) \in Months
        BY <2>3, <2>5, <3>2
      <3> QED
        BY <3>1, <3>3
    <2>7. v = [i \in 1 .. k + 1 |-> v[i]]
      OBVIOUS
    <2> HIDE DEF v
    <2>8. ASSUME NEW i \in 1 .. k + 1
          PROVE  v[i] = (IF i = 1 THEN from ELSE NextMonth(v[i - 1])) /\ MonthNumber(v[i]) = MonthNumber(from) + i - 1
      <3>0. MonthNumber(from) \in Int
        BY NextIsNext
      <3>1. CASE i = k + 1
        <4>1. CASE k = 0
          BY <2>4, <2>5, <2>6, <3>0, <3>1, <4>1
        <4>2. CASE k # 0
          <5>1. i # 1 /\ i - 1 = k /\ k \in 1 .. k
            BY <2>1, <3>1, <4>2
          <5> QED
            BY <2>1, <2>4, <2>5, <2>6, <3>0, <3>1, <4>2, <5>1
        <4> QED
          BY <4>1, <4>2
      <3>2. CASE i \in 1 .. k
        <4>1. v[i] = w[i] /\ (i # 1 => i - 1 \in 1 .. k /\ v[i - 1] = w[i - 1])
          BY <2>1, <2>6, <3>2
        <4>2. w[i] = (IF i = 1 THEN from ELSE NextMonth(w[i - 1])) /\ MonthNumber(w[i]) = MonthNumber(from) + i - 1
          BY <2>3, <3>2
        <4> QED
          BY <4>1, <4>2
      <3> QED
        BY <2>1, <3>1, <3>2
    <2>9. v = [i \in 1 .. k + 1 |-> IF i = 1 THEN from ELSE NextMonth(v[i - 1])]
      BY <2>7, <2>8
    <2>10. v \in MonthsFrom(from, k + 1)
      BY <2>6, <2>8, <2>9 DEF MonthsFrom
    <2> QED
      BY <2>1, <2>10
  <1>3. P = Nat
    <2>1. P \in SUBSET Nat
      OBVIOUS
    <2> HIDE DEF P
    <2> QED
      BY <1>1, <1>2, <2>1, EveryNumber
  <1> QED
    BY <1>3

\* A partitioned table gets a partition for each month from its first row's to its last one's, until the cap, over
\* year ends and for any dates (generate_monthly_slices).
THEOREM MonthsAreSliced ==
    ASSUME NEW from \in Months, NEW to \in Months, NEW cap \in Nat \ {0}, MonthNumber(from) <= MonthNumber(to)
    PROVE  {MonthNumber(x) : x \in Slices(from, to, cap)} = MonthlySlices({MonthNumber(from), MonthNumber(to)}, cap)
  <1> DEFINE Says(w) == w = [k \in 1 .. cap |-> IF k = 1 THEN from ELSE NextMonth(w[k - 1])]
             walk == CHOOSE w : Says(w)
             Ends(k) == /\ k = cap \/ MonthNumber(NextMonth(walk[k])) > MonthNumber(to)
                        /\ \A j \in 1 .. k - 1 : MonthNumber(NextMonth(walk[j])) <= MonthNumber(to)
             last == CHOOSE k \in 1 .. cap : Ends(k)
  <1>1. Slices(from, to, cap) = {walk[k] : k \in 1 .. last}
    BY DEF Slices
  <1>2. \E w : Says(w)
    <2>1. PICK w : w \in MonthsFrom(from, cap)
      BY MonthsFollow
    <2> QED
      BY <2>1 DEF MonthsFrom
  <1>3. Says(walk)
    BY <1>2
  <1> HIDE DEF walk
  <1>4. PICK a, b \in Int : a = MonthNumber(from) /\ b = MonthNumber(to)
    BY NextIsNext
  <1>5. \A k \in 1 .. cap : walk[k] \in Months /\ MonthNumber(walk[k]) = a + k - 1
    <2> DEFINE P == {k \in Nat : k + 1 <= cap => walk[k + 1] \in Months /\ MonthNumber(walk[k + 1]) = a + k}
    <2>1. 0 \in P
      BY <1>3, <1>4
    <2>2. ASSUME NEW k \in P PROVE k + 1 \in P
      <3>1. k \in Nat
        OBVIOUS
      <3> SUFFICES ASSUME (k + 1) + 1 <= cap
                   PROVE  walk[(k + 1) + 1] \in Months /\ MonthNumber(walk[(k + 1) + 1]) = a + (k + 1)
        BY <3>1
      <3>2. (k + 1) + 1 \in 1 .. cap /\ (k + 1) + 1 # 1 /\ ((k + 1) + 1) - 1 = k + 1 /\ k + 1 <= cap
        BY <3>1
      <3>3. walk[(k + 1) + 1] = NextMonth(walk[k + 1])
        BY <1>3, <3>2
      <3>4. walk[k + 1] \in Months /\ MonthNumber(walk[k + 1]) = a + k
        BY <3>2
      <3> QED
        BY <3>1, <3>3, <3>4, NextIsNext
    <2>3. P = Nat
      <3>1. P \in SUBSET Nat
        OBVIOUS
      <3> HIDE DEF P
      <3> QED
        BY <2>1, <2>2, <3>1, EveryNumber
    <2> SUFFICES ASSUME NEW k \in 1 .. cap PROVE walk[k] \in Months /\ MonthNumber(walk[k]) = a + k - 1
      OBVIOUS
    <2>4. k - 1 \in Nat /\ (k - 1) + 1 = k /\ a + (k - 1) = a + k - 1 /\ k <= cap
      BY <1>4
    <2>5. k - 1 \in P
      <3> HIDE DEF P
      <3> QED
        BY <2>3, <2>4
    <2> QED
      BY <2>4, <2>5
  <1>6. \A k \in 1 .. cap : MonthNumber(NextMonth(walk[k])) = a + k
    <2> TAKE k \in 1 .. cap
    <2>1. walk[k] \in Months /\ MonthNumber(walk[k]) = a + k - 1
      BY <1>5
    <2> QED
      BY <2>1, NextIsNext
  <1> HIDE DEF Says
  <1>7. PICK n \in 1 .. cap : n = IF b - a + 1 < cap THEN b - a + 1 ELSE cap
    BY <1>4
  <1>8. \A k \in 1 .. cap : Ends(k) <=> (k = cap \/ a + k > b) /\ \A j \in 1 .. k - 1 : a + j <= b
    <2> TAKE k \in 1 .. cap
    <2>1. \A j \in 1 .. k - 1 : j \in 1 .. cap
      OBVIOUS
    <2> QED
      BY <1>4, <1>6, <2>1
  <1> HIDE DEF Ends
  <1>9. Ends(n)
    <2>1. (n = cap \/ a + n > b) /\ \A j \in 1 .. n - 1 : a + j <= b
      BY <1>4, <1>7
    <2> QED
      BY <1>8, <2>1
  <1>10. \A k \in 1 .. cap : Ends(k) => k = n
    <2> SUFFICES ASSUME NEW k \in 1 .. cap, Ends(k) PROVE k = n
      OBVIOUS
    <2>1. (k = cap \/ a + k > b) /\ \A j \in 1 .. k - 1 : a + j <= b
      BY <1>8
    <2>2. CASE k < n
      BY <1>4, <1>7, <2>1, <2>2
    <2>3. CASE k > n
      <3>1. n \in 1 .. k - 1
        BY <2>3
      <3>2. a + n <= b
        BY <2>1, <3>1
      <3> QED
        BY <1>4, <1>7, <2>3, <3>2
    <2> QED
      BY <2>2, <2>3
  <1>11. last = n
    BY <1>9, <1>10
  <1> HIDE DEF last
  <1>12. MonthlySlices({MonthNumber(from), MonthNumber(to)}, cap) = {m \in a .. b : m < a + cap}
    <2>1. Min({a, b}) = a /\ Max({a, b}) = b
      BY <1>4 DEF Min, Max
    <2> QED
      BY <1>4, <2>1 DEF MonthlySlices
  <1>13. {MonthNumber(x) : x \in Slices(from, to, cap)} = {a + k - 1 : k \in 1 .. n}
    <2>1. \A k \in 1 .. n : k \in 1 .. cap
      OBVIOUS
    <2>2. Slices(from, to, cap) = {walk[k] : k \in 1 .. n}
      BY <1>1, <1>11
    <2>3. \A k \in 1 .. n : MonthNumber(walk[k]) = a + k - 1
      BY <1>5, <2>1
    <2> QED
      BY <2>2, <2>3
  <1>14. {a + k - 1 : k \in 1 .. n} = {m \in a .. b : m < a + cap}
    <2>1. ASSUME NEW k \in 1 .. n PROVE a + k - 1 \in {m \in a .. b : m < a + cap}
      BY <1>4, <1>7
    <2>2. ASSUME NEW m \in a .. b, m < a + cap PROVE \E k \in 1 .. n : m = a + k - 1
      <3>1. m - a + 1 \in 1 .. n /\ m = a + (m - a + 1) - 1
        BY <1>4, <1>7, <2>2
      <3> QED
        BY <3>1
    <2> QED
      BY <2>1, <2>2
  <1> QED
    BY <1>12, <1>13, <1>14
===============================================================================
