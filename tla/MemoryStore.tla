---------------------------- MODULE MemoryStore ----------------------------
(***************************************************************************)
(* The memory documents of a workspace and their index (memory_store.go).  *)
(*                                                                         *)
(* Each memory is a file, agents/memories/TYPE/ID.fountain, or under       *)
(* archive/ once it is forgotten; memories.db holds a row for each and a   *)
(* full text search table.  An operation is a sequence of file writes and  *)
(* SQL statements, none in a transaction, and the process may be killed    *)
(* between any two of them.  SQLite's own statements are atomic and survive *)
(* a killed process; a file write is neither atomic nor undone.            *)
(*                                                                         *)
(* One type of memory is modelled, so a path is a tree (active or archive) *)
(* and an id.                                                              *)
(***************************************************************************)
EXTENDS Integers, FiniteSets

CONSTANTS
  Ids,      \* memory ids
  Texts,    \* what a memory says: its description, summary, tags and body
  NewConf,  \* confidences a saved document may have, in thousandths
  Faults,   \* what may fail: see AllFaults
  Crashes,  \* may the process be killed?
  MaxDoubt  \* bound: ids in doubt at a time

\* The embedder; the write of the file in Save; the statement that indexes it;
\* the search table's statements; Archive's rename; an UPDATE; the write of the
\* file in SetConfidence.
AllFaults == {"embed", "write", "index", "search", "move", "update", "mirror"}

\* A confidence of 0.5 lowered by 0.1 again and again, in floating point:
\* 0.4, 0.30000000000000004, 0.20000000000000004, 0.10000000000000003, 2.8e-17,
\* 0.  The remainder is written as one thousandth more.
Confs == {500, 400, 301, 201, 101, 1, 0}

ASSUME ConstantsOK ==
  /\ NewConf \subseteq Confs \ {0}
  /\ Faults \subseteq AllFaults
  /\ Crashes \in BOOLEAN
  /\ MaxDoubt \in Nat

VARIABLES
  active,   \* the file of each id under its type directory
  archive,  \* the ids with a file under archive/ that parses
  rows,     \* the row of each id in the table memories
  search,   \* the rows of memories_fts, as pairs of an id and a text
  op,       \* the operation under way
  held,     \* what the operations that returned without error have promised
  doubt     \* the ids whose last operation was cut short; see below

storeVars == <<active, archive, rows, search, op, held, doubt>>

Doc == [text : Texts, conf : Confs]
NoDoc == [none |-> TRUE]          \* no file, no row
Torn == [torn |-> TRUE]           \* a file ParseMemoryDoc refuses
File == Doc \cup {NoDoc, Torn}
Row == [doc : Doc, archived : BOOLEAN]

\* Where an operation can be. "down": no process. "idle": the last one returned,
\* op.ok telling whether it did without error.
Saving == {"write", "index", "insert"}
Archiving == {"move", "update", "delete"}
Flagging == {"lower", "mirror"}
Places == {"down", "idle", "rebuild"} \cup Saving \cup Archiving \cup Flagging

\* old: the file Save found at its path.  flagged: the archiving is part of a flag.
Op == [at : Places, id : Ids \cup {NoDoc}, doc : File, old : File,
       flagged : BOOLEAN, ok : BOOLEAN]

Done(ok) == [at |-> "idle", id |-> NoDoc, doc |-> NoDoc, old |-> NoDoc,
             flagged |-> FALSE, ok |-> ok]
Down == [Done(FALSE) EXCEPT !.at = "down"]
Begin(at, id, doc) == [Done(FALSE) EXCEPT !.at = at, !.id = id, !.doc = doc]

-----------------------------------------------------------------------------
(* Reading.                                                                *)

Active(id) == rows[id] # NoDoc /\ ~rows[id].archived

\* ParseMemoryDoc: a confidence of zero is not in the file and reads as 0.5.
AsRead(doc) == [doc EXCEPT !.conf = IF @ = 0 THEN 500 ELSE @]

\* ByID: the row's file is there and parses.
Readable(id) ==
  /\ rows[id] # NoDoc
  /\ IF rows[id].archived THEN id \in archive ELSE active[id] \in Doc

Lowered == [c \in Confs |-> CASE c = 500 -> 400 [] c = 400 -> 301 [] c = 301 -> 201
                              [] c = 201 -> 101 [] c = 101 -> 1 [] OTHER -> 0]

SearchWithout(id) == {e \in search : e[1] # id}

-----------------------------------------------------------------------------
Init ==
  /\ active = [id \in Ids |-> NoDoc]
  /\ archive = {}
  /\ rows = [id \in Ids |-> NoDoc]
  /\ search = {}
  /\ op = Down
  /\ held = [id \in Ids |-> NoDoc]
  /\ doubt = {}

Fails(fault) == fault \in Faults

\* Nothing is promised any more of these ids until an operation on them returns.
IsInDoubt(ids) ==
  /\ doubt' = doubt \cup ids
  /\ Cardinality(doubt \cup ids) <= MaxDoubt
  /\ held' = [id \in Ids |-> IF id \in ids THEN NoDoc ELSE held[id]]

\* The operation returns an error and nothing it did is left.
Refused ==
  /\ op' = Done(FALSE)
  /\ UNCHANGED <<active, archive, rows, search, held, doubt>>

\* The operation returns an error and leaves what it did to the tables and the
\* archive.
GivesUp ==
  /\ op' = Done(FALSE)
  /\ IsInDoubt({op.id})
  /\ UNCHANGED <<archive, rows, search>>

-----------------------------------------------------------------------------
(* Save: the embedding, the file, the row, the search table.               *)

Save(id, doc) ==
  /\ op.at = "idle"
  /\ op' \in {Begin("write", id, doc)} \cup (IF Fails("embed") THEN {Done(FALSE)} ELSE {})
  /\ UNCHANGED <<active, archive, rows, search, held, doubt>>

SaveFile ==
  /\ op.at = "write"
  /\ \/ /\ active' = [active EXCEPT ![op.id] = op.doc]
        /\ op' = [op EXCEPT !.at = "index", !.old = active[op.id]]
        /\ UNCHANGED <<archive, rows, search, held, doubt>>
     \/ /\ Fails("write")
        /\ active' = [active EXCEPT ![op.id] = Torn]
        /\ GivesUp
     \/ Fails("write") /\ Refused

\* Variant: a failed statement leaves the new file.
SaveRowWithoutRestore ==
  /\ op.at = "index"
  /\ \/ /\ rows' = [rows EXCEPT ![op.id] = [doc |-> op.doc, archived |-> FALSE]]
        /\ op' = [op EXCEPT !.at = "insert"]
        /\ UNCHANGED active
     \/ /\ Fails("index")
        /\ op' = Done(FALSE)
        /\ UNCHANGED <<active, rows>>
  /\ UNCHANGED <<archive, search, held, doubt>>

SaveRow ==
  /\ op.at = "index"
  /\ \/ /\ rows' = [rows EXCEPT ![op.id] = [doc |-> op.doc, archived |-> FALSE]]
        /\ op' = [op EXCEPT !.at = "insert"]
        /\ UNCHANGED active
     \/ /\ Fails("index")
        /\ active' = [active EXCEPT ![op.id] = op.old]
        /\ op' = Done(FALSE)
        /\ UNCHANGED rows
  /\ UNCHANGED <<archive, search, held, doubt>>

\* The last statements of an operation: their errors are not looked at, and it
\* returns without one.
Finished(doc) ==
  /\ held' = [held EXCEPT ![op.id] = doc]
  /\ doubt' = doubt \ {op.id}

SaveSearch ==
  /\ op.at = "insert"
  /\ \/ /\ search' = SearchWithout(op.id) \cup {<<op.id, op.doc.text>>}
        /\ Finished(op.doc)
     \/ /\ Fails("search")
        /\ search' \in {search, SearchWithout(op.id), search \cup {<<op.id, op.doc.text>>}}
        /\ IsInDoubt({op.id})
  /\ op' = Done(TRUE)
  /\ UNCHANGED <<active, archive, rows>>

-----------------------------------------------------------------------------
(* Archive: the file is renamed into archive/, then the tables follow.     *)

Archive(id) ==
  /\ op.at = "idle"
  /\ op' = Begin("move", id, NoDoc)
  /\ UNCHANGED <<active, archive, rows, search, held, doubt>>

\* An archiving that a flag began is reported as done even when it failed.
Move ==
  /\ op.at = "move"
  /\ \/ /\ Readable(op.id) /\ active[op.id] # NoDoc
        /\ archive' = IF active[op.id] \in Doc THEN archive \cup {op.id} ELSE archive \ {op.id}
        /\ active' = [active EXCEPT ![op.id] = NoDoc]
        /\ op' = [op EXCEPT !.at = "update"]
        /\ UNCHANGED <<rows, search, held, doubt>>
     \/ /\ ~Readable(op.id) \/ active[op.id] = NoDoc \/ Fails("move")
        /\ IF op.flagged THEN GivesUp /\ UNCHANGED active ELSE Refused

UpdateRow ==
  /\ op.at = "update"
  /\ \/ /\ rows' = [rows EXCEPT ![op.id].archived = TRUE]
        /\ op' = [op EXCEPT !.at = "delete"]
        /\ UNCHANGED <<active, archive, search, held, doubt>>
     \/ Fails("update") /\ GivesUp /\ UNCHANGED active

ArchiveSearch ==
  /\ op.at = "delete"
  /\ \/ search' = SearchWithout(op.id) /\ Finished(NoDoc)
     \/ Fails("search") /\ IsInDoubt({op.id}) /\ UNCHANGED search
  /\ op' = Done(TRUE)
  /\ UNCHANGED <<active, archive, rows>>

-----------------------------------------------------------------------------
(* SetConfidence, as /memory flag calls it.                                *)

Flag(id) ==
  /\ op.at = "idle"
  /\ op' = IF Active(id) THEN Begin("lower", id, NoDoc) ELSE Done(FALSE)
  /\ UNCHANGED <<active, archive, rows, search, held, doubt>>

Lower ==
  /\ op.at = "lower"
  /\ \/ /\ rows' = [rows EXCEPT ![op.id].doc.conf = Lowered[@]]
        /\ op' = [op EXCEPT !.at = "mirror"]
        /\ UNCHANGED <<active, archive, search, held, doubt>>
     \/ Fails("update") /\ Refused

\* The document in the active row's file with the row's confidence.
Mirrored(id) == [active[id] EXCEPT !.conf = rows[id].doc.conf]

\* The memory is archived at or below 0.2.
AfterMirror ==
  op' = IF rows[op.id].doc.conf <= 200
        THEN [op EXCEPT !.at = "move", !.flagged = TRUE]
        ELSE Done(TRUE)

\* The confidence the flag has promised.
Flagged(id) ==
  IF held[id] = NoDoc THEN held ELSE [held EXCEPT ![id].conf = rows[id].doc.conf]

\* A file that cannot be read is left alone, an error of the write is not looked at.
Mirror ==
  /\ op.at = "mirror"
  /\ AfterMirror
  /\ \/ /\ Readable(op.id)
        /\ active' = [active EXCEPT ![op.id] = Mirrored(op.id)]
        /\ held' = Flagged(op.id)
        /\ UNCHANGED doubt
     \/ /\ Readable(op.id) /\ Fails("mirror")
        /\ active' \in {active, [active EXCEPT ![op.id] = Torn]}
        /\ IsInDoubt({op.id})
     \/ /\ ~Readable(op.id)
        /\ IsInDoubt({op.id})
        /\ UNCHANGED active
  /\ UNCHANGED <<archive, rows, search>>

-----------------------------------------------------------------------------
(* NewMemoryStore.  The index is rebuilt from the files if it has no row,  *)
(* one file at a time.                                                     *)

Empty == \A id \in Ids : rows[id] = NoDoc

Open ==
  /\ op.at = "down"
  /\ op' = IF Empty THEN [Down EXCEPT !.at = "rebuild"] ELSE Done(TRUE)
  /\ UNCHANGED <<active, archive, rows, search, held, doubt>>

ToIndex == {id \in Ids : active[id] \in Doc /\ rows[id] = NoDoc}

RowOf(doc) == [doc |-> AsRead(doc), archived |-> FALSE]

RebuildOne(id) ==
  /\ op.at = "rebuild"
  /\ rows' = [rows EXCEPT ![id] = RowOf(active[id])]
  /\ search' = search \cup {<<id, active[id].text>>}
  /\ UNCHANGED <<active, archive, op, held, doubt>>

Rebuilt ==
  /\ op.at = "rebuild"
  /\ ToIndex = {}
  /\ op' = Done(TRUE)
  /\ UNCHANGED <<active, archive, rows, search, held, doubt>>

Close ==
  /\ op.at = "idle"
  /\ op' = Down
  /\ UNCHANGED <<active, archive, rows, search, held, doubt>>

-----------------------------------------------------------------------------
(* What happens to the process and its files from outside.                 *)

\* A write that was under way: not begun, done, or cut short.
Cut(id, doc) == {active, [active EXCEPT ![id] = doc], [active EXCEPT ![id] = Torn]}

\* The ids an operation still had work to do for.
InFlight == CASE op.at = "idle"    -> {}
              [] op.at = "rebuild" -> ToIndex
              [] OTHER             -> {op.id}

Crash ==
  /\ Crashes
  /\ op.at # "down"
  /\ op' = Down
  /\ IsInDoubt(InFlight)
  /\ active' \in CASE op.at = "write" -> Cut(op.id, op.doc)
                   [] op.at = "mirror" /\ Readable(op.id) -> Cut(op.id, Mirrored(op.id))
                   [] OTHER -> {active}
  \* a row that was rebuilt and not yet its entry in the search table
  /\ rows' \in {rows} \cup (IF op.at = "rebuild"
                            THEN {[rows EXCEPT ![id] = RowOf(active[id])] : id \in ToIndex}
                            ELSE {})
  /\ UNCHANGED <<archive, search>>

\* memories.db is deleted.
DropDatabase ==
  /\ op.at = "down"
  /\ rows' = [id \in Ids |-> NoDoc]
  /\ search' = {}
  /\ UNCHANGED <<active, archive, op, held, doubt>>

-----------------------------------------------------------------------------
Commands ==
  \/ \E id \in Ids, text \in Texts, conf \in NewConf : Save(id, [text |-> text, conf |-> conf])
  \/ \E id \in Ids : Archive(id) \/ Flag(id)

Steps ==
  \/ SaveFile \/ SaveRow \/ SaveSearch
  \/ Move \/ UpdateRow \/ ArchiveSearch
  \/ Lower \/ Mirror
  \/ \E id \in ToIndex : RebuildOne(id)
  \/ Rebuilt

Next == Commands \/ Steps \/ Open \/ Close \/ Crash \/ DropDatabase

Spec == Init /\ [][Next]_storeVars

-----------------------------------------------------------------------------
(* Properties.                                                             *)

\* Every variable keeps its type.
StoreTypeOK ==
  /\ active \in [Ids -> File]
  /\ archive \subseteq Ids
  /\ rows \in [Ids -> Row \cup {NoDoc}]
  /\ search \subseteq Ids \X Texts
  /\ op \in Op
  /\ held \in [Ids -> Doc \cup {NoDoc}]
  /\ doubt \subseteq Ids

\* Between operations, of every id that is not in doubt, the file is what the
\* operations that returned without error have left: a memory saved and not
\* forgotten is in its file with its last confidence, one forgotten or refused is
\* not there. Of the files alone: this is what a deleted database is rebuilt from.
FilesHoldMemories ==
  op.at \in {"idle", "down"} => \A id \in Ids \ doubt : active[id] = held[id]

\* Between operations, of every id that is not in doubt, the tables say what the
\* file says: an active row exactly for a memory that is held, with its text and
\* confidence, and one entry of the search table.
IndexAgrees ==
  op.at = "idle" =>
    \A id \in Ids \ doubt :
      /\ Active(id) <=> held[id] # NoDoc
      /\ Active(id) => rows[id].doc = held[id]
      /\ {e \in search : e[1] = id} =
           IF held[id] # NoDoc THEN {<<id, held[id].text>>} ELSE {}

\* StoreAgrees: files and tables, two copies of the same memories, both are what the
\* operations left. So a recall, which goes by the tables and reads the files, finds
\* every memory and nothing that was forgotten, whatever was killed, refused or
\* rebuilt before (memory_store.go: "The .fountain files are the source of truth").
StoreAgrees == FilesHoldMemories /\ IndexAgrees
=============================================================================
