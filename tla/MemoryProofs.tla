---------------------------- MODULE MemoryProofs ----------------------------
(***************************************************************************)
(* Proofs about MemoryStore and MemoryMiner: of the store, for every set   *)
(* of ids and texts, every set of faults, with and without kills; of       *)
(* mining, that it is a use of the store, so that what is proved of the    *)
(* store holds of it, and that what its manifest says of a session is      *)
(* true, for every number of sessions, models and parts.                   *)
(***************************************************************************)
EXTENDS MemoryMiner, TLAPS

-----------------------------------------------------------------------------
(***************************************************************************)
(* The store.  Its properties speak of the moments between operations.     *)
(* StoreInv says in addition what holds of the operation under way at each *)
(* of its places (StepInv), and which of the promises it has broken for    *)
(* the moment (FilesInv, IndexInv).                                        *)
(***************************************************************************)

\* A document as it is saved: a confidence of zero is not in a file.
NewDoc == {d \in Doc : d.conf # 0}

Entries(id) == {e \in search : e[1] = id}

SearchAgrees(id) == Entries(id) = IF held[id] # NoDoc THEN {<<id, held[id].text>>} ELSE {}

\* What IndexAgrees says of one id.
Indexed(id) ==
  /\ Active(id) <=> held[id] # NoDoc
  /\ Active(id) => rows[id].doc = held[id]
  /\ SearchAgrees(id)

\* Of the operation under way, at each of its places.
StepInv ==
  /\ op.at \in Saving \cup Archiving \cup Flagging => op.id \in Ids
  /\ op.at \in Saving => op.doc \in NewDoc
  /\ op.at \in {"index", "insert"} => active[op.id] = op.doc
  /\ op.at = "index" /\ op.id \notin doubt => op.old = held[op.id]
  /\ op.at = "insert" => rows[op.id] = [doc |-> op.doc, archived |-> FALSE]
  /\ op.at \in Flagging => Active(op.id)
  /\ op.at \in {"update", "delete"} => rows[op.id] # NoDoc /\ active[op.id] = NoDoc
  /\ op.at = "delete" => rows[op.id].archived

\* A file differs from what is held only while an operation on it is half way.
FilesInvOf(id) ==
  \/ active[id] = held[id]
  \/ op.at \in {"index", "insert", "update", "delete"} /\ op.id = id
FilesInv == \A id \in Ids \ doubt : FilesInvOf(id)

\* A confidence of zero, which a rebuild would not read back, is held only while
\* the flag that lowered it is archiving the memory.
NotZero(id) == held[id] = NoDoc \/ held[id].conf # 0
ConfInvOf(id) == NotZero(id) \/ (op.at \in Archiving /\ op.flagged /\ op.id = id)
ConfInv == \A id \in Ids : ConfInvOf(id)

\* The search table has no entry of an id without a row.
SearchInv == \A e \in search : rows[e[1]] # NoDoc

\* The tables agree but for the id an operation is changing, and for an index that
\* is to be rebuilt.
IndexInvOf(id) ==
  \/ Indexed(id)
  \/ op.at \in {"insert", "delete"} /\ op.id = id
  \/ /\ op.at = "mirror" /\ op.id = id
     /\ held[id] # NoDoc /\ rows[id].doc.text = held[id].text
     /\ SearchAgrees(id)
  \/ op.at = "down" /\ Empty
  \/ op.at = "rebuild" /\ rows[id] = NoDoc
IndexInv == \A id \in Ids \ doubt : IndexInvOf(id)

StoreInv == StoreTypeOK /\ StepInv /\ FilesInv /\ ConfInv /\ SearchInv /\ IndexInv

-----------------------------------------------------------------------------
(* The values that are not documents are no documents.                     *)

LEMMA NoDocs ==
  /\ NoDoc \notin Doc /\ Torn \notin Doc
  /\ NoDoc # Torn /\ NoDoc \notin Row
<1>1. DOMAIN NoDoc = {"none"} /\ DOMAIN Torn = {"torn"}
  BY DEF NoDoc, Torn
<1>2. \A d \in Doc : DOMAIN d = {"text", "conf"}
  BY DEF Doc
<1>3. \A r \in Row : DOMAIN r = {"doc", "archived"}
  BY DEF Row
<1>4. "none" # "torn" /\ {"none"} # {"torn"} /\ "none" \notin {"text", "conf", "doc", "archived"}
      /\ "torn" \notin {"text", "conf"}
  OBVIOUS
<1> QED BY <1>1, <1>2, <1>3, <1>4

LEMMA Docs ==
  /\ \A d \in Doc : d.text \in Texts /\ d.conf \in Confs /\ d = [text |-> d.text, conf |-> d.conf]
  /\ \A t \in Texts, c \in Confs : [text |-> t, conf |-> c] \in Doc
  /\ \A d \in Doc, c \in Confs : /\ [d EXCEPT !.conf = c] \in Doc
                               /\ [d EXCEPT !.conf = c] = [text |-> d.text, conf |-> c]
BY DEF Doc

LEMMA Rows ==
  /\ \A r \in Row : r.doc \in Doc /\ r.archived \in BOOLEAN
  /\ \A d \in Doc : LET r == [doc |-> d, archived |-> FALSE]
                  IN r \in Row /\ r.doc = d /\ ~r.archived /\ r # NoDoc
<1>1. \A r \in Row : r.doc \in Doc /\ r.archived \in BOOLEAN
  BY DEF Row
<1>2. \A d \in Doc : LET r == [doc |-> d, archived |-> FALSE]
                  IN r \in Row /\ r.doc = d /\ ~r.archived
  BY DEF Row
<1> QED BY <1>1, <1>2, NoDocs

LEMMA Ops ==
  /\ \A o \in Op : /\ o.at \in Places /\ o.id \in Ids \cup {NoDoc} /\ o.doc \in File /\ o.old \in File
                 /\ o.flagged \in BOOLEAN /\ o.ok \in BOOLEAN
  /\ \A ok \in BOOLEAN : Done(ok) \in Op /\ Done(ok).at = "idle"
  /\ Down \in Op /\ Down.at = "down"
  /\ \A at \in Places, id \in Ids, doc \in File :
       LET o == Begin(at, id, doc)
       IN o \in Op /\ o.at = at /\ o.id = id /\ o.doc = doc /\ o.flagged = FALSE
<1>1. \A o \in Op : /\ o.at \in Places /\ o.id \in Ids \cup {NoDoc} /\ o.doc \in File /\ o.old \in File
                 /\ o.flagged \in BOOLEAN /\ o.ok \in BOOLEAN
  BY DEF Op
<1>2. NoDoc \in File /\ "idle" \in Places /\ "down" \in Places
  BY DEF File, Places
<1>3. \A ok \in BOOLEAN : Done(ok) \in Op /\ Done(ok).at = "idle"
  BY <1>2 DEF Done, Op
<1>4. Down \in Op /\ Down.at = "down"
  BY <1>2 DEF Done, Down, Op
<1>5. \A at \in Places, id \in Ids, doc \in File :
       LET o == Begin(at, id, doc)
       IN o \in Op /\ o.at = at /\ o.id = id /\ o.doc = doc /\ o.flagged = FALSE
  BY <1>2 DEF Done, Begin, Op
<1> QED BY <1>1, <1>3, <1>4, <1>5

LEMMA Lowers == \A c \in Confs : Lowered[c] \in Confs
BY DEF Confs, Lowered

-----------------------------------------------------------------------------
(* One step and one id.  An operation touches its own id; of the others    *)
(* everything agrees before and after.                                     *)

Settled(id) == NotZero(id) /\ (id \notin doubt => active[id] = held[id] /\ Indexed(id))

\* The step leaves id as it was; the id may leave doubt only if it is op.id.
Untouched(id) ==
  /\ active'[id] = active[id] /\ rows'[id] = rows[id] /\ held'[id] = held[id]
  /\ Entries(id)' = Entries(id)
  /\ id \in doubt => id \in doubt'

\* The parts of StoreInv about one id.
IdInv(id) == ConfInvOf(id) /\ (id \notin doubt => FilesInvOf(id) /\ IndexInvOf(id))

LEMMA ByIds == StoreInv <=> StoreTypeOK /\ StepInv /\ SearchInv /\ \A id \in Ids : IdInv(id)
BY DEF StoreInv, FilesInv, ConfInv, IndexInv, IdInv

LEMMA SettledIsEnough == \A id \in Ids : Settled(id) => IdInv(id)
BY DEF Settled, IdInv, ConfInvOf, FilesInvOf, IndexInvOf

LEMMA OthersSettled ==
  ASSUME StoreInv, op.at \in Saving \cup Archiving \cup Flagging,
         NEW id \in Ids, id # op.id
  PROVE  Settled(id)
BY DEF StoreInv, FilesInv, ConfInv, IndexInv, FilesInvOf, ConfInvOf, IndexInvOf, Settled,
       Saving, Archiving, Flagging

\* Before an operation has changed anything.
LEMMA AllSettled ==
  ASSUME StoreInv, op.at \in {"idle", "write", "lower"}, NEW id \in Ids
  PROVE  Settled(id)
BY DEF StoreInv, FilesInv, ConfInv, IndexInv, FilesInvOf, ConfInvOf, IndexInvOf, Settled, Archiving

LEMMA StaysSettled ==
  ASSUME NEW id \in Ids, Settled(id), Untouched(id)
  PROVE  Settled(id)'
BY DEF Settled, Untouched, NotZero, Indexed, Active, SearchAgrees

\* A step of an operation that leaves the other ids alone.
LEMMA OneId ==
  ASSUME StoreInv, op.at \in Saving \cup Archiving \cup Flagging,
         StoreTypeOK', StepInv', SearchInv',
         \A id \in Ids : IF id = op.id THEN IdInv(id)' ELSE Untouched(id)
  PROVE  StoreInv'
<1>1. \A id \in Ids \ {op.id} : Settled(id)'
  BY OthersSettled, StaysSettled
<1>2. (\A id \in Ids : Settled(id) => IdInv(id))'
  BY SettledIsEnough, PTL
<1>3. (StoreInv <=> StoreTypeOK /\ StepInv /\ SearchInv /\ \A id \in Ids : IdInv(id))'
  BY ByIds, PTL
<1> QED BY <1>1, <1>2, <1>3

\* A step that changes nothing but op when everything agrees.
LEMMA OnlyOp ==
  ASSUME StoreInv, \A id \in Ids : Settled(id),
         op' \in Op, StepInv',
         UNCHANGED <<active, archive, rows, search, held, doubt>>
  PROVE  StoreInv'
<1>1. \A id \in Ids : Untouched(id)
  BY DEF Untouched, Entries
<1>2. \A id \in Ids : Settled(id)'
  BY <1>1, StaysSettled
<1>3. StoreTypeOK' /\ SearchInv'
  BY DEF StoreInv, StoreTypeOK, SearchInv
<1>4. (\A id \in Ids : Settled(id) => IdInv(id))'
  BY SettledIsEnough, PTL
<1>5. (StoreInv <=> StoreTypeOK /\ StepInv /\ SearchInv /\ \A id \in Ids : IdInv(id))'
  BY ByIds, PTL
<1> QED BY <1>2, <1>3, <1>4, <1>5

\* An id that comes in doubt.
LEMMA InDoubt ==
  ASSUME StoreTypeOK, NEW x \in Ids, IsInDoubt({x})
  PROVE  /\ held' \in [Ids -> Doc \cup {NoDoc}] /\ doubt' \subseteq Ids
         /\ IdInv(x)'
         /\ \A id \in Ids \ {x} : held'[id] = held[id]
         /\ \A id \in Ids : id \in doubt => id \in doubt'
BY DEF IsInDoubt, StoreTypeOK, IdInv, ConfInvOf, NotZero

LEMMA SameSearch ==
  ASSUME search' = search, NEW id  PROVE Entries(id)' = Entries(id)
BY DEF Entries

LEMMA IdEntry ==
  ASSUME NEW x \in Ids, NEW t \in Texts, search \subseteq Ids \X Texts,
         search' = SearchWithout(x) \cup {<<x, t>>}
  PROVE  /\ search' \subseteq Ids \X Texts
         /\ Entries(x)' = {<<x, t>>}
         /\ \A id \in Ids \ {x} : Entries(id)' = Entries(id)
BY DEF SearchWithout, Entries

LEMMA NoEntry ==
  ASSUME NEW x \in Ids, search \subseteq Ids \X Texts, search' = SearchWithout(x)
  PROVE  /\ search' \subseteq Ids \X Texts
         /\ Entries(x)' = {}
         /\ \A id \in Ids \ {x} : Entries(id)' = Entries(id)
BY DEF SearchWithout, Entries

LEMMA MoreEntry ==
  ASSUME NEW x \in Ids, NEW t \in Texts, search \subseteq Ids \X Texts,
         search' = search \cup {<<x, t>>}
  PROVE  /\ search' \subseteq Ids \X Texts
         /\ Entries(x)' = Entries(x) \cup {<<x, t>>}
         /\ \A id \in Ids \ {x} : Entries(id)' = Entries(id)
BY DEF Entries

\* An operation that leaves its id in doubt.
LEMMA Doubtful ==
  ASSUME StoreInv, op.at \in Saving \cup Archiving \cup Flagging, IsInDoubt({op.id}),
         active' \in [Ids -> File], archive' = archive, rows' = rows,
         \A id \in Ids \ {op.id} : active'[id] = active[id] /\ Entries(id)' = Entries(id),
         search' \subseteq Ids \X Texts, SearchInv', op' \in Op, StepInv'
  PROVE  StoreInv'
<1>1. PICK x \in Ids : x = op.id
  BY DEF StoreInv, StepInv
<1>2. /\ held' \in [Ids -> Doc \cup {NoDoc}] /\ doubt' \subseteq Ids
      /\ IdInv(x)'
      /\ \A id \in Ids \ {x} : held'[id] = held[id]
      /\ \A id \in Ids : id \in doubt => id \in doubt'
  BY <1>1, InDoubt DEF StoreInv
<1>3. StoreTypeOK'
  BY <1>2 DEF StoreInv, StoreTypeOK
<1>4. \A id \in Ids \ {x} : Untouched(id)
  BY <1>1, <1>2 DEF Untouched
<1> QED BY <1>1, <1>2, <1>3, <1>4, OneId

LEMMA GivingUp ==
  ASSUME StoreInv, op.at \in Saving \cup Archiving \cup Flagging, GivesUp,
         active' = active \/ \E f \in File : active' = [active EXCEPT ![op.id] = f]
  PROVE  StoreInv'
<1>1. op' \in Op /\ op'.at = "idle"
  BY Ops DEF GivesUp
<1>2. StepInv'
  BY <1>1 DEF StepInv, Saving, Archiving, Flagging
<1>3. op.id \in Ids /\ active \in [Ids -> File] /\ search \subseteq Ids \X Texts /\ SearchInv
  BY DEF StoreInv, StepInv, StoreTypeOK
<1>4. active' \in [Ids -> File] /\ \A id \in Ids \ {op.id} : active'[id] = active[id]
  BY <1>3
<1>5. SearchInv' /\ \A id \in Ids : Entries(id)' = Entries(id)
  BY <1>3, SameSearch DEF GivesUp, SearchInv
<1> QED BY <1>1, <1>2, <1>3, <1>4, <1>5, Doubtful DEF GivesUp

LEMMA Refusing ==
  ASSUME StoreInv, \A id \in Ids : Settled(id), Refused
  PROVE  StoreInv'
<1>1. op' \in Op /\ op'.at = "idle"
  BY Ops DEF Refused
<1>2. StepInv'
  BY <1>1 DEF StepInv, Saving, Archiving, Flagging
<1> QED BY <1>1, <1>2, OnlyOp DEF Refused

-----------------------------------------------------------------------------
(* Save.                                                                   *)

LEMMA SaveFileStep == StoreInv /\ SaveFile => StoreInv'
<1> SUFFICES ASSUME StoreInv, SaveFile PROVE StoreInv'
  OBVIOUS
<1>0. StoreTypeOK /\ StepInv /\ SearchInv /\ op.at = "write"
  BY DEF StoreInv, SaveFile
<1>1. op \in Op /\ op.id \in Ids /\ op.doc \in NewDoc /\ op.doc \in File /\ active \in [Ids -> File]
  BY <1>0 DEF StoreTypeOK, StepInv, Saving, NewDoc, File
<1>2. Settled(op.id)
  BY <1>0, <1>1, AllSettled
<1>3. CASE /\ active' = [active EXCEPT ![op.id] = op.doc]
           /\ op' = [op EXCEPT !.at = "index", !.old = active[op.id]]
           /\ UNCHANGED <<archive, rows, search, held, doubt>>
  <2>1. op' \in Op /\ op'.at = "index" /\ op'.id = op.id /\ op'.doc = op.doc /\ op'.old = active[op.id]
    BY <1>1, <1>3 DEF Op, Places, Saving
  <2>2. active' \in [Ids -> File] /\ active'[op.id] = op.doc
        /\ \A id \in Ids \ {op.id} : active'[id] = active[id]
    BY <1>1, <1>3
  <2>3. StoreTypeOK' /\ SearchInv'
    BY <1>0, <1>3, <2>1, <2>2 DEF StoreTypeOK, SearchInv
  <2>4. StepInv'
    BY <1>1, <1>2, <1>3, <2>1, <2>2 DEF StepInv, Saving, Flagging, Settled
  <2>5. \A id \in Ids \ {op.id} : Untouched(id)
    BY <1>3, <2>2, SameSearch DEF Untouched
  <2>6. \A id \in Ids : id = op.id => IdInv(id)'
    BY <1>2, <1>3, <2>1, SameSearch
    DEF IdInv, Settled, ConfInvOf, NotZero, FilesInvOf, IndexInvOf, Indexed, Active, SearchAgrees
  <2> QED BY <1>0, <2>3, <2>4, <2>5, <2>6, OneId DEF Saving
<1>4. CASE active' = [active EXCEPT ![op.id] = Torn] /\ GivesUp
  BY <1>0, <1>4, GivingUp DEF File, Saving
<1>5. CASE Refused
  BY <1>0, <1>5, AllSettled, Refusing
<1> QED BY <1>3, <1>4, <1>5 DEF SaveFile

LEMMA SaveRowStep == StoreInv /\ SaveRow => StoreInv'
<1> SUFFICES ASSUME StoreInv, SaveRow PROVE StoreInv'
  OBVIOUS
<1>0. StoreTypeOK /\ StepInv /\ SearchInv /\ op.at = "index"
  BY DEF StoreInv, SaveRow
<1>1. op \in Op /\ op.id \in Ids /\ op.doc \in NewDoc /\ op.doc \in Doc /\ op.old \in File
      /\ active \in [Ids -> File] /\ rows \in [Ids -> Row \cup {NoDoc}]
  BY <1>0, Ops DEF StoreTypeOK, StepInv, Saving, NewDoc
<1>2. ConfInvOf(op.id) /\ (op.id \notin doubt => IndexInvOf(op.id) /\ op.old = held[op.id])
  BY <1>0, <1>1 DEF StoreInv, ConfInv, IndexInv, StepInv
<1>3. NotZero(op.id) /\ (op.id \notin doubt => Indexed(op.id))
  BY <1>0, <1>2 DEF ConfInvOf, IndexInvOf, Archiving
<1>4. CASE /\ rows' = [rows EXCEPT ![op.id] = [doc |-> op.doc, archived |-> FALSE]]
           /\ op' = [op EXCEPT !.at = "insert"]
           /\ UNCHANGED <<active, archive, search, held, doubt>>
  <2>1. op' \in Op /\ op'.at = "insert" /\ op'.id = op.id /\ op'.doc = op.doc
    BY <1>1, <1>4 DEF Op, Places, Saving
  <2>2. /\ rows' \in [Ids -> Row \cup {NoDoc}] /\ rows'[op.id] = [doc |-> op.doc, archived |-> FALSE]
        /\ \A id \in Ids \ {op.id} : rows'[id] = rows[id]
    BY <1>1, <1>4, Rows
  <2>3. StoreTypeOK'
    BY <1>0, <1>4, <2>1, <2>2 DEF StoreTypeOK
  <2>a. [doc |-> op.doc, archived |-> FALSE] # NoDoc
    BY <1>1, NoDocs, Rows
  <2>4. SearchInv'
    BY <1>0, <1>4, <2>2, <2>a DEF SearchInv, StoreTypeOK
  <2>5. StepInv'
    BY <1>0, <1>1, <1>4, <2>1, <2>2 DEF StepInv, Saving, Flagging
  <2>6. \A id \in Ids \ {op.id} : Untouched(id)
    BY <1>4, <2>2, SameSearch DEF Untouched
  <2>7. \A id \in Ids : id = op.id => IdInv(id)'
    BY <1>3, <1>4, <2>1 DEF IdInv, ConfInvOf, NotZero, FilesInvOf, IndexInvOf
  <2> QED BY <1>0, <2>3, <2>4, <2>5, <2>6, <2>7, OneId DEF Saving
<1>5. CASE /\ active' = [active EXCEPT ![op.id] = op.old]
           /\ op' = Done(FALSE)
           /\ UNCHANGED <<archive, rows, search, held, doubt>>
  <2>1. op' \in Op /\ op'.at = "idle"
    BY <1>5, Ops
  <2>2. /\ active' \in [Ids -> File] /\ active'[op.id] = op.old
        /\ \A id \in Ids \ {op.id} : active'[id] = active[id]
    BY <1>1, <1>5
  <2>3. StoreTypeOK' /\ SearchInv'
    BY <1>0, <1>5, <2>1, <2>2 DEF StoreTypeOK, SearchInv
  <2>4. StepInv'
    BY <2>1 DEF StepInv, Saving, Archiving, Flagging
  <2>5. \A id \in Ids \ {op.id} : Untouched(id)
    BY <1>5, <2>2, SameSearch DEF Untouched
  <2>6. \A id \in Ids : id = op.id => Settled(id)'
    BY <1>2, <1>3, <1>5, <2>2, SameSearch DEF Settled, NotZero, Indexed, Active, SearchAgrees
  <2>7. \A id \in Ids : id = op.id => IdInv(id)'
    BY <2>6 DEF Settled, IdInv, ConfInvOf, FilesInvOf, IndexInvOf
  <2> QED BY <1>0, <2>3, <2>4, <2>5, <2>7, OneId DEF Saving
<1> QED BY <1>4, <1>5 DEF SaveRow

LEMMA SaveSearchStep == StoreInv /\ SaveSearch => StoreInv'
<1> SUFFICES ASSUME StoreInv, SaveSearch PROVE StoreInv'
  OBVIOUS
<1>0. StoreTypeOK /\ StepInv /\ SearchInv /\ op.at = "insert"
  BY DEF StoreInv, SaveSearch
<1>1. /\ op.id \in Ids /\ op.doc \in Doc /\ op.doc.conf # 0
      /\ active[op.id] = op.doc /\ rows[op.id] = [doc |-> op.doc, archived |-> FALSE]
      /\ active \in [Ids -> File] /\ rows \in [Ids -> Row \cup {NoDoc}]
      /\ search \subseteq Ids \X Texts /\ held \in [Ids -> Doc \cup {NoDoc}]
  BY <1>0 DEF StoreTypeOK, StepInv, Saving, NewDoc
<1>2. op' \in Op /\ op'.at = "idle" /\ UNCHANGED <<active, archive, rows>>
  BY Ops DEF SaveSearch
<1>3. StepInv'
  BY <1>2 DEF StepInv, Saving, Archiving, Flagging
<1>a. rows[op.id] \in Row /\ rows[op.id].doc = op.doc /\ ~rows[op.id].archived
  BY <1>1, Rows
<1>4. op.doc.text \in Texts /\ op.doc # NoDoc /\ rows[op.id] # NoDoc
  BY <1>1, <1>a, Docs, NoDocs
<1>5. CASE search' = SearchWithout(op.id) \cup {<<op.id, op.doc.text>>} /\ Finished(op.doc)
  <2>1. /\ search' \subseteq Ids \X Texts
        /\ \A id \in Ids : id = op.id => Entries(id)' = {<<id, op.doc.text>>}
        /\ \A id \in Ids \ {op.id} : Entries(id)' = Entries(id)
    BY <1>1, <1>4, <1>5, IdEntry
  <2>2. /\ held' \in [Ids -> Doc \cup {NoDoc}] /\ held'[op.id] = op.doc /\ doubt' = doubt \ {op.id}
        /\ \A id \in Ids \ {op.id} : held'[id] = held[id]
    BY <1>1, <1>5 DEF Finished
  <2>3. StoreTypeOK'
    BY <1>0, <1>2, <2>1, <2>2 DEF StoreTypeOK
  <2>4. SearchInv'
    BY <1>0, <1>2, <1>4, <1>5 DEF SearchInv, SearchWithout
  <2>5. \A id \in Ids \ {op.id} : Untouched(id)
    BY <1>2, <2>1, <2>2 DEF Untouched
  <2>6. \A id \in Ids : id = op.id => Indexed(id)' /\ active'[id] = held'[id] /\ NotZero(id)'
    BY <1>1, <1>2, <1>a, <1>4, <2>1, <2>2 DEF Indexed, Active, SearchAgrees, NotZero
  <2>7. \A id \in Ids : id = op.id => IdInv(id)'
    BY <2>6 DEF IdInv, ConfInvOf, FilesInvOf, IndexInvOf
  <2> QED BY <1>0, <1>3, <2>3, <2>4, <2>5, <2>7, OneId DEF Saving
<1>6. CASE /\ search' \in {search, SearchWithout(op.id), search \cup {<<op.id, op.doc.text>>}}
           /\ IsInDoubt({op.id})
  <2>1. search' \subseteq Ids \X Texts /\ \A id \in Ids \ {op.id} : Entries(id)' = Entries(id)
    BY <1>1, <1>4, <1>6, SameSearch, NoEntry, MoreEntry
  <2>2. SearchInv'
    BY <1>0, <1>2, <1>4, <1>6 DEF SearchInv, SearchWithout
  <2>3. archive' = archive /\ rows' = rows /\ active' = active
    BY <1>2
  <2> QED BY <1>0, <1>1, <1>2, <1>3, <1>6, <2>1, <2>2, <2>3, Doubtful DEF Saving
<1> QED BY <1>5, <1>6 DEF SaveSearch

-----------------------------------------------------------------------------
(* Archive.                                                                *)

LEMMA MoveStep == StoreInv /\ Move => StoreInv'
<1> SUFFICES ASSUME StoreInv, Move PROVE StoreInv'
  OBVIOUS
<1>0. StoreTypeOK /\ StepInv /\ SearchInv /\ op.at = "move"
  BY DEF StoreInv, Move
<1>1. op \in Op /\ op.id \in Ids /\ active \in [Ids -> File] /\ op.flagged \in BOOLEAN
  BY <1>0, Ops DEF StoreTypeOK, StepInv, Archiving
<1>2. ConfInvOf(op.id) /\ (op.id \notin doubt => active[op.id] = held[op.id] /\ Indexed(op.id))
  BY <1>0, <1>1 DEF StoreInv, ConfInv, FilesInv, IndexInv, FilesInvOf, IndexInvOf
<1>3. CASE /\ Readable(op.id)
           /\ archive' = IF active[op.id] \in Doc THEN archive \cup {op.id} ELSE archive \ {op.id}
           /\ active' = [active EXCEPT ![op.id] = NoDoc]
           /\ op' = [op EXCEPT !.at = "update"]
           /\ UNCHANGED <<rows, search, held, doubt>>
  <2>1. op' \in Op /\ op'.at = "update" /\ op'.id = op.id /\ op'.flagged = op.flagged
    BY <1>1, <1>3 DEF Op, Places, Archiving
  <2>2. /\ active' \in [Ids -> File] /\ active'[op.id] = NoDoc
        /\ \A id \in Ids \ {op.id} : active'[id] = active[id]
    BY <1>1, <1>3 DEF File
  <2>3. StoreTypeOK' /\ SearchInv'
    BY <1>0, <1>1, <1>3, <2>1, <2>2 DEF StoreTypeOK, SearchInv
  <2>4. StepInv'
    BY <1>1, <1>3, <2>1, <2>2 DEF StepInv, Saving, Flagging, Readable
  <2>5. \A id \in Ids \ {op.id} : Untouched(id)
    BY <1>3, <2>2, SameSearch DEF Untouched
  <2>6. \A id \in Ids : id = op.id => IdInv(id)'
    BY <1>2, <1>3, <2>1, SameSearch
    DEF IdInv, ConfInvOf, NotZero, FilesInvOf, IndexInvOf, Indexed, Active, SearchAgrees, Archiving
  <2> QED BY <1>0, <2>3, <2>4, <2>5, <2>6, OneId DEF Archiving
<1>4. CASE op.flagged /\ GivesUp /\ UNCHANGED active
  BY <1>0, <1>4, GivingUp DEF Archiving
<1>5. CASE ~op.flagged /\ Refused
  <2>1. Settled(op.id)
    BY <1>2, <1>5 DEF Settled, ConfInvOf
  <2> QED BY <1>0, <1>5, <2>1, OthersSettled, Refusing DEF Archiving
<1> QED BY <1>1, <1>3, <1>4, <1>5 DEF Move

LEMMA UpdateRowStep == StoreInv /\ UpdateRow => StoreInv'
<1> SUFFICES ASSUME StoreInv, UpdateRow PROVE StoreInv'
  OBVIOUS
<1>0. StoreTypeOK /\ StepInv /\ SearchInv /\ op.at = "update"
  BY DEF StoreInv, UpdateRow
<1>1. /\ op \in Op /\ op.id \in Ids /\ rows \in [Ids -> Row \cup {NoDoc}] /\ rows[op.id] \in Row
      /\ active[op.id] = NoDoc
  BY <1>0, Ops DEF StoreTypeOK, StepInv, Archiving
<1>2. CASE /\ rows' = [rows EXCEPT ![op.id].archived = TRUE]
           /\ op' = [op EXCEPT !.at = "delete"]
           /\ UNCHANGED <<active, archive, search, held, doubt>>
  <2>1. op' \in Op /\ op'.at = "delete" /\ op'.id = op.id /\ op'.flagged = op.flagged
    BY <1>1, <1>2 DEF Op, Places, Archiving
  <2>a. [rows[op.id] EXCEPT !.archived = TRUE] \in Row
    BY <1>1 DEF Row
  <2>b. [rows[op.id] EXCEPT !.archived = TRUE].archived
    BY <1>1 DEF Row
  <2>2. /\ rows' \in [Ids -> Row \cup {NoDoc}] /\ rows'[op.id] \in Row /\ rows'[op.id].archived
        /\ \A id \in Ids \ {op.id} : rows'[id] = rows[id]
    BY <1>1, <1>2, <2>a, <2>b
  <2>3. rows'[op.id] # NoDoc
    BY <2>2, NoDocs
  <2>4. StoreTypeOK' /\ SearchInv'
    BY <1>0, <1>2, <2>1, <2>2, <2>3 DEF StoreTypeOK, SearchInv
  <2>5. StepInv'
    BY <1>1, <1>2, <2>1, <2>2, <2>3 DEF StepInv, Saving, Flagging
  <2>6. \A id \in Ids \ {op.id} : Untouched(id)
    BY <1>2, <2>2, SameSearch DEF Untouched
  <2>7. \A id \in Ids : id = op.id => IdInv(id)'
    BY <1>0, <1>2, <2>1
    DEF StoreInv, ConfInv, IdInv, ConfInvOf, NotZero, FilesInvOf, IndexInvOf, Archiving
  <2> QED BY <1>0, <2>4, <2>5, <2>6, <2>7, OneId DEF Archiving
<1>3. CASE GivesUp /\ UNCHANGED active
  BY <1>0, <1>3, GivingUp DEF Archiving
<1> QED BY <1>2, <1>3 DEF UpdateRow

LEMMA ArchiveSearchStep == StoreInv /\ ArchiveSearch => StoreInv'
<1> SUFFICES ASSUME StoreInv, ArchiveSearch PROVE StoreInv'
  OBVIOUS
<1>0. StoreTypeOK /\ StepInv /\ SearchInv /\ op.at = "delete"
  BY DEF StoreInv, ArchiveSearch
<1>1. /\ op.id \in Ids /\ active[op.id] = NoDoc /\ rows[op.id].archived
      /\ active \in [Ids -> File] /\ search \subseteq Ids \X Texts
      /\ held \in [Ids -> Doc \cup {NoDoc}]
  BY <1>0 DEF StoreTypeOK, StepInv, Archiving
<1>2. op' \in Op /\ op'.at = "idle" /\ active' = active /\ archive' = archive /\ rows' = rows
  BY Ops DEF ArchiveSearch
<1>3. StepInv'
  BY <1>2 DEF StepInv, Saving, Archiving, Flagging
<1>4. CASE search' = SearchWithout(op.id) /\ Finished(NoDoc)
  <2>1. /\ search' \subseteq Ids \X Texts
        /\ \A id \in Ids : id = op.id => Entries(id)' = {}
        /\ \A id \in Ids \ {op.id} : Entries(id)' = Entries(id)
    BY <1>1, <1>4, NoEntry
  <2>2. /\ held' \in [Ids -> Doc \cup {NoDoc}] /\ held'[op.id] = NoDoc /\ doubt' = doubt \ {op.id}
        /\ \A id \in Ids \ {op.id} : held'[id] = held[id]
    BY <1>1, <1>4 DEF Finished
  <2>3. StoreTypeOK'
    BY <1>0, <1>2, <2>1, <2>2 DEF StoreTypeOK
  <2>4. SearchInv'
    BY <1>0, <1>2, <1>4 DEF SearchInv, SearchWithout
  <2>5. \A id \in Ids \ {op.id} : Untouched(id)
    BY <1>2, <2>1, <2>2 DEF Untouched
  <2>6. \A id \in Ids : id = op.id => Indexed(id)' /\ active'[id] = held'[id] /\ NotZero(id)'
    BY <1>1, <1>2, <2>1, <2>2 DEF Indexed, Active, SearchAgrees, NotZero
  <2>7. \A id \in Ids : id = op.id => IdInv(id)'
    BY <2>6 DEF IdInv, ConfInvOf, FilesInvOf, IndexInvOf
  <2> QED BY <1>0, <1>3, <2>3, <2>4, <2>5, <2>7, OneId DEF Archiving
<1>5. CASE IsInDoubt({op.id}) /\ UNCHANGED search
  <2>1. SearchInv' /\ search' \subseteq Ids \X Texts /\ \A id \in Ids : Entries(id)' = Entries(id)
    BY <1>0, <1>1, <1>2, <1>5, SameSearch DEF SearchInv
  <2> QED BY <1>0, <1>1, <1>2, <1>3, <1>5, <2>1, Doubtful DEF Archiving
<1> QED BY <1>4, <1>5 DEF ArchiveSearch

-----------------------------------------------------------------------------
(* SetConfidence.                                                          *)

LEMMA LowerStep == StoreInv /\ Lower => StoreInv'
<1> SUFFICES ASSUME StoreInv, Lower PROVE StoreInv'
  OBVIOUS
<1>0. StoreTypeOK /\ StepInv /\ SearchInv /\ op.at = "lower"
  BY DEF StoreInv, Lower
<1>1. /\ op \in Op /\ op.id \in Ids /\ rows \in [Ids -> Row \cup {NoDoc}]
      /\ rows[op.id] \in Row /\ Active(op.id)
  BY <1>0, Ops DEF StoreTypeOK, StepInv, Flagging, Active
<1>2. Settled(op.id)
  BY <1>0, <1>1, AllSettled
<1>3. CASE /\ rows' = [rows EXCEPT ![op.id].doc.conf = Lowered[@]]
           /\ op' = [op EXCEPT !.at = "mirror"]
           /\ UNCHANGED <<active, archive, search, held, doubt>>
  <2>1. op' \in Op /\ op'.at = "mirror" /\ op'.id = op.id
    BY <1>1, <1>3 DEF Op, Places, Flagging
  <2> DEFINE doc == [rows[op.id].doc EXCEPT !.conf = Lowered[@]]
             row == [rows[op.id] EXCEPT !.doc = doc]
  <2>2. doc \in Doc /\ doc.text = rows[op.id].doc.text
    BY <1>1, Rows, Docs, Lowers
  <2>3. row \in Row /\ row.doc = doc /\ row.archived = rows[op.id].archived
    BY <1>1, <2>2 DEF Row
  <2>4. rows' = [rows EXCEPT ![op.id] = row]
    BY <1>3
  <2> HIDE DEF doc, row
  <2>5. /\ rows' \in [Ids -> Row \cup {NoDoc}] /\ rows'[op.id] = row
        /\ \A id \in Ids \ {op.id} : rows'[id] = rows[id]
    BY <1>1, <2>3, <2>4
  <2>6. row # NoDoc
    BY <2>3, NoDocs
  <2>7. StoreTypeOK' /\ SearchInv'
    BY <1>0, <1>3, <2>1, <2>5, <2>6 DEF StoreTypeOK, SearchInv
  <2>8. StepInv'
    BY <1>1, <2>1, <2>3, <2>5, <2>6 DEF StepInv, Saving, Active
  <2>9. \A id \in Ids \ {op.id} : Untouched(id)
    BY <1>3, <2>5, SameSearch DEF Untouched
  <2>10. op.id \notin doubt => held[op.id] # NoDoc /\ row.doc.text = held[op.id].text
    BY <1>1, <1>2, <2>2, <2>3 DEF Settled, Indexed
  <2>11. \A id \in Ids : id = op.id => IdInv(id)'
    BY SMTT(30), <1>2, <1>3, <2>1, <2>5, <2>10, SameSearch
    DEF Settled, IdInv, ConfInvOf, NotZero, FilesInvOf, IndexInvOf, Indexed, SearchAgrees
  <2> QED BY <1>0, <2>7, <2>8, <2>9, <2>11, OneId DEF Flagging
<1>4. CASE Refused
  BY <1>0, <1>4, AllSettled, Refusing
<1> QED BY <1>3, <1>4 DEF Lower

LEMMA MirrorStep == StoreInv /\ Mirror => StoreInv'
<1> SUFFICES ASSUME StoreInv, Mirror PROVE StoreInv'
  OBVIOUS
<1>0. StoreTypeOK /\ StepInv /\ SearchInv /\ op.at = "mirror"
  BY DEF StoreInv, Mirror
<1>1. /\ op \in Op /\ op.id \in Ids /\ rows[op.id] \in Row /\ Active(op.id)
      /\ active \in [Ids -> File] /\ held \in [Ids -> Doc \cup {NoDoc}]
      /\ search \subseteq Ids \X Texts
  BY <1>0, Ops DEF StoreTypeOK, StepInv, Flagging, Active
<1> DEFINE conf == rows[op.id].doc.conf
<1>2. conf \in Confs
  BY <1>1, Rows, Docs
<1>3. UNCHANGED <<archive, rows, search>>
  BY DEF Mirror
<1>4. /\ op' \in Op
      /\ \/ op'.at = "move" /\ op'.flagged /\ op'.id = op.id
         \/ op'.at = "idle" /\ conf > 200
  <2>1. CASE conf <= 200
    <3>1. op' = [op EXCEPT !.at = "move", !.flagged = TRUE]
      BY <2>1 DEF Mirror, AfterMirror
    <3> QED BY <1>1, <3>1 DEF Op, Places, Archiving
  <2>2. CASE ~(conf <= 200)
    <3>1. op' = Done(TRUE)
      BY <2>2 DEF Mirror, AfterMirror
    <3>2. conf > 200
      BY <1>2, <2>2 DEF Confs
    <3> QED BY <3>1, <3>2, Ops
  <2> QED BY <2>1, <2>2
<1>5. StepInv'
  BY <1>1, <1>4 DEF StepInv, Saving, Archiving, Flagging
<1>6. conf > 200 => conf # 0
  BY <1>2 DEF Confs
<1>7. CASE /\ Readable(op.id)
           /\ active' = [active EXCEPT ![op.id] = Mirrored(op.id)]
           /\ held' = Flagged(op.id)
           /\ UNCHANGED doubt
  <2>1. active[op.id] \in Doc
    BY <1>1, <1>7 DEF Readable, Active
  <2>2. Mirrored(op.id) \in Doc /\ Mirrored(op.id) = [text |-> active[op.id].text, conf |-> conf]
    BY <1>2, <2>1, Docs DEF Mirrored
  <2>3. /\ active' \in [Ids -> File] /\ active'[op.id] = Mirrored(op.id)
        /\ \A id \in Ids \ {op.id} : active'[id] = active[id]
    BY <1>1, <1>7, <2>2 DEF File
  <2> HIDE DEF conf
  <2>4. /\ held' \in [Ids -> Doc \cup {NoDoc}]
        /\ \A id \in Ids \ {op.id} : held'[id] = held[id]
        /\ held[op.id] = NoDoc => held'[op.id] = NoDoc
        /\ held[op.id] # NoDoc => held'[op.id] = [text |-> held[op.id].text, conf |-> conf]
    <3>1. CASE held[op.id] = NoDoc
      BY <1>1, <1>7, <3>1 DEF Flagged
    <3>2. CASE held[op.id] # NoDoc
      <4>1. held[op.id] \in Doc
        BY <1>1, <3>2
      <4>2. /\ [held[op.id] EXCEPT !.conf = conf] \in Doc
            /\ [held[op.id] EXCEPT !.conf = conf] = [text |-> held[op.id].text, conf |-> conf]
        BY <1>2, <4>1, Docs
      <4>3. held' = [held EXCEPT ![op.id] = [held[op.id] EXCEPT !.conf = conf]]
        BY <1>7, <3>2 DEF Flagged, conf
      <4> QED BY <1>1, <3>2, <4>2, <4>3
    <3> QED BY <3>1, <3>2
  <2>5. StoreTypeOK' /\ SearchInv'
    BY <1>0, <1>3, <1>4, <1>7, <2>3, <2>4 DEF StoreTypeOK, SearchInv
  <2>6. \A id \in Ids \ {op.id} : Untouched(id)
    BY <1>3, <1>7, <2>3, <2>4, SameSearch DEF Untouched
  <2>7. held'[op.id] = NoDoc \/ held'[op.id].conf = conf
    BY <2>4
  <2>8. \A id \in Ids : id = op.id => ConfInvOf(id)'
    BY <1>4, <1>6, <2>7 DEF ConfInvOf, NotZero, Archiving
  <2>9. ASSUME op.id \notin doubt
        PROVE  \A id \in Ids : id = op.id => active'[id] = held'[id] /\ Indexed(id)'
    <3>1. /\ active[op.id] = held[op.id] /\ held[op.id] # NoDoc /\ SearchAgrees(op.id)
          /\ rows[op.id].doc.text = held[op.id].text
      BY <1>0, <1>1, <2>9
      DEF StoreInv, FilesInv, FilesInvOf, IndexInv, IndexInvOf, Indexed
    <3>2. held'[op.id] = Mirrored(op.id) /\ held'[op.id] # NoDoc /\ held'[op.id].text = held[op.id].text
      BY <2>2, <2>4, <3>1, NoDocs
    <3>3. rows[op.id].doc = [text |-> held[op.id].text, conf |-> conf]
      BY <1>1, <3>1, Rows, Docs DEF conf
    <3>4. rows[op.id].doc = held'[op.id]
      BY <2>4, <3>1, <3>3
    <3>5. Entries(op.id) = {<<op.id, held[op.id].text>>}
      BY <3>1 DEF SearchAgrees
    <3> QED BY <1>1, <1>3, <2>3, <3>2, <3>4, <3>5, SameSearch DEF Indexed, Active, SearchAgrees
  <2>10. \A id \in Ids : id = op.id => IdInv(id)'
    BY <1>7, <2>8, <2>9 DEF IdInv, FilesInvOf, IndexInvOf
  <2> QED BY <1>0, <1>5, <2>5, <2>6, <2>10, OneId DEF Flagging
<1>8. CASE /\ active' = active \/ \E f \in File : active' = [active EXCEPT ![op.id] = f]
           /\ IsInDoubt({op.id})
  <2>1. active' \in [Ids -> File] /\ \A id \in Ids \ {op.id} : active'[id] = active[id]
    BY <1>1, <1>8
  <2>2. SearchInv' /\ \A id \in Ids : Entries(id)' = Entries(id)
    BY <1>0, <1>3, SameSearch DEF SearchInv
  <2> QED BY <1>0, <1>1, <1>3, <1>4, <1>5, <1>8, <2>1, <2>2, Doubtful DEF Flagging
<1>9. Torn \in File
  BY DEF File
<1> QED BY <1>7, <1>8, <1>9 DEF Mirror

-----------------------------------------------------------------------------
(* Opening and rebuilding.                                                 *)

LEMMA NotIndexed ==
  ASSUME StoreTypeOK, SearchInv, NEW id \in Ids, rows[id] = NoDoc, held[id] = NoDoc
  PROVE  Indexed(id)
<1>1. Entries(id) = {}
  BY DEF SearchInv, Entries, StoreTypeOK
<1> QED BY <1>1 DEF Indexed, Active, SearchAgrees

LEMMA Read == \A d \in Doc : RowOf(d) \in Row /\ (d.conf # 0 => RowOf(d) = [doc |-> d, archived |-> FALSE])
<1> SUFFICES ASSUME NEW d \in Doc
             PROVE  RowOf(d) \in Row /\ (d.conf # 0 => RowOf(d) = [doc |-> d, archived |-> FALSE])
  OBVIOUS
<1>1. 500 \in Confs
  BY DEF Confs
<1>2. AsRead(d) \in Doc
  BY <1>1, Docs DEF AsRead
<1>3. d.conf # 0 => AsRead(d) = d
  BY Docs DEF AsRead, Doc
<1> QED BY <1>2, <1>3, Rows DEF RowOf

\* While the index is rebuilt an id agrees or has no row yet.
LEMMA Rebuilding ==
  ASSUME StoreInv, op.at = "rebuild", NEW id \in Ids
  PROVE  /\ NotZero(id)
         /\ id \notin doubt => active[id] = held[id] /\ (Indexed(id) \/ rows[id] = NoDoc)
         /\ id \notin ToIndex => Settled(id)
<1>1. /\ NotZero(id)
      /\ id \notin doubt => active[id] = held[id] /\ (Indexed(id) \/ rows[id] = NoDoc)
  BY DEF StoreInv, ConfInv, FilesInv, IndexInv, ConfInvOf, FilesInvOf, IndexInvOf, Archiving
<1>2. ASSUME id \notin doubt, id \notin ToIndex, rows[id] = NoDoc PROVE Indexed(id)
  <2>1. held[id] = NoDoc
    BY <1>1, <1>2 DEF ToIndex, StoreInv, StoreTypeOK
  <2> QED BY <1>2, <2>1, NotIndexed DEF StoreInv
<1> QED BY <1>1, <1>2 DEF Settled

LEMMA RebuildOneStep ==
  ASSUME StoreInv, NEW x \in ToIndex, RebuildOne(x)
  PROVE  StoreInv'
<1>0. /\ StoreTypeOK /\ StepInv /\ SearchInv /\ op.at = "rebuild"
      /\ x \in Ids /\ active[x] \in Doc /\ rows[x] = NoDoc
  BY DEF StoreInv, RebuildOne, ToIndex
<1>1. /\ UNCHANGED <<active, archive, op, held, doubt>>
      /\ rows' = [rows EXCEPT ![x] = RowOf(active[x])]
      /\ search' = search \cup {<<x, active[x].text>>}
  BY DEF RebuildOne
<1>2. /\ RowOf(active[x]) \in Row /\ RowOf(active[x]) # NoDoc /\ active[x].text \in Texts
      /\ active[x].conf # 0 => RowOf(active[x]) = [doc |-> active[x], archived |-> FALSE]
  BY <1>0, Read, NoDocs, Docs
<1>3. /\ rows' \in [Ids -> Row \cup {NoDoc}] /\ rows'[x] = RowOf(active[x])
      /\ \A id \in Ids \ {x} : rows'[id] = rows[id]
  BY <1>0, <1>1, <1>2 DEF StoreTypeOK
<1>4. Entries(x) = {}
  BY <1>0 DEF SearchInv, Entries, StoreTypeOK
<1>5. /\ search' \subseteq Ids \X Texts
      /\ \A id \in Ids : id = x => Entries(id)' = {<<id, active[id].text>>}
      /\ \A id \in Ids \ {x} : Entries(id)' = Entries(id)
  BY <1>0, <1>1, <1>2, <1>4, MoreEntry DEF StoreTypeOK
<1>6. StoreTypeOK' /\ SearchInv'
  BY <1>0, <1>1, <1>2, <1>3, <1>5 DEF StoreTypeOK, SearchInv
<1>7. StepInv'
  BY <1>0, <1>1 DEF StepInv, Saving, Archiving, Flagging
<1>8. ASSUME NEW id \in Ids, id # x PROVE IdInv(id)'
  <2>1. Untouched(id)
    BY <1>1, <1>3, <1>5, <1>8 DEF Untouched
  <2>2. /\ NotZero(id)
        /\ id \notin doubt => active[id] = held[id] /\ (Indexed(id) \/ rows[id] = NoDoc)
    BY <1>0, Rebuilding
  <2> QED BY <1>0, <1>1, <2>1, <2>2
          DEF Untouched, IdInv, ConfInvOf, NotZero, FilesInvOf, IndexInvOf, Indexed, Active, SearchAgrees
<1>9. ASSUME NEW id \in Ids, id = x PROVE IdInv(id)'
  <2>1. NotZero(id) /\ (id \notin doubt => active[id] = held[id])
    BY <1>0, Rebuilding
  <2>2. NotZero(id)'
    BY <1>1, <2>1 DEF NotZero
  <2>3. ASSUME id \notin doubt PROVE active'[id] = held'[id] /\ Indexed(id)'
    <3>1. active[id] = held[id] /\ held[id] # NoDoc /\ held[id].conf # 0
      BY <1>0, <1>9, <2>1, <2>3, NoDocs DEF NotZero
    <3>2. rows'[id] = [doc |-> held[id], archived |-> FALSE]
      BY <1>2, <1>3, <1>9, <3>1
    <3>3. rows'[id] # NoDoc /\ rows'[id].doc = held[id] /\ ~rows'[id].archived
      BY <1>0, <1>9, <3>1, <3>2, Rows
    <3> QED BY <1>1, <1>5, <1>9, <3>1, <3>3 DEF Indexed, Active, SearchAgrees
  <2> QED BY <1>1, <2>2, <2>3 DEF IdInv, ConfInvOf, FilesInvOf, IndexInvOf
<1>10. \A id \in Ids : IdInv(id)'
  BY <1>8, <1>9
<1>11. (StoreInv <=> StoreTypeOK /\ StepInv /\ SearchInv /\ \A id \in Ids : IdInv(id))'
  BY ByIds, PTL
<1> QED BY <1>6, <1>7, <1>10, <1>11

\* Where no operation is under way.
LEMMA NoStep ==
  ASSUME op' \in Op, op'.at \in {"idle", "down", "rebuild"}  PROVE StepInv'
BY DEF StepInv, Saving, Archiving, Flagging

LEMMA RebuiltStep == StoreInv /\ Rebuilt => StoreInv'
<1> SUFFICES ASSUME StoreInv, Rebuilt PROVE StoreInv'
  OBVIOUS
<1>1. \A id \in Ids : Settled(id)
  BY Rebuilding DEF Rebuilt
<1>2. op' \in Op /\ op'.at = "idle"
  BY Ops DEF Rebuilt
<1> QED BY <1>1, <1>2, NoStep, OnlyOp DEF Rebuilt

LEMMA CloseStep == StoreInv /\ Close => StoreInv'
<1> SUFFICES ASSUME StoreInv, Close PROVE StoreInv'
  OBVIOUS
<1>1. \A id \in Ids : Settled(id)
  BY AllSettled DEF Close
<1>2. op' \in Op /\ op'.at = "down"
  BY Ops DEF Close
<1> QED BY <1>1, <1>2, NoStep, OnlyOp DEF Close

LEMMA BeginStep ==
  ASSUME StoreInv, NEW id \in Ids,
         Archive(id) \/ Flag(id) \/ (\E doc \in NewDoc : Save(id, doc))
  PROVE  StoreInv'
<1>1. op.at = "idle" /\ UNCHANGED <<active, archive, rows, search, held, doubt>>
  BY DEF Archive, Flag, Save
<1>2. \A i \in Ids : Settled(i)
  BY <1>1, AllSettled
<1>3. NoDoc \in File /\ NewDoc \subseteq File
  BY DEF File, NewDoc
<1>4. CASE Archive(id)
  <2>1. op' \in Op /\ op'.at = "move" /\ op'.id = id
    BY <1>3, <1>4, Ops DEF Archive, Places, Archiving
  <2>2. StepInv'
    BY <2>1 DEF StepInv, Saving, Archiving, Flagging
  <2> QED BY <1>1, <1>2, <2>1, <2>2, OnlyOp
<1>5. CASE Flag(id)
  <2>1. CASE Active(id)
    <3>1. op' \in Op /\ op'.at = "lower" /\ op'.id = id
      BY <1>3, <1>5, <2>1, Ops DEF Flag, Places, Flagging
    <3>2. StepInv'
      BY <1>1, <2>1, <3>1 DEF StepInv, Saving, Archiving, Flagging, Active
    <3> QED BY <1>1, <1>2, <3>1, <3>2, OnlyOp
  <2>2. CASE ~Active(id)
    <3>1. op' \in Op /\ op'.at = "idle"
      BY <1>5, <2>2, Ops DEF Flag
    <3> QED BY <1>1, <1>2, <3>1, NoStep, OnlyOp
  <2> QED BY <2>1, <2>2
<1>6. ASSUME NEW doc \in NewDoc, Save(id, doc) PROVE StoreInv'
  <2>1. CASE op' = Begin("write", id, doc)
    <3>a. "write" \in Places /\ doc \in File
      BY <1>3 DEF Places, Saving
    <3>1. op' \in Op /\ op'.at = "write" /\ op'.id = id /\ op'.doc = doc
      BY <2>1, <3>a, Ops
    <3>2. StepInv'
      BY <3>1 DEF StepInv, Saving, Archiving, Flagging
    <3> QED BY <1>1, <1>2, <3>1, <3>2, OnlyOp
  <2>2. CASE op' = Done(FALSE)
    <3>1. op' \in Op /\ op'.at = "idle"
      BY <2>2, Ops
    <3> QED BY <1>1, <1>2, <3>1, NoStep, OnlyOp
  <2> QED BY <1>6, <2>1, <2>2 DEF Save
<1> QED BY <1>4, <1>5, <1>6

LEMMA OpenStep == StoreInv /\ Open => StoreInv'
<1> SUFFICES ASSUME StoreInv, Open PROVE StoreInv'
  OBVIOUS
<1>1. /\ StoreTypeOK /\ SearchInv /\ op.at = "down"
      /\ UNCHANGED <<active, archive, rows, search, held, doubt>>
  BY DEF StoreInv, Open
<1>2. ASSUME NEW id \in Ids
      PROVE  /\ NotZero(id)
             /\ id \notin doubt => active[id] = held[id]
             /\ id \notin doubt /\ ~Empty => Indexed(id)
  BY <1>1 DEF StoreInv, ConfInv, FilesInv, IndexInv, ConfInvOf, FilesInvOf, IndexInvOf, Archiving
<1>3. CASE Empty
  <2>1. op' \in Op /\ op'.at = "rebuild"
    BY <1>3, Ops DEF Open, Op, Places, Done, Down
  <2>2. StoreTypeOK' /\ SearchInv' /\ StepInv'
    BY <1>1, <2>1, NoStep DEF StoreTypeOK, SearchInv
  <2>3. ASSUME NEW id \in Ids PROVE IdInv(id)'
    <3>1. rows'[id] = NoDoc
      BY <1>1, <1>3 DEF Empty
    <3> QED BY <1>1, <1>2, <2>1, <3>1 DEF IdInv, ConfInvOf, NotZero, FilesInvOf, IndexInvOf
  <2>4. (StoreInv <=> StoreTypeOK /\ StepInv /\ SearchInv /\ \A id \in Ids : IdInv(id))'
    BY ByIds, PTL
  <2> QED BY <2>2, <2>3, <2>4
<1>4. CASE ~Empty
  <2>1. op' \in Op /\ op'.at = "idle"
    BY <1>4, Ops DEF Open
  <2>2. \A id \in Ids : Settled(id)
    BY <1>2, <1>4 DEF Settled
  <2> QED BY <1>1, <2>1, <2>2, NoStep, OnlyOp
<1> QED BY <1>3, <1>4

LEMMA DropDatabaseStep == StoreInv /\ DropDatabase => StoreInv'
<1> SUFFICES ASSUME StoreInv, DropDatabase PROVE StoreInv'
  OBVIOUS
<1>1. /\ StoreTypeOK /\ op.at = "down" /\ UNCHANGED <<active, archive, op, held, doubt>>
      /\ rows' = [id \in Ids |-> NoDoc] /\ search' = {}
  BY DEF StoreInv, DropDatabase
<1>2. StoreTypeOK' /\ SearchInv'
  BY <1>1 DEF StoreTypeOK, SearchInv
<1>3. StepInv'
  BY <1>1 DEF StepInv, Saving, Archiving, Flagging
<1>4. \A id \in Ids : IdInv(id)'
  BY <1>1 DEF StoreInv, ConfInv, FilesInv, IdInv, ConfInvOf, NotZero, FilesInvOf, IndexInvOf, Empty, Archiving
<1>5. (StoreInv <=> StoreTypeOK /\ StepInv /\ SearchInv /\ \A id \in Ids : IdInv(id))'
  BY ByIds, PTL
<1> QED BY <1>2, <1>3, <1>4, <1>5

-----------------------------------------------------------------------------
(* A killed process.                                                       *)

\* Of an id that had no work left everything agrees.
LEMMA OutOfFlight ==
  ASSUME StoreInv, op.at # "down", NEW id \in Ids \ InFlight
  PROVE  Settled(id)
<1>1. CASE op.at = "idle"
  BY <1>1, AllSettled
<1>2. CASE op.at = "rebuild"
  BY <1>2, Rebuilding DEF InFlight
<1>3. CASE op.at \notin {"idle", "rebuild"}
  <2>1. op.at \in Saving \cup Archiving \cup Flagging /\ id # op.id
    BY <1>3, Ops DEF InFlight, StoreInv, StoreTypeOK, Places
  <2> QED BY <2>1, OthersSettled
<1> QED BY <1>1, <1>2, <1>3

LEMMA CrashStep == StoreInv /\ Crash => StoreInv'
<1> SUFFICES ASSUME StoreInv, Crash PROVE StoreInv'
  OBVIOUS
<1>0. /\ StoreTypeOK /\ StepInv /\ SearchInv /\ op.at # "down"
      /\ op' = Down /\ archive' = archive /\ search' = search
      /\ active \in [Ids -> File] /\ rows \in [Ids -> Row \cup {NoDoc}]
  BY DEF StoreInv, StoreTypeOK, Crash
<1>1. InFlight \subseteq Ids
  <2>1. op.at \in {"idle", "rebuild"} => InFlight \subseteq Ids
    BY DEF InFlight, ToIndex
  <2>2. op.at \notin {"idle", "rebuild"} => op.id \in Ids
    BY <1>0, Ops DEF StepInv, StoreTypeOK, Places
  <2> QED BY <2>1, <2>2 DEF InFlight
<1>2. /\ doubt' \subseteq Ids /\ held' \in [Ids -> Doc \cup {NoDoc}]
      /\ \A id \in InFlight : id \in doubt' /\ held'[id] = NoDoc
      /\ \A id \in Ids \ InFlight : held'[id] = held[id] /\ (id \in doubt => id \in doubt')
  BY <1>0, <1>1 DEF Crash, IsInDoubt, StoreTypeOK
<1>3. active' \in [Ids -> File] /\ \A id \in Ids \ InFlight : active'[id] = active[id]
  <2>1. CASE op.at = "write"
    <3>1. op.id \in Ids /\ op.doc \in File /\ Torn \in File /\ InFlight = {op.id}
      BY <1>0, <2>1 DEF StepInv, Saving, NewDoc, File, InFlight
    <3>2. active' \in Cut(op.id, op.doc)
      BY <2>1 DEF Crash
    <3> QED BY <1>0, <3>1, <3>2 DEF Cut
  <2>2. CASE op.at = "mirror" /\ Readable(op.id)
    <3>1. op.id \in Ids /\ Active(op.id) /\ Torn \in File /\ InFlight = {op.id}
      BY <1>0, <2>2 DEF StepInv, Flagging, File, InFlight
    <3>2. active[op.id] \in Doc /\ rows[op.id].doc.conf \in Confs
      BY <1>0, <2>2, <3>1, Rows, Docs DEF Readable, Active
    <3>3. Mirrored(op.id) \in File
      BY <3>2, Docs DEF Mirrored, File
    <3>4. active' \in Cut(op.id, Mirrored(op.id))
      BY <2>2 DEF Crash
    <3> QED BY <1>0, <3>1, <3>3, <3>4 DEF Cut
  <2>3. CASE ~(op.at = "write") /\ ~(op.at = "mirror" /\ Readable(op.id))
    <3>1. active' \in {active}
      BY <2>3 DEF Crash
    <3> QED BY <1>0, <3>1
  <2> QED BY <2>1, <2>2, <2>3
<1>4. /\ rows' \in [Ids -> Row \cup {NoDoc}]
      /\ \A id \in Ids \ InFlight : rows'[id] = rows[id]
      /\ \A id \in Ids : rows[id] # NoDoc => rows'[id] # NoDoc
  <2>1. CASE rows' = rows
    BY <1>0, <2>1
  <2>2. CASE op.at = "rebuild" /\ \E id \in ToIndex : rows' = [rows EXCEPT ![id] = RowOf(active[id])]
    <3>1. PICK x \in ToIndex : rows' = [rows EXCEPT ![x] = RowOf(active[x])]
      BY <2>2
    <3>2. x \in Ids /\ RowOf(active[x]) \in Row /\ RowOf(active[x]) # NoDoc
      BY Read, NoDocs DEF ToIndex
    <3>3. InFlight = ToIndex
      BY <2>2 DEF InFlight
    <3> QED BY <1>0, <3>1, <3>2, <3>3
  <2> QED BY <2>1, <2>2 DEF Crash
<1>5. op' \in Op /\ op'.at = "down"
  BY <1>0, Ops
<1>6. StoreTypeOK' /\ StepInv'
  BY <1>0, <1>2, <1>3, <1>4, <1>5, NoStep DEF StoreTypeOK
<1>7. SearchInv'
  BY <1>0, <1>4 DEF SearchInv, StoreTypeOK
<1>8. ASSUME NEW id \in InFlight PROVE IdInv(id)'
  BY <1>2 DEF IdInv, ConfInvOf, NotZero
<1>9. ASSUME NEW id \in Ids \ InFlight PROVE IdInv(id)'
  <2>1. Settled(id)
    BY <1>0, OutOfFlight
  <2>2. Untouched(id)
    BY <1>0, <1>2, <1>3, <1>4, SameSearch DEF Untouched
  <2>3. Settled(id)'
    BY <2>1, <2>2, StaysSettled
  <2> QED BY <2>3 DEF Settled, IdInv, ConfInvOf, FilesInvOf, IndexInvOf
<1>10. \A id \in Ids : IdInv(id)'
  BY <1>8, <1>9
<1>11. (StoreInv <=> StoreTypeOK /\ StepInv /\ SearchInv /\ \A id \in Ids : IdInv(id))'
  BY ByIds, PTL
<1> QED BY <1>6, <1>7, <1>10, <1>11

-----------------------------------------------------------------------------
(* The invariant and what follows from it.                                 *)

LEMMA StoreInvInit == Init => StoreInv
<1> SUFFICES ASSUME Init PROVE StoreInv
  OBVIOUS
<1>1. /\ active = [id \in Ids |-> NoDoc] /\ rows = [id \in Ids |-> NoDoc]
      /\ held = [id \in Ids |-> NoDoc]
      /\ archive = {} /\ search = {} /\ doubt = {} /\ op \in Op /\ op.at = "down"
  BY Ops DEF Init
<1>2. StoreTypeOK /\ SearchInv
  BY <1>1 DEF StoreTypeOK, File, SearchInv
<1>3. StepInv
  BY <1>1 DEF StepInv, Saving, Archiving, Flagging
<1>4. \A id \in Ids : Settled(id)
  BY <1>1, <1>2, NotIndexed DEF Settled, NotZero
<1> QED BY <1>2, <1>3, <1>4, SettledIsEnough, ByIds

LEMMA StoreInvNext == StoreInv /\ [Next]_storeVars => StoreInv'
<1> SUFFICES ASSUME StoreInv, [Next]_storeVars PROVE StoreInv'
  OBVIOUS
<1>1. ASSUME NEW id \in Ids, NEW t \in Texts, NEW conf \in NewConf,
             Save(id, [text |-> t, conf |-> conf])
      PROVE  StoreInv'
  <2>1. conf \in Confs /\ conf # 0
    BY ConstantsOK
  <2>2. [text |-> t, conf |-> conf] \in NewDoc
    BY <2>1 DEF NewDoc, Doc
  <2> QED BY <1>1, <2>2, BeginStep
<1>2. ASSUME NEW id \in Ids, Archive(id) \/ Flag(id) PROVE StoreInv'
  BY <1>2, BeginStep
<1>3. CASE Steps
  BY <1>3, SaveFileStep, SaveRowStep, SaveSearchStep, MoveStep, UpdateRowStep, ArchiveSearchStep,
     LowerStep, MirrorStep, RebuildOneStep, RebuiltStep DEF Steps
<1>4. CASE Open \/ Close \/ Crash \/ DropDatabase
  BY <1>4, OpenStep, CloseStep, CrashStep, DropDatabaseStep
<1>5. CASE UNCHANGED storeVars
  BY <1>5 DEF storeVars, StoreInv, StoreTypeOK, StepInv, FilesInv, FilesInvOf, ConfInv, ConfInvOf, NotZero,
              SearchInv, IndexInv, IndexInvOf, Indexed, Active, SearchAgrees, Entries, Empty
<1> QED BY <1>1, <1>2, <1>3, <1>4, <1>5 DEF Next, Commands

LEMMA StoreInvHolds == Spec => []StoreInv
BY StoreInvInit, StoreInvNext, PTL DEF Spec

\* Every variable keeps its type: no statement is run, and no file written, for an
\* id or a document that is not one.
THEOREM StoreTypes == Spec => []StoreTypeOK
<1>1. StoreInv => StoreTypeOK
  BY DEF StoreInv
<1> QED BY <1>1, StoreInvHolds, PTL

\* Between the operations of memory_store.go, whatever failed or was killed before,
\* the file of every memory that is not in doubt is what was last saved or flagged.
THEOREM FilesAreTheMemories == Spec => []FilesHoldMemories
<1>1. StoreInv => FilesHoldMemories
  BY DEF StoreInv, FilesInv, FilesInvOf, FilesHoldMemories
<1> QED BY <1>1, StoreInvHolds, PTL

\* Between the operations of memory_store.go the row and the search entry of every
\* memory that is not in doubt agree with its file, also after memories.db was
\* rebuilt from the files.
THEOREM IndexIsRight == Spec => []IndexAgrees
<1>1. StoreInv => IndexAgrees
  BY DEF StoreInv, IndexInv, IndexInvOf, Indexed, SearchAgrees, Entries, IndexAgrees
<1> QED BY <1>1, StoreInvHolds, PTL

\* So the two copies of a memory, its file and its row with the search entry, are both
\* what the operations of memory_store.go left, whatever failed or was killed before.
THEOREM StoreIsRight == Spec => []StoreAgrees
<1>1. FilesHoldMemories /\ IndexAgrees => StoreAgrees
  BY DEF StoreAgrees
<1> QED BY <1>1, FilesAreTheMemories, IndexIsRight, PTL

-----------------------------------------------------------------------------
(***************************************************************************)
(* Mining.  The manifest it writes is made from the one it began with, so  *)
(* the invariant speaks of both: of manifest, and of the one about to be   *)
(* written while a task is at "record".                                    *)
(***************************************************************************)

\* The open session is not mined, and a session's file is rendered as it ends.
Orderly == ~MineLive /\ "render" \notin FileFaults

\* A task that is not Idle.
Running ==
  [at : {"extract", "review", "archiving", "saving", "record"}, s : Sessions, m : Models,
   auto : BOOLEAN, forced : BOOLEAN, left : 0..MaxText, got : 0..MaxText, size : 0..MaxText,
   props : Seq(Proposal), next : Manifest]

\* A proposal the store may be asked to save.
NewProposal == [id : Ids, doc : [text : Texts, conf : NewConf]]

\* No session of the manifest m is both mined and failed.
OneOrTheOther(m) == \A f \in m.failed : m.mined[f[1]] = NotMined

\* Each session of the manifest m that is mined was read, from its whole file.
ReadWhole(m, files) ==
  \A s \in Sessions : m.mined[s] # NotMined => m.mined[s] = text[s] /\ files[s] = "full"

\* Of the mining under way.
TaskInv ==
  task # Idle =>
    /\ task.props \in Seq(NewProposal)
    /\ task.got + task.left = text[task.s]
    /\ task.at \in {"review", "archiving", "saving"} => task.left = 0 /\ task.props # <<>>
    /\ task.forced \/ manifest.mined[task.s] = NotMined
    /\ task.at = "record" => OneOrTheOther(task.next)

\* No process, no mining; a session is open until the mining at exit.
AtTheReader == task = Idle \/ ~task.auto
ProcessInv ==
  /\ op.at = "down" => task = Idle
  /\ op.at # "down" /\ AtTheReader => live \in Sessions

\* Of the sessions' files, and of what the manifest says was read of them.
ReadInv ==
  /\ ReadWhole(manifest, file)
  /\ \A s \in Sessions : file[s] # "left"
  /\ op.at # "down" => \A s \in Sessions : file[s] = "open" => s = live
  /\ op.at # "down" /\ AtTheReader => file[live] = "open"
  /\ task # Idle => file[task.s] = "full"
  /\ task # Idle /\ task.at = "record" => ReadWhole(task.next, file)

MineInv ==
  /\ MinerTypeOK
  /\ TaskInv
  /\ ProcessInv
  /\ OneOrTheOther(manifest)
  /\ Orderly => ReadInv

MinerInv == StoreInv /\ MineInv

-----------------------------------------------------------------------------
(* Tasks, manifests and proposals.                                         *)

LEMMA Tasks ==
  /\ Idle.at = "prompt" /\ Idle \in Task
  /\ \A t \in Running : t.at # "prompt" /\ t # Idle /\ t \in Task
  /\ \A t \in Task : t = Idle \/ t \in Running
  /\ \A t \in Task : t.at # "prompt" => t \in Running
<1>1. Idle.at = "prompt"
  BY DEF Idle
<1>2. \A t \in Running : t.at # "prompt"
  BY DEF Running
<1>3. Task = {Idle} \cup Running
  BY DEF Task, Running
<1> QED BY <1>1, <1>2, <1>3

LEMMA Proposals1 == NewProposal \subseteq Proposal /\ Seq(NewProposal) \subseteq Seq(Proposal)
<1>1. NewConf \subseteq Confs
  BY ConstantsOK
<1>2. \A p \in NewProposal : p \in Proposal
  <2> SUFFICES ASSUME NEW p \in NewProposal PROVE p \in Proposal
    OBVIOUS
  <2>1. p = [id |-> p.id, doc |-> p.doc] /\ p.id \in Ids /\ p.doc \in [text : Texts, conf : NewConf]
    BY DEF NewProposal
  <2>2. p.doc \in Doc
    BY <2>1, <1>1 DEF Doc
  <2> QED BY <2>1, <2>2 DEF Proposal
<1>3. \A q \in Seq(NewProposal) : q \in Seq(Proposal)
  <2> SUFFICES ASSUME NEW q \in Seq(NewProposal) PROVE q \in Seq(Proposal)
    OBVIOUS
  <2>1. \A i \in 1..Len(q) : q[i] \in Proposal
    BY <1>2
  <2> QED BY <2>1
<1> QED BY <1>2, <1>3

\* What a mining writes for a session it has read is a manifest, and true if the
\* manifest it began with was.
LEMMA RecordedIsTrue ==
  ASSUME MinerTypeOK, NEW s \in Sessions, NEW got \in 0..MaxText, NEW files
  PROVE  /\ Recorded(s, got) \in Manifest
         /\ OneOrTheOther(manifest) => OneOrTheOther(Recorded(s, got))
         /\ ReadWhole(manifest, files) /\ got = text[s] /\ files[s] = "full" => ReadWhole(Recorded(s, got), files)
<1> DEFINE r == Recorded(s, got)
<1>1. /\ manifest.mined \in [Sessions -> {NotMined} \cup 0..MaxText]
      /\ manifest.failed \in SUBSET (Sessions \X Models)
  BY DEF MinerTypeOK, Manifest
<1>2. /\ r.readable = manifest.readable
      /\ r.mined = [manifest.mined EXCEPT ![s] = got]
      /\ r.failed = {f \in manifest.failed : f[1] # s}
  BY <1>1 DEF Recorded
<1>3. r \in Manifest
  BY DEF MinerTypeOK, Manifest, Recorded
<1> HIDE DEF r
<1>4. OneOrTheOther(manifest) => OneOrTheOther(r)
  BY <1>1, <1>2 DEF OneOrTheOther
<1>5. ReadWhole(manifest, files) /\ got = text[s] /\ files[s] = "full" => ReadWhole(r, files)
  BY <1>1, <1>2 DEF ReadWhole
<1> QED BY <1>3, <1>4, <1>5 DEF r

LEMMA RecordedFailureIsTrue ==
  ASSUME MinerTypeOK, NEW s \in Sessions, NEW m \in Models, NEW forced \in BOOLEAN, NEW files
  PROVE  /\ RecordedFailure(s, m, forced) \in Manifest
         /\ OneOrTheOther(manifest) /\ (forced \/ manifest.mined[s] = NotMined)
              => OneOrTheOther(RecordedFailure(s, m, forced))
         /\ ReadWhole(manifest, files) => ReadWhole(RecordedFailure(s, m, forced), files)
<1> DEFINE r == RecordedFailure(s, m, forced)
<1>1. /\ manifest.mined \in [Sessions -> {NotMined} \cup 0..MaxText]
      /\ manifest.failed \in SUBSET (Sessions \X Models)
  BY DEF MinerTypeOK, Manifest
<1>2. /\ r.readable = manifest.readable
      /\ r.mined = [manifest.mined EXCEPT ![s] = IF forced THEN NotMined ELSE @]
      /\ r.failed = manifest.failed \cup {<<s, m>>}
  <2>1. manifest \in Manifest
    BY DEF MinerTypeOK
  <2>2. r.readable = manifest.readable
    BY <2>1 DEF RecordedFailure, Manifest
  <2>3. r.mined = [manifest.mined EXCEPT ![s] = IF forced THEN NotMined ELSE @]
    BY <2>1 DEF RecordedFailure, Manifest
  <2>4. r.failed = manifest.failed \cup {<<s, m>>}
    BY <2>1 DEF RecordedFailure, Manifest
  <2> QED BY <2>2, <2>3, <2>4
<1>3. r \in Manifest
  <2> DEFINE mined == [manifest.mined EXCEPT ![s] = IF forced THEN NotMined ELSE @]
             failed == manifest.failed \cup {<<s, m>>}
  <2>1. mined \in [Sessions -> {NotMined} \cup 0..MaxText] /\ failed \in SUBSET (Sessions \X Models)
    BY <1>1
  <2>2. r = [[manifest EXCEPT !.mined = mined] EXCEPT !.failed = failed]
    BY DEF RecordedFailure
  <2> HIDE DEF mined, failed, r
  <2> QED BY <2>1, <2>2 DEF MinerTypeOK, Manifest
<1> HIDE DEF r
<1>4. OneOrTheOther(manifest) /\ (forced \/ manifest.mined[s] = NotMined) => OneOrTheOther(r)
  <2> SUFFICES ASSUME OneOrTheOther(manifest), forced \/ manifest.mined[s] = NotMined,
                      NEW f \in r.failed
               PROVE  r.mined[f[1]] = NotMined
    BY DEF OneOrTheOther
  <2>1. CASE f = <<s, m>>
    BY <2>1, <1>1, <1>2
  <2>2. CASE f \in manifest.failed
    BY <2>2, <1>1, <1>2 DEF OneOrTheOther
  <2> QED BY <2>1, <2>2, <1>2
<1>5. ReadWhole(manifest, files) => ReadWhole(r, files)
  BY <1>1, <1>2 DEF ReadWhole
<1> QED BY <1>3, <1>4, <1>5 DEF r

-----------------------------------------------------------------------------
(* The process comes and goes with Open, Close and Crash.                  *)

LEMMA Ups ==
  /\ StoreInv /\ Steps => op.at # "down" /\ op'.at # "down"
  /\ \A id \in Ids, doc \in NewDoc : Save(id, doc) => op'.at # "down"
  /\ \A id \in Ids : Archive(id) \/ Flag(id) => op'.at # "down"
  /\ Open => op.at = "down" /\ op'.at # "down"
  /\ Close => op'.at = "down"
<1>1. ASSUME StoreInv, Steps PROVE op.at # "down" /\ op'.at # "down"
  <2>1. op \in Op
    BY <1>1 DEF StoreInv, StoreTypeOK
  <2>2. \A ok \in BOOLEAN : Done(ok).at = "idle"
    BY Ops
  <2>3. \A at \in Places : [op EXCEPT !.at = at].at = at
    BY <2>1 DEF Op
  <2>4. \A old \in File : [op EXCEPT !.at = "index", !.old = old].at = "index"
    BY <2>1 DEF Op
  <2>5. [op EXCEPT !.at = "move", !.flagged = TRUE].at = "move"
    BY <2>1 DEF Op
  <2>6. {"insert", "update", "delete", "mirror"} \subseteq Places
    BY DEF Places, Saving, Archiving, Flagging
  <2>7. op.id \in Ids => active[op.id] \in File
    BY <1>1 DEF StoreInv, StoreTypeOK
  <2>8. op.at = "write" => op.id \in Ids
    BY <1>1 DEF StoreInv, StepInv, Saving
  <2> QED BY <1>1, <2>2, <2>3, <2>4, <2>5, <2>6, <2>7, <2>8
          DEF Steps, SaveFile, SaveRow, SaveSearch, Move, UpdateRow, ArchiveSearch, Lower, Mirror, AfterMirror,
              RebuildOne, Rebuilt, GivesUp, Refused
<1>2. \A at \in Places, id \in Ids, doc \in File : Begin(at, id, doc).at = at
  BY Ops
<1>3. NewDoc \subseteq File /\ NoDoc \in File /\ {"write", "move", "lower"} \subseteq Places
  BY DEF NewDoc, File, Places, Saving, Archiving, Flagging
<1>4. ASSUME NEW id \in Ids, NEW doc \in NewDoc, Save(id, doc) PROVE op'.at # "down"
  <2>1. Begin("write", id, doc).at = "write"
    BY <1>2, <1>3
  <2>2. Done(FALSE).at = "idle"
    BY Ops
  <2> QED BY <1>4, <2>1, <2>2 DEF Save
<1>5. ASSUME NEW id \in Ids, Archive(id) \/ Flag(id) PROVE op'.at # "down"
  <2>1. Begin("move", id, NoDoc).at = "move" /\ Begin("lower", id, NoDoc).at = "lower"
    BY <1>2, <1>3
  <2>2. Done(FALSE).at = "idle"
    BY Ops
  <2> QED BY <1>5, <2>1, <2>2 DEF Archive, Flag
<1>6. ASSUME Open PROVE op.at = "down" /\ op'.at # "down"
  <2>1. [Down EXCEPT !.at = "rebuild"].at = "rebuild"
    BY Ops DEF Op
  <2> QED BY <1>6, <2>1, Ops DEF Open
<1>7. ASSUME Close PROVE op'.at = "down"
  BY <1>7, Ops DEF Close
<1> QED BY <1>1, <1>4, <1>5, <1>6, <1>7

-----------------------------------------------------------------------------
(* A step of the mining under way, and its end.                            *)

LEMMA TaskStep ==
  ASSUME MinerInv, task # Idle, task' \in Running, UNCHANGED <<text, file, live, manifest>>,
         op'.at # "down", task'.s = task.s, task'.auto = task.auto, TaskInv',
         Orderly /\ ReadInv /\ task'.at = "record" => ReadWhole(task'.next, file)
  PROVE  MineInv'
<1>1. task' # Idle /\ task' \in Task
  BY Tasks
<1>2. MinerTypeOK' /\ OneOrTheOther(manifest)'
  BY <1>1 DEF MinerInv, MineInv, MinerTypeOK, OneOrTheOther
<1>3. op.at # "down"
  BY DEF MinerInv, MineInv, ProcessInv
<1>4. ProcessInv'
  BY <1>1, <1>3 DEF MinerInv, MineInv, ProcessInv, AtTheReader
<1>5. ASSUME Orderly PROVE ReadInv'
  <2>1. ReadInv
    BY <1>5 DEF MinerInv, MineInv
  <2>2. ReadWhole(manifest, file)'
    BY <2>1 DEF ReadInv, ReadWhole
  <2>3. (task' # Idle /\ task'.at = "record") => ReadWhole(task.next, file)'
    BY <1>5, <2>1 DEF ReadWhole
  <2> QED BY <1>1, <1>3, <2>1, <2>2, <2>3 DEF ReadInv, AtTheReader
<1> QED BY <1>2, <1>4, <1>5 DEF MineInv

LEMMA TaskEnds ==
  ASSUME MinerInv, task # Idle, task' = Idle, UNCHANGED <<text, file, live>>,
         op'.at = "down" \/ ~task.auto,
         manifest' \in Manifest, OneOrTheOther(manifest'),
         Orderly /\ ReadInv => ReadWhole(manifest', file)
  PROVE  MineInv'
<1>1. MinerTypeOK' /\ OneOrTheOther(manifest)' /\ TaskInv'
  BY Tasks DEF MinerInv, MineInv, MinerTypeOK, OneOrTheOther, TaskInv
<1>2. op.at # "down"
  BY DEF MinerInv, MineInv, ProcessInv
<1>3. ProcessInv'
  BY <1>2 DEF MinerInv, MineInv, ProcessInv, AtTheReader
<1>4. ASSUME Orderly PROVE ReadInv'
  <2>1. ReadInv
    BY <1>4 DEF MinerInv, MineInv
  <2>2. ReadWhole(manifest, file)'
    BY <1>4, <2>1 DEF ReadWhole
  <2> QED BY <1>2, <2>1, <2>2 DEF ReadInv, AtTheReader
<1> QED BY <1>1, <1>3, <1>4 DEF MineInv

-----------------------------------------------------------------------------
(* The mining begins.                                                      *)

LEMMA FreshTask ==
  ASSUME MinerInv, NEW s \in Sessions, NEW m \in Models, NEW auto \in BOOLEAN, NEW forced \in BOOLEAN,
         NEW size \in 0..MaxText
  PROVE  LET t == Fresh(s, m, auto, forced, size)
         IN /\ t \in Running /\ t.at = "extract" /\ t.s = s /\ t.auto = auto /\ t.forced = forced
            /\ t.props = <<>> /\ t.got + t.left = text[s]
<1> DEFINE t == Fresh(s, m, auto, forced, size)
<1>1. text[s] \in 0..MaxText /\ manifest \in Manifest /\ 0 \in 0..MaxText /\ <<>> \in Seq(Proposal)
  BY MinerConstantsOK DEF MinerInv, MineInv, MinerTypeOK
<1>2. t \in Running
  BY <1>1 DEF Fresh, Running
<1>3. /\ t.at = "extract" /\ t.s = s /\ t.auto = auto /\ t.forced = forced
      /\ t.props = <<>> /\ t.left = text[s] /\ t.got = 0
  BY DEF Fresh
<1>4. t.got + t.left = text[s]
  BY <1>1, <1>3
<1> QED BY <1>2, <1>3, <1>4

LEMMA RecordTask ==
  ASSUME NEW t \in Running, NEW next \in Manifest
  PROVE  LET r == Record(t, next)
         IN /\ r \in Running /\ r.at = "record" /\ r.next = next
            /\ r.s = t.s /\ r.auto = t.auto /\ r.forced = t.forced
            /\ r.props = t.props /\ r.got = t.got /\ r.left = t.left
<1>1. Record(t, next) \in Running
  BY DEF Record, Running
<1>2. LET r == Record(t, next)
      IN /\ r.at = "record" /\ r.next = next
         /\ r.s = t.s /\ r.auto = t.auto /\ r.forced = t.forced
         /\ r.props = t.props /\ r.got = t.got /\ r.left = t.left
  BY DEF Record, Running
<1> QED BY <1>1, <1>2

\* A task as it begins is one that may run, whatever file it began from.
LEMMA BeginsTask ==
  ASSUME MinerInv, NEW s \in Sessions, NEW f, NEW m \in Models, NEW auto \in BOOLEAN, NEW forced \in BOOLEAN,
         forced \/ manifest.mined[s] = NotMined,
         NEW t \in Begins(s, f, m, auto, forced)
  PROVE  /\ t \in Running /\ t.at \in {"extract", "record"}
         /\ t.s = s /\ t.auto = auto /\ t.forced = forced
         /\ t.props = <<>> /\ t.got + t.left = text[s]
         /\ t.at = "record" => OneOrTheOther(t.next)
<1>1. MinerTypeOK /\ OneOrTheOther(manifest) /\ 0 \in 0..MaxText
  BY MinerConstantsOK DEF MinerInv, MineInv
<1> DEFINE fresh == Fresh(s, m, auto, forced, 0)
<1>2. CASE SessionIsEmpty(s, f) /\ t = Record(fresh, Recorded(s, 0))
  <2>1. fresh \in Running /\ Recorded(s, 0) \in Manifest
    BY <1>1, FreshTask, RecordedIsTrue
  <2>2. OneOrTheOther(Recorded(s, 0))
    BY <1>1, RecordedIsTrue
  <2> QED BY <1>1, <1>2, <2>1, <2>2, FreshTask, RecordTask
<1>3. CASE t \in {Fresh(s, m, auto, forced, size) : size \in 0..MaxText}
  BY <1>3, FreshTask
<1>4. CASE t = Record(fresh, RecordedFailure(s, m, forced))
  <2>1. fresh \in Running /\ RecordedFailure(s, m, forced) \in Manifest
    BY <1>1, FreshTask, RecordedFailureIsTrue
  <2>2. OneOrTheOther(RecordedFailure(s, m, forced))
    BY <1>1, RecordedFailureIsTrue
  <2> QED BY <1>1, <1>4, <2>1, <2>2, FreshTask, RecordTask
<1> QED BY <1>2, <1>3, <1>4 DEF Begins

\* A task that begins from a whole file and ends at once records the truth.
LEMMA BeginsTruly ==
  ASSUME MinerInv, NEW s \in Sessions, NEW m \in Models, NEW auto \in BOOLEAN, NEW forced \in BOOLEAN,
         NEW files, ReadWhole(manifest, files), files[s] = "full",
         NEW t \in Begins(s, "full", m, auto, forced), t.at = "record"
  PROVE  ReadWhole(t.next, files)
<1>1. MinerTypeOK /\ 0 \in 0..MaxText
  BY MinerConstantsOK DEF MinerInv, MineInv
<1> DEFINE fresh == Fresh(s, m, auto, forced, 0)
<1>2. fresh \in Running
  BY <1>1, FreshTask
<1>3. CASE SessionIsEmpty(s, "full") /\ t = Record(fresh, Recorded(s, 0))
  <2>1. Recorded(s, 0) \in Manifest
    BY <1>1, RecordedIsTrue
  <2>2. ReadWhole(Recorded(s, 0), files)
    BY <1>1, <1>3, RecordedIsTrue DEF SessionIsEmpty
  <2> QED BY <1>2, <1>3, <2>1, <2>2, RecordTask
<1>4. CASE t \in {Fresh(s, m, auto, forced, size) : size \in 0..MaxText}
  BY <1>4, FreshTask
<1>5. CASE t = Record(fresh, RecordedFailure(s, m, forced))
  <2>1. RecordedFailure(s, m, forced) \in Manifest
    BY <1>1, RecordedFailureIsTrue
  <2>2. ReadWhole(RecordedFailure(s, m, forced), files)
    BY <1>1, RecordedFailureIsTrue
  <2> QED BY <1>2, <1>5, <2>1, <2>2, RecordTask
<1> QED BY <1>3, <1>4, <1>5 DEF Begins

LEMMA MineStep ==
  ASSUME MinerInv, NEW s \in Sessions, NEW m \in Models, NEW forced \in BOOLEAN, Mine(s, m, forced)
  PROVE  MineInv'
<1>1. /\ task = Idle /\ op.at = "idle" /\ op' = op /\ UNCHANGED <<text, file, live, manifest>>
      /\ task' \in Begins(s, file[s], m, FALSE, forced)
      /\ forced \/ manifest.mined[s] = NotMined
      /\ file[s] # "none" /\ (s = live => MineLive)
  BY DEF Mine, AtPrompt, storeVars, Mined
<1>2. /\ task' \in Running /\ task'.s = s /\ task'.auto = FALSE /\ task'.forced = forced
      /\ task'.at \in {"extract", "record"} /\ task'.props = <<>> /\ task'.got + task'.left = text[s]
      /\ task'.at = "record" => OneOrTheOther(task'.next)
  <2>1. PICK auto \in BOOLEAN : auto = FALSE
    OBVIOUS
  <2>2. task' \in Begins(s, file[s], m, auto, forced)
    BY <1>1, <2>1
  <2> QED BY <1>1, <2>1, <2>2, BeginsTask
<1>3. task' # Idle /\ task' \in Task
  BY <1>2, Tasks
<1>4. MinerTypeOK' /\ OneOrTheOther(manifest)'
  BY <1>1, <1>3 DEF MinerInv, MineInv, MinerTypeOK, OneOrTheOther
<1>5. TaskInv'
  <2>1. task'.props \in Seq(NewProposal)
    BY <1>2
  <2>2. (task.at = "record" => OneOrTheOther(task.next))'
    BY <1>2 DEF OneOrTheOther
  <2> QED BY <1>1, <1>2, <2>1, <2>2 DEF TaskInv
<1>6. ProcessInv'
  BY <1>1, <1>2, <1>3 DEF MinerInv, MineInv, ProcessInv, AtTheReader
<1>7. ASSUME Orderly PROVE ReadInv'
  <2>1. ReadInv
    BY <1>7 DEF MinerInv, MineInv
  <2>2. file[s] = "full"
    BY <1>1, <1>7, <2>1 DEF ReadInv, Orderly, MinerInv, MineInv, MinerTypeOK, FileStates
  <2>3. ReadWhole(manifest, file)'
    BY <1>1, <2>1 DEF ReadInv, ReadWhole
  <2>4. ReadWhole(manifest, file)
    BY <2>1 DEF ReadInv
  <2>5. task'.at = "record" => ReadWhole(task'.next, file)
    BY <1>1, <2>2, <2>4, BeginsTruly
  <2>6. (task' # Idle /\ task'.at = "record") => ReadWhole(task.next, file)'
    BY <1>1, <2>5 DEF ReadWhole
  <2> QED BY <1>1, <1>2, <1>3, <2>1, <2>2, <2>3, <2>6 DEF ReadInv, AtTheReader
<1> QED BY <1>4, <1>5, <1>6, <1>7 DEF MineInv

\* The open session's file as its session ends.
LEMMA FinishFile ==
  ASSUME MinerInv, AtPrompt, Finish
  PROVE  /\ live \in Sessions /\ live' = NoSession /\ file' \in [Sessions -> FileStates]
         /\ \A s \in Sessions \ {live} : file'[s] = file[s]
         /\ "render" \notin FileFaults => file'[live] = "full"
         /\ file'[live] \in {"full", "left"}
<1>1. live \in Sessions /\ file \in [Sessions -> FileStates]
  BY DEF AtPrompt, MinerInv, MineInv, MinerTypeOK, ProcessInv, AtTheReader
<1>2. PICK f \in {"full"} \cup (IF "render" \in FileFaults THEN {"left"} ELSE {}) :
        file' = [file EXCEPT ![live] = f]
  BY DEF Finish
<1>3. f \in {"full", "left"} /\ ("render" \notin FileFaults => f = "full") /\ f \in FileStates
  BY <1>2 DEF FileStates
<1> QED BY <1>1, <1>2, <1>3 DEF Finish

LEMMA EndOfInputStep ==
  ASSUME MinerInv, AtPrompt, Finish, Close, UNCHANGED <<text, manifest, task>>
  PROVE  MineInv'
<1>1. task = Idle /\ op.at = "idle" /\ op'.at = "down"
  BY Ups DEF AtPrompt
<1>2. MinerTypeOK' /\ OneOrTheOther(manifest)' /\ TaskInv' /\ ProcessInv'
  BY <1>1, FinishFile DEF MinerInv, MineInv, MinerTypeOK, OneOrTheOther, TaskInv, ProcessInv
<1>3. ASSUME Orderly PROVE ReadInv'
  <2>1. ReadInv
    BY <1>3 DEF MinerInv, MineInv
  <2>2. ReadWhole(manifest, file)'
    BY <1>3, <2>1, FinishFile DEF ReadInv, ReadWhole, Orderly
  <2>3. \A s \in Sessions : file'[s] # "left"
    BY <1>3, <2>1, FinishFile DEF ReadInv, Orderly
  <2> QED BY <1>1, <2>2, <2>3 DEF ReadInv
<1> QED BY <1>2, <1>3 DEF MineInv

LEMMA ExitStep ==
  ASSUME MinerInv, NEW m \in Models, Exit(m)
  PROVE  MineInv'
<1>1. AtPrompt /\ Finish /\ UNCHANGED <<text, manifest>>
  BY DEF Exit
<1>2. CASE MinedAtExit(m)
  <2>1. /\ task = Idle /\ op.at = "idle" /\ op' = op
        /\ task' \in Begins(live, file'[live], m, TRUE, FALSE)
        /\ manifest.mined[live] = NotMined
    BY <1>1, <1>2 DEF Exit, AtPrompt, MinedAtExit, Mined, storeVars
  <2>2. /\ task' \in Running /\ task'.s = live /\ task'.auto = TRUE
        /\ task'.at \in {"extract", "record"} /\ task'.props = <<>> /\ task'.got + task'.left = text[live]
        /\ task'.at = "record" => OneOrTheOther(task'.next)
    <3>1. live \in Sessions /\ (FALSE \/ manifest.mined[live] = NotMined)
      BY <1>1, <2>1, FinishFile
    <3>2. PICK auto \in BOOLEAN, forced \in BOOLEAN : auto = TRUE /\ forced = FALSE
      OBVIOUS
    <3>3. task' \in Begins(live, file'[live], m, auto, forced) /\ (forced \/ manifest.mined[live] = NotMined)
      BY <2>1, <3>2
    <3>4. /\ task' \in Running /\ task'.s = live /\ task'.auto = auto
          /\ task'.at \in {"extract", "record"} /\ task'.props = <<>> /\ task'.got + task'.left = text[live]
          /\ task'.at = "record" => OneOrTheOther(task'.next)
      BY <3>1, <3>3, BeginsTask
    <3> QED BY <3>2, <3>4
  <2>3. task' # Idle /\ task' \in Task
    BY <2>2, Tasks
  <2>4. MinerTypeOK' /\ OneOrTheOther(manifest)' /\ ProcessInv'
    BY <1>1, <2>1, <2>2, <2>3, FinishFile
       DEF MinerInv, MineInv, MinerTypeOK, OneOrTheOther, ProcessInv, AtTheReader
  <2>5. TaskInv'
    <3>1. (task.at = "record" => OneOrTheOther(task.next))'
      BY <2>2 DEF OneOrTheOther
    <3>2. task'.props \in Seq(NewProposal)
      BY <2>2
    <3> QED BY <1>1, <2>1, <2>2, <3>1, <3>2 DEF TaskInv
  <2>6. ASSUME Orderly PROVE ReadInv'
    <3>1. ReadInv
      BY <2>6 DEF MinerInv, MineInv
    <3>2. file'[live] = "full" /\ live \in Sessions /\ \A s \in Sessions \ {live} : file'[s] = file[s]
      BY <1>1, <2>6, FinishFile DEF Orderly
    <3>3. ReadWhole(manifest, file')
      BY <3>1, <3>2 DEF ReadInv, ReadWhole
    <3>4. ReadWhole(manifest, file)'
      BY <1>1, <3>3 DEF ReadWhole
    <3>5. task'.at = "record" => ReadWhole(task'.next, file')
      BY <2>1, <3>2, <3>3, BeginsTruly
    <3>6. (task' # Idle /\ task'.at = "record") => ReadWhole(task.next, file)'
      BY <1>1, <3>5 DEF ReadWhole
    <3>7. \A s \in Sessions : file'[s] # "left" /\ file'[s] # "open"
      BY <2>1, <3>1, <3>2 DEF ReadInv
    <3> QED BY <2>1, <2>2, <2>3, <3>2, <3>4, <3>6, <3>7 DEF ReadInv, AtTheReader
  <2> QED BY <2>4, <2>5, <2>6 DEF MineInv
<1>3. CASE ~MinedAtExit(m)
  BY <1>1, <1>3, EndOfInputStep DEF Exit
<1> QED BY <1>2, <1>3

-----------------------------------------------------------------------------
(* The session, the store's own steps, and a killed process.               *)

LEMMA StartStep ==
  ASSUME MinerInv, NEW s \in Sessions, Start(s)
  PROVE  MineInv'
<1>1. op.at = "down" /\ op'.at # "down" /\ task = Idle
  BY Ups DEF Start, MinerInv, MineInv, ProcessInv
<1>2. file \in [Sessions -> FileStates] /\ file[s] = "none"
  BY DEF Start, MinerInv, MineInv, MinerTypeOK
<1>3. /\ file' = [r \in Sessions |-> IF r = s THEN "open" ELSE IF file[r] = "open" THEN "full" ELSE file[r]]
      /\ live' = s /\ UNCHANGED <<text, manifest, task>>
  BY DEF Start
<1>4. MinerTypeOK' /\ OneOrTheOther(manifest)' /\ TaskInv' /\ ProcessInv'
  BY <1>1, <1>2, <1>3 DEF MinerInv, MineInv, MinerTypeOK, FileStates, OneOrTheOther, TaskInv, ProcessInv
<1>5. ASSUME Orderly PROVE ReadInv'
  <2>1. ReadInv
    BY <1>5 DEF MinerInv, MineInv
  <2>2. ReadWhole(manifest, file)'
    BY <1>2, <1>3, <2>1 DEF ReadInv, ReadWhole
  <2> QED BY <1>1, <1>2, <1>3, <2>1, <2>2 DEF ReadInv
<1> QED BY <1>4, <1>5 DEF MineInv

LEMMA TurnStep ==
  ASSUME MinerInv, Turn
  PROVE  MineInv'
<1>1. task = Idle /\ op.at = "idle" /\ op' = op /\ UNCHANGED <<file, live, manifest, task>>
      /\ live \in Sessions
  BY DEF Turn, AtPrompt, storeVars, MinerInv, MineInv, ProcessInv, AtTheReader
<1>2. text' = [text EXCEPT ![live] = @ + 1] /\ text[live] < MaxText
      /\ text \in [Sessions -> 0..MaxText] /\ MaxText \in Nat
  BY MinerConstantsOK DEF Turn, MinerInv, MineInv, MinerTypeOK
<1>3. text' \in [Sessions -> 0..MaxText]
  BY <1>1, <1>2
<1>4. MinerTypeOK' /\ OneOrTheOther(manifest)' /\ TaskInv' /\ ProcessInv'
  BY <1>1, <1>3 DEF MinerInv, MineInv, MinerTypeOK, OneOrTheOther, TaskInv, ProcessInv, AtTheReader
<1>5. ASSUME Orderly PROVE ReadInv'
  <2>1. ReadInv
    BY <1>5 DEF MinerInv, MineInv
  <2>2. manifest.mined[live] = NotMined
    BY <1>1, <2>1 DEF ReadInv, ReadWhole, AtTheReader
  <2>3. ReadWhole(manifest, file)'
    BY <1>1, <1>2, <2>1, <2>2 DEF ReadInv, ReadWhole
  <2> QED BY <1>1, <2>1, <2>3 DEF ReadInv, AtTheReader
<1> QED BY <1>4, <1>5 DEF MineInv

\* The store's steps are seen here only by whether the process is up.
LEMMA StoreOnly ==
  ASSUME MinerInv, UNCHANGED minerVars, op.at = "down" <=> op'.at = "down"
  PROVE  MineInv'
<1>1. UNCHANGED <<text, file, live, manifest, task>>
  BY DEF minerVars
<1>2. MinerTypeOK' /\ OneOrTheOther(manifest)' /\ ProcessInv'
  BY <1>1 DEF MinerInv, MineInv, MinerTypeOK, OneOrTheOther, ProcessInv, AtTheReader
<1>3. TaskInv'
  BY <1>1 DEF MinerInv, MineInv, TaskInv, OneOrTheOther
<1>4. ASSUME Orderly PROVE ReadInv'
  BY <1>1, <1>4 DEF MinerInv, MineInv, ReadInv, ReadWhole, AtTheReader
<1> QED BY <1>2, <1>3, <1>4 DEF MineInv

LEMMA StoreStepStep ==
  ASSUME MinerInv, StoreStep \/ StoreCommand
  PROVE  MineInv'
<1>1. CASE Steps /\ UNCHANGED minerVars
  BY <1>1, Ups, StoreOnly DEF MinerInv
<1>2. CASE DropDatabase /\ UNCHANGED minerVars
  BY <1>2, StoreOnly DEF DropDatabase
<1>3. CASE StoreCommand
  BY <1>3, Ups, StoreOnly DEF StoreCommand, AtPrompt
<1> QED BY <1>1, <1>2, <1>3 DEF StoreStep

LEMMA CutManifests ==
  ASSUME NEW m \in Manifest, OneOrTheOther(m), NEW c \in Cuts(m)
  PROVE  /\ c \in Manifest /\ OneOrTheOther(c)
         /\ ReadWhole(m, file) => ReadWhole(c, file)
<1>1. CASE c = [m EXCEPT !.readable = FALSE]
  <2>1. c \in Manifest /\ c.mined = m.mined /\ c.failed = m.failed
    BY <1>1 DEF Manifest
  <2> QED BY <2>1 DEF OneOrTheOther, ReadWhole
<1>2. CASE \E kept \in SUBSET Sessions :
             c = [m EXCEPT !.mined = [s \in Sessions |-> IF s \in kept THEN @[s] ELSE NotMined], !.failed = {}]
  <2>1. PICK kept \in SUBSET Sessions :
          c = [m EXCEPT !.mined = [s \in Sessions |-> IF s \in kept THEN @[s] ELSE NotMined], !.failed = {}]
    BY <1>2
  <2>2. m.mined \in [Sessions -> {NotMined} \cup 0..MaxText]
    BY DEF Manifest
  <2>3. c.mined = [s \in Sessions |-> IF s \in kept THEN m.mined[s] ELSE NotMined] /\ c.failed = {}
    BY <2>1 DEF Manifest
  <2>4. c \in Manifest
    BY <2>1, <2>2 DEF Manifest
  <2> QED BY <2>3, <2>4 DEF OneOrTheOther, ReadWhole
<1> QED BY <1>1, <1>2 DEF Cuts

LEMMA KilledStep ==
  ASSUME MinerInv, Killed
  PROVE  MineInv'
<1>1. op'.at = "down" /\ task' = Idle /\ live' = NoSession /\ UNCHANGED <<text, file>>
  BY Ops DEF Killed, Crash
<1>2. MinerTypeOK /\ OneOrTheOther(manifest) /\ (Orderly => ReadInv)
  BY DEF MinerInv, MineInv
<1>3. task.at = "record" => /\ task.next \in Manifest /\ OneOrTheOther(task.next)
                            /\ ReadInv => ReadWhole(task.next, file)
  BY Tasks DEF MinerInv, MineInv, MinerTypeOK, TaskInv, ReadInv, Running
<1>4. /\ manifest' \in Manifest /\ OneOrTheOther(manifest')
      /\ ReadInv => ReadWhole(manifest', file)
  <2>1. CASE manifest' = manifest
    BY <1>2, <2>1 DEF MinerTypeOK, ReadInv
  <2>2. CASE task.at = "record" /\ manifest' \in Cuts(task.next)
    BY <1>3, <2>2, CutManifests
  <2> QED BY <2>1, <2>2 DEF Killed
<1>5. MinerTypeOK' /\ TaskInv' /\ ProcessInv' /\ OneOrTheOther(manifest)'
  BY <1>1, <1>2, <1>4, Tasks DEF MinerTypeOK, TaskInv, ProcessInv, OneOrTheOther
<1>6. ASSUME Orderly PROVE ReadInv'
  <2>1. ReadWhole(manifest, file)'
    BY <1>1, <1>2, <1>4, <1>6 DEF ReadWhole
  <2> QED BY <1>1, <1>2, <1>6, <2>1 DEF ReadInv
<1> QED BY <1>5, <1>6 DEF MineInv

-----------------------------------------------------------------------------
(* The model is asked, part by part.                                       *)

\* What every step of a mining finds.
LEMMA UnderWay ==
  ASSUME MinerInv, task.at # "prompt"
  PROVE  /\ task # Idle /\ task \in Running /\ MinerTypeOK /\ op.at # "down"
         /\ task.s \in Sessions /\ task.m \in Models /\ task.forced \in BOOLEAN /\ task.auto \in BOOLEAN
         /\ task.left \in 0..MaxText /\ task.got \in 0..MaxText /\ task.size \in 0..MaxText
         /\ task.next \in Manifest /\ task.props \in Seq(NewProposal)
         /\ text[task.s] \in 0..MaxText /\ MaxText \in Nat
         /\ OneOrTheOther(manifest) /\ (task.forced \/ manifest.mined[task.s] = NotMined)
         /\ task.got + task.left = text[task.s]
<1>1. task \in Running /\ task # Idle
  BY Tasks DEF MinerInv, MineInv, MinerTypeOK
<1>2. /\ task.s \in Sessions /\ task.m \in Models /\ task.forced \in BOOLEAN /\ task.auto \in BOOLEAN
      /\ task.left \in 0..MaxText /\ task.got \in 0..MaxText /\ task.size \in 0..MaxText
      /\ task.next \in Manifest
  BY <1>1 DEF Running
<1>3. task.props \in Seq(NewProposal) /\ task.got + task.left = text[task.s]
      /\ (task.forced \/ manifest.mined[task.s] = NotMined)
  BY <1>1 DEF MinerInv, MineInv, TaskInv
<1>4. MinerTypeOK /\ op.at # "down" /\ OneOrTheOther(manifest)
  BY <1>1 DEF MinerInv, MineInv, ProcessInv
<1>5. text[task.s] \in 0..MaxText /\ MaxText \in Nat
  BY <1>2, <1>4, MinerConstantsOK DEF MinerTypeOK
<1> QED BY <1>1, <1>2, <1>3, <1>4, <1>5

\* A part is some of what is left, and all of it if its size is not limited.
LEMMA Parts ==
  ASSUME MinerInv, task.at = "extract", NEW chunk \in Chunks
  PROVE  chunk \in 0..task.left /\ chunk \in 0..MaxText
<1>1. task.left \in 0..MaxText /\ task.size \in 0..MaxText /\ MaxText \in Nat
  BY UnderWay
<1> QED BY <1>1 DEF Chunks

\* What is proposed may be saved, and is never more than was there by one.
LEMMA Proposed ==
  ASSUME MinerInv, task.at = "extract", NEW props \in Proposals
  PROVE  props \in Seq(NewProposal)
<1>1. task.props \in Seq(NewProposal)
  BY UnderWay
<1>2. CASE props = task.props
  BY <1>1, <1>2
<1>3. ASSUME NEW id \in NewIds, NEW t \in Texts, NEW c \in NewConf,
             props = WithProposal(task.props, [id |-> id, doc |-> [text |-> t, conf |-> c]])
      PROVE  props \in Seq(NewProposal)
  <2> DEFINE p == [id |-> id, doc |-> [text |-> t, conf |-> c]]
  <2>1. p \in NewProposal
    BY DEF NewIds, NewProposal
  <2> HIDE DEF p
  <2>2. Append(task.props, p) \in Seq(NewProposal)
    BY <1>1, <2>1
  <2> QED BY <1>1, <1>3, <2>2 DEF WithProposal, p
<1>4. props \in {task.props} \/
      \E id \in NewIds, t \in Texts, c \in NewConf :
         props = WithProposal(task.props, [id |-> id, doc |-> [text |-> t, conf |-> c]])
  <2>1. CASE Len(task.props) < MaxProps
    <3> DEFINE With(id, t, c) == WithProposal(task.props, [id |-> id, doc |-> [text |-> t, conf |-> c]])
           S == {With(id, t, c) : id \in NewIds, t \in Texts, c \in NewConf}
    <3>0. Proposals = {task.props} \cup IF Len(task.props) < MaxProps THEN S ELSE {}
      BY DEF Proposals
    <3> HIDE DEF With, S
    <3>1. props \in {task.props} \cup S
      BY <2>1, <3>0
    <3> USE DEF S
    <3>2. props \in {task.props} \/ \E id \in NewIds, t \in Texts, c \in NewConf : props = With(id, t, c)
      BY <3>1
    <3> QED BY <3>2 DEF With
  <2>2. CASE ~(Len(task.props) < MaxProps)
    BY <2>2 DEF Proposals
  <2> QED BY <2>1, <2>2
<1> QED BY <1>2, <1>3, <1>4

\* A step that ends in a manifest to write.
LEMMA RecordStep ==
  ASSUME MinerInv, task.at # "prompt", UNCHANGED <<text, file, live, manifest>>, op'.at # "down",
         NEW t \in Running, NEW next \in Manifest, task' = Record(t, next),
         t.s = task.s, t.auto = task.auto, t.forced = task.forced,
         t.props \in Seq(NewProposal), t.got + t.left = text[task.s],
         OneOrTheOther(next), Orderly /\ ReadInv => ReadWhole(next, file)
  PROVE  MineInv'
<1>1. /\ task' \in Running /\ task'.at = "record" /\ task'.next = next
      /\ task'.s = t.s /\ task'.auto = t.auto /\ task'.forced = t.forced
      /\ task'.props = t.props /\ task'.got = t.got /\ task'.left = t.left
  BY RecordTask
<1>2. OneOrTheOther(task.next)'
  BY <1>1 DEF OneOrTheOther
<1>3. TaskInv'
  BY <1>1, <1>2, UnderWay DEF TaskInv
<1> QED BY <1>1, <1>3, UnderWay, TaskStep

LEMMA ReadPartStep ==
  ASSUME MinerInv, ReadPart
  PROVE  MineInv'
<1>1. task.at = "extract" /\ UNCHANGED <<text, file, live, manifest>> /\ op' = op
  BY DEF ReadPart, storeVars
<1>2. PICK chunk \in Chunks, props \in Proposals :
        LET done == [task EXCEPT !.left = @ - chunk, !.got = @ + chunk, !.props = props]
        IN task' = IF done.left > 0 THEN done
                   ELSE IF props # <<>> THEN [done EXCEPT !.at = "review"]
                   ELSE Record(done, Recorded(task.s, done.got))
  BY DEF ReadPart
<1> DEFINE done == [task EXCEPT !.left = @ - chunk, !.got = @ + chunk, !.props = props]
<1>3. chunk \in 0..task.left /\ props \in Seq(NewProposal) /\ props \in Seq(Proposal)
  BY <1>1, Parts, Proposed, Proposals1
<1>4. task.left - chunk \in 0..MaxText /\ task.got + chunk \in 0..MaxText
      /\ (task.got + chunk) + (task.left - chunk) = text[task.s]
  <2>1. /\ task.left \in 0..MaxText /\ task.got \in 0..MaxText /\ text[task.s] \in 0..MaxText
        /\ MaxText \in Nat /\ task.got + task.left = text[task.s]
    BY <1>1, UnderWay
  <2> QED BY SMTT(30), <1>3, <2>1
<1>5. task \in Running
  BY <1>1, UnderWay
<1>6. done \in Running
  BY <1>3, <1>4, <1>5 DEF Running
<1>7. /\ done.at = "extract" /\ done.s = task.s /\ done.auto = task.auto /\ done.forced = task.forced
      /\ done.left = task.left - chunk /\ done.got = task.got + chunk /\ done.props = props
  BY <1>1, <1>5 DEF Running
<1> HIDE DEF done
<1>8. CASE task' = done
  <2>1. TaskInv'
    BY <1>1, <1>3, <1>4, <1>7, <1>8, UnderWay DEF TaskInv
  <2> QED BY <1>1, <1>6, <1>7, <1>8, <2>1, UnderWay, TaskStep
<1>9. CASE done.left <= 0 /\ props # <<>> /\ task' = [done EXCEPT !.at = "review"]
  <2>1. /\ task' \in Running /\ task'.at = "review" /\ task'.s = task.s /\ task'.auto = task.auto
        /\ task'.forced = task.forced /\ task'.left = done.left /\ task'.got = done.got /\ task'.props = props
    BY <1>6, <1>7, <1>9 DEF Running
  <2>2. task'.left = 0
    BY <1>4, <1>7, <1>9, <2>1
  <2>3. TaskInv'
    BY <1>1, <1>3, <1>4, <1>7, <1>9, <2>1, <2>2, UnderWay DEF TaskInv
  <2> QED BY <1>1, <2>1, <2>3, UnderWay, TaskStep
<1>10. CASE done.left <= 0 /\ task' = Record(done, Recorded(task.s, done.got))
  <2>1. done.got = text[task.s] /\ done.got \in 0..MaxText
    BY <1>1, <1>4, <1>7, <1>10, UnderWay
  <2>2. Recorded(task.s, done.got) \in Manifest /\ OneOrTheOther(Recorded(task.s, done.got))
    BY <1>1, <2>1, UnderWay, RecordedIsTrue
  <2>3. Orderly /\ ReadInv => ReadWhole(Recorded(task.s, done.got), file)
    BY <1>1, <2>1, UnderWay, RecordedIsTrue DEF ReadInv
  <2> QED BY <1>1, <1>3, <1>4, <1>6, <1>7, <1>10, <2>2, <2>3, UnderWay, RecordStep
<1> QED BY <1>2, <1>4, <1>7, <1>8, <1>9, <1>10 DEF done

LEMMA CannotTakeStep ==
  ASSUME MinerInv, CannotTake
  PROVE  MineInv'
<1>1. task.at = "extract" /\ UNCHANGED <<text, file, live, manifest>> /\ op' = op
  BY DEF CannotTake, storeVars
<1>2. PICK chunk \in Chunks :
        LET half == chunk \div 2
        IN task' = IF half >= 1 /\ (task.size = 0 \/ half < task.size)
                   THEN [task EXCEPT !.size = half]
                   ELSE Record(task, RecordedFailure(task.s, task.m, task.forced))
  BY DEF CannotTake
<1>3. chunk \div 2 \in 0..MaxText
  <2>1. chunk \in 0..MaxText /\ MaxText \in Nat
    BY <1>1, <1>2, Parts, UnderWay
  <2> QED BY <2>1
<1>4. task \in Running
  BY <1>1, UnderWay
<1>5. CASE task' = [task EXCEPT !.size = chunk \div 2]
  <2>1. /\ task' \in Running /\ task'.at = task.at /\ task'.s = task.s /\ task'.auto = task.auto
        /\ task'.forced = task.forced /\ task'.left = task.left /\ task'.got = task.got
        /\ task'.props = task.props
    BY <1>3, <1>4, <1>5 DEF Running
  <2>2. TaskInv'
    BY <1>1, <2>1, UnderWay DEF TaskInv
  <2> QED BY <1>1, <2>1, <2>2, UnderWay, TaskStep
<1>6. CASE task' = Record(task, RecordedFailure(task.s, task.m, task.forced))
  <2> DEFINE next == RecordedFailure(task.s, task.m, task.forced)
  <2>1. task.s \in Sessions /\ task.m \in Models /\ task.forced \in BOOLEAN
    BY <1>1, UnderWay
  <2>2. next \in Manifest /\ OneOrTheOther(next)
    BY <1>1, <2>1, UnderWay, RecordedFailureIsTrue
  <2>3. Orderly /\ ReadInv => ReadWhole(next, file)
    BY <1>1, <2>1, UnderWay, RecordedFailureIsTrue DEF ReadInv
  <2> HIDE DEF next
  <2>4. task' = Record(task, next)
    BY <1>6 DEF next
  <2> QED BY <1>1, <1>4, <2>2, <2>3, <2>4, UnderWay, RecordStep
<1> QED BY <1>2, <1>5, <1>6

LEMMA UnreachableStep ==
  ASSUME MinerInv, Unreachable
  PROVE  MineInv'
<1>1. task.at = "extract" /\ UNCHANGED <<text, file, live, manifest>> /\ task' = Idle
      /\ (op'.at = "down" \/ ~task.auto)
  BY Ups DEF Unreachable, Over
<1>2. task # Idle /\ manifest \in Manifest /\ OneOrTheOther(manifest)
  BY <1>1, UnderWay DEF MinerTypeOK
<1> QED BY <1>1, <1>2, TaskEnds DEF ReadInv

LEMMA WriteManifestStep ==
  ASSUME MinerInv, WriteManifest
  PROVE  MineInv'
<1>1. task.at = "record" /\ UNCHANGED <<text, file, live>> /\ task' = Idle
      /\ (op'.at = "down" \/ ~task.auto) /\ manifest' \in {task.next, manifest}
  BY Ups DEF WriteManifest, Over
<1>2. task # Idle /\ manifest \in Manifest /\ OneOrTheOther(manifest) /\ task.next \in Manifest
  BY <1>1, UnderWay DEF MinerTypeOK
<1>3. OneOrTheOther(task.next) /\ (ReadInv => ReadWhole(task.next, file))
  BY <1>1, <1>2 DEF MinerInv, MineInv, TaskInv, ReadInv
<1> QED BY <1>1, <1>2, <1>3, TaskEnds DEF ReadInv

-----------------------------------------------------------------------------
(* The review.                                                             *)

\* Between the parts and the manifest everything was read, and there is a first
\* proposal, which may be saved.
LEMMA Reviewing ==
  ASSUME MinerInv, task.at \in {"review", "archiving", "saving"}
  PROVE  /\ task.left = 0 /\ task.got = text[task.s]
         /\ task.props # <<>> /\ Tail(task.props) \in Seq(NewProposal)
         /\ First \in NewProposal /\ First.id \in Ids /\ First.doc \in NewDoc
<1>1. task.left = 0 /\ task.props # <<>>
  BY Tasks DEF MinerInv, MineInv, TaskInv
<1>2. task.props \in Seq(NewProposal) /\ task.got = text[task.s]
  <2>1. /\ task.props \in Seq(NewProposal) /\ task.got + task.left = text[task.s]
        /\ task.got \in 0..MaxText /\ MaxText \in Nat
    BY UnderWay
  <2> QED BY <1>1, <2>1
<1>3. Tail(task.props) \in Seq(NewProposal) /\ First \in NewProposal
  BY <1>1, <1>2 DEF First
<1>4. First.id \in Ids /\ First.doc \in [text : Texts, conf : NewConf]
  BY <1>3 DEF NewProposal
<1>5. First.doc \in NewDoc
  <2>1. \A c \in NewConf : c \in Confs /\ c # 0
    BY ConstantsOK
  <2>2. First.doc.conf \in NewConf /\ First.doc.text \in Texts
        /\ First.doc = [text |-> First.doc.text, conf |-> First.doc.conf]
    BY <1>4
  <2> QED BY <2>1, <2>2 DEF NewDoc, Doc
<1> QED BY <1>1, <1>2, <1>3, <1>4, <1>5

\* The task goes to another place of the review, or stays there.
LEMMA ReviewStep ==
  ASSUME MinerInv, task.at \in {"review", "archiving", "saving"},
         UNCHANGED <<text, file, live, manifest>>, op'.at # "down",
         NEW at \in {"review", "archiving", "saving"}, NEW props \in Seq(NewProposal), props # <<>>,
         task' = [task EXCEPT !.at = at, !.props = props]
  PROVE  MineInv'
<1>1. task \in Running /\ props \in Seq(Proposal)
  BY UnderWay, Proposals1
<1>2. /\ task' \in Running /\ task'.at = at /\ task'.s = task.s /\ task'.auto = task.auto
      /\ task'.forced = task.forced /\ task'.left = task.left /\ task'.got = task.got
      /\ task'.props = props
  BY <1>1 DEF Running
<1>3. TaskInv'
  BY <1>2, UnderWay, Reviewing DEF TaskInv
<1> QED BY <1>2, <1>3, UnderWay, TaskStep

LEMMA RestStep ==
  ASSUME MinerInv, task.at \in {"review", "saving"}, task' = Rest,
         UNCHANGED <<storeVars, text, file, live, manifest>>
  PROVE  MineInv'
<1> DEFINE left == [task EXCEPT !.props = Tail(@)]
<1>1. task \in Running /\ Tail(task.props) \in Seq(NewProposal) /\ Tail(task.props) \in Seq(Proposal)
      /\ op' = op /\ op.at # "down"
  BY UnderWay, Reviewing, Proposals1 DEF storeVars
<1>2. /\ left \in Running /\ left.s = task.s /\ left.auto = task.auto /\ left.forced = task.forced
      /\ left.left = task.left /\ left.got = task.got /\ left.props = Tail(task.props)
      /\ [left EXCEPT !.at = "review"] = [task EXCEPT !.at = "review", !.props = Tail(task.props)]
  BY <1>1 DEF Running
<1> HIDE DEF left
<1>3. CASE Tail(task.props) # <<>> /\ task' = [left EXCEPT !.at = "review"]
  BY <1>1, <1>2, <1>3, ReviewStep
<1>4. CASE task' = Record(left, Recorded(task.s, task.got))
  <2>1. task.s \in Sessions /\ task.got \in 0..MaxText /\ task.got = text[task.s] /\ MinerTypeOK
    BY UnderWay, Reviewing
  <2>2. Recorded(task.s, task.got) \in Manifest /\ OneOrTheOther(Recorded(task.s, task.got))
    BY <2>1, UnderWay, RecordedIsTrue
  <2>3. Orderly /\ ReadInv => ReadWhole(Recorded(task.s, task.got), file)
    BY <2>1, UnderWay, RecordedIsTrue DEF ReadInv
  <2>4. left.got + left.left = text[task.s]
    BY <1>2, UnderWay
  <2>5. task.at # "prompt"
    OBVIOUS
  <2> QED BY <1>1, <1>2, <1>4, <2>2, <2>3, <2>4, <2>5, RecordStep
<1> QED BY <1>2, <1>3, <1>4 DEF Rest, left

LEMMA AskedStep ==
  ASSUME MinerInv, Accept \/ ThenSave \/ \E id \in Ids : Replace(id)
  PROVE  MineInv'
<1>1. task.at \in {"review", "archiving"} /\ UNCHANGED <<text, file, live, manifest>>
  BY DEF Accept, ThenSave, Replace, Asking
<1>2. task \in Running /\ task.props \in Seq(NewProposal) /\ task.props # <<>>
      /\ First.id \in Ids /\ First.doc \in NewDoc
  BY <1>1, UnderWay, Reviewing
<1>3. op'.at # "down"
  BY <1>2, Ups DEF Accept, ThenSave, Replace
<1>4. PICK at \in {"archiving", "saving"} : task' = [task EXCEPT !.at = at]
  BY DEF Accept, ThenSave, Replace
<1>5. task' = [task EXCEPT !.at = at, !.props = task.props]
  BY <1>2, <1>4 DEF Running
<1> QED BY <1>1, <1>2, <1>3, <1>5, ReviewStep

LEMMA EditStep ==
  ASSUME MinerInv, NEW p \in NewProposal, Edit(p)
  PROVE  MineInv'
<1>1. task.at = "review" /\ UNCHANGED <<text, file, live, manifest>> /\ op' = op
      /\ task' = [task EXCEPT !.props[1] = p]
  BY DEF Edit, Asking, storeVars
<1> DEFINE props == [task.props EXCEPT ![1] = p]
<1>2. task \in Running /\ task.props \in Seq(NewProposal) /\ task.props # <<>> /\ op.at # "down"
  BY <1>1, UnderWay, Reviewing
<1>3. props \in Seq(NewProposal) /\ props # <<>>
  BY <1>2
<1>4. task' = [task EXCEPT !.at = "review", !.props = props]
  BY <1>1, <1>2 DEF Running
<1> HIDE DEF props
<1> QED BY <1>1, <1>2, <1>3, <1>4, ReviewStep

LEMMA ReviewSteps ==
  ASSUME MinerInv, Skip \/ Saved \/ Quit
  PROVE  MineInv'
<1>1. CASE Skip \/ Saved
  BY <1>1, RestStep DEF Skip, Saved, Asking
<1>2. CASE Quit
  <2>1. task.at = "review" /\ UNCHANGED <<text, file, live, manifest>> /\ task' = Idle /\ ~task.auto
    BY <1>2 DEF Quit, Asking
  <2>2. task # Idle /\ manifest \in Manifest /\ OneOrTheOther(manifest)
    BY <2>1, UnderWay DEF MinerTypeOK
  <2> QED BY <2>1, <2>2, TaskEnds DEF ReadInv
<1> QED BY <1>1, <1>2

-----------------------------------------------------------------------------
(* Every step.                                                             *)

\* Whatever mining does to the store is an operation of the store, a step of one,
\* or nothing.
LEMMA StoreIsUsed == MinerInv /\ [MinerNext]_vars => [Next]_storeVars
<1> SUFFICES ASSUME MinerInv, [MinerNext]_vars PROVE [Next]_storeVars
  OBVIOUS
<1>1. ASSUME task.at \in {"review", "archiving"}, Save(First.id, First.doc) PROVE Next
  <2>1. First \in NewProposal
    BY <1>1, Reviewing
  <2>2. First.id \in Ids /\ First.doc.text \in Texts /\ First.doc.conf \in NewConf
        /\ First.doc = [text |-> First.doc.text, conf |-> First.doc.conf]
    BY <2>1 DEF NewProposal
  <2>3. Save(First.id, [text |-> First.doc.text, conf |-> First.doc.conf])
    BY <1>1, <2>2
  <2> QED BY <2>2, <2>3 DEF Next, Commands
<1>2. CASE Accept \/ ThenSave
  BY <1>1, <1>2 DEF Accept, ThenSave, Asking
<1>3. CASE (\E id \in Ids : Replace(id)) \/ StoreCommand
  BY <1>3 DEF Replace, StoreCommand, Next, Commands
<1>4. CASE (\E s \in Sessions : Start(s)) \/ EndOfInput \/ StoreStep \/ Killed
  BY <1>4 DEF Start, EndOfInput, StoreStep, Killed, Next
<1>5. CASE \E m \in Models : Exit(m)
  BY <1>5 DEF Exit, Next
<1>6. CASE Unreachable \/ WriteManifest
  BY <1>6 DEF Unreachable, WriteManifest, Over, Next
<1>7. CASE \/ Turn \/ ReadPart \/ CannotTake \/ Skip \/ Saved \/ Quit
           \/ \E s \in Sessions, m \in Models, forced \in BOOLEAN : Mine(s, m, forced)
           \/ \E id \in Ids, t \in Texts, c \in NewConf : Edit([id |-> id, doc |-> [text |-> t, conf |-> c]])
  BY <1>7 DEF Turn, ReadPart, CannotTake, Skip, Saved, Quit, Mine, Edit
<1>8. CASE UNCHANGED vars
  BY <1>8 DEF vars
<1> QED BY <1>2, <1>3, <1>4, <1>5, <1>6, <1>7, <1>8 DEF MinerNext

LEMMA MinerInvInit == MinerInit => MinerInv
<1> SUFFICES ASSUME MinerInit PROVE MinerInv
  OBVIOUS
<1>1. /\ text = [s \in Sessions |-> 0] /\ file = [s \in Sessions |-> "none"] /\ live = NoSession
      /\ manifest = [readable |-> TRUE, mined |-> [s \in Sessions |-> NotMined], failed |-> {}]
      /\ task = Idle /\ op.at = "down"
  BY Ops DEF MinerInit, Init
<1>2. manifest \in Manifest
  BY <1>1 DEF Manifest
<1>3. MinerTypeOK
  BY <1>1, <1>2, Tasks, MinerConstantsOK DEF MinerTypeOK, FileStates
<1>4. OneOrTheOther(manifest) /\ TaskInv /\ ProcessInv /\ ReadInv
  BY <1>1 DEF OneOrTheOther, TaskInv, ProcessInv, ReadInv, ReadWhole
<1> QED BY <1>3, <1>4, StoreInvInit DEF MinerInv, MineInv, MinerInit

LEMMA MinerInvNext == MinerInv /\ [MinerNext]_vars => MinerInv'
<1> SUFFICES ASSUME MinerInv, [MinerNext]_vars PROVE MinerInv'
  OBVIOUS
<1>1. StoreInv'
  BY StoreIsUsed, StoreInvNext DEF MinerInv
<1>2. MineInv'
  <2>1. CASE \E s \in Sessions : Start(s)
    BY <2>1, StartStep
  <2>2. CASE Turn
    BY <2>2, TurnStep
  <2>3. CASE EndOfInput
    BY <2>3, EndOfInputStep DEF EndOfInput
  <2>4. CASE \E s \in Sessions, m \in Models, forced \in BOOLEAN : Mine(s, m, forced)
    BY <2>4, MineStep
  <2>5. CASE \E m \in Models : Exit(m)
    BY <2>5, ExitStep
  <2>6. CASE ReadPart \/ CannotTake \/ Unreachable \/ WriteManifest
    BY <2>6, ReadPartStep, CannotTakeStep, UnreachableStep, WriteManifestStep
  <2>7. CASE Accept \/ ThenSave \/ \E id \in Ids : Replace(id)
    BY <2>7, AskedStep
  <2>8. CASE Skip \/ Saved \/ Quit
    BY <2>8, ReviewSteps
  <2>9. ASSUME NEW id \in Ids, NEW t \in Texts, NEW c \in NewConf,
               Edit([id |-> id, doc |-> [text |-> t, conf |-> c]])
        PROVE  MineInv'
    BY <2>9, EditStep DEF NewProposal
  <2>10. CASE StoreStep \/ StoreCommand
    BY <2>10, StoreStepStep
  <2>11. CASE Killed
    BY <2>11, KilledStep
  <2>12. CASE UNCHANGED vars
    <3>1. UNCHANGED minerVars /\ op' = op
      BY <2>12 DEF vars, storeVars
    <3> QED BY <3>1, StoreOnly
  <2> QED BY <2>1, <2>2, <2>3, <2>4, <2>5, <2>6, <2>7, <2>8, <2>9, <2>10, <2>11, <2>12 DEF MinerNext
<1> QED BY <1>1, <1>2 DEF MinerInv

LEMMA MinerInvHolds == MinerSpec => []MinerInv
BY MinerInvInit, MinerInvNext, PTL DEF MinerSpec

\* Every variable keeps its type: no part is larger than what is left to read, and
\* only proposals are reviewed.
THEOREM MinerTypes == MinerSpec => []MinerTypeOK
<1>1. MinerInv => MinerTypeOK
  BY DEF MinerInv, MineInv
<1> QED BY <1>1, MinerInvHolds, PTL

\* Mining, whatever it meets, uses the store of memory_store.go as any command does:
\* it implements the store's specification.
THEOREM MiningUsesTheStore == MinerSpec => Spec
<1>1. MinerInit => Init
  BY DEF MinerInit
<1> QED BY <1>1, StoreIsUsed, MinerInvHolds, PTL DEF MinerSpec, Spec

\* So between operations files and tables agree also while a session is mined, as
\* memory_miner.go saves and archives what its review accepts.
THEOREM StoreIsRightWhileMining == MinerSpec => []StoreAgrees
BY MiningUsesTheStore, StoreIsRight, PTL

\* No session is in the manifest both as mined and as one a model failed on, in
\* whatever order the attempts of memory_miner.go, forced or not, succeeded and failed.
THEOREM FailuresAreOfUnmined == MinerSpec => []FailedAreUnmined
<1>1. MinerInv => FailedAreUnmined
  <2> SUFFICES ASSUME MinerInv, NEW f \in manifest.failed PROVE ~Mined(f[1])
    BY DEF FailedAreUnmined
  <2> QED BY DEF MinerInv, MineInv, OneOrTheOther, Mined
<1> QED BY <1>1, MinerInvHolds, PTL

\* As long as the open session is not mined and sessions are rendered as they end, a
\* session that memory_miner.go has recorded as mined was read whole, in however
\* many parts and whatever failed or was killed in between.
THEOREM MinedIsRead ==
  ASSUME Orderly
  PROVE  MinerSpec => []MinedWasRead
<1>1. MinerInv => MinedWasRead
  BY DEF MinerInv, MineInv, ReadInv, ReadWhole, MinedWasRead, Mined
<1> QED BY <1>1, MinerInvHolds, PTL

\* What the manifest says of a session is so, when the open session is not mined
\* and a session is rendered as it ends (Record, RecordFailure, finishSession).
THEOREM ManifestTold ==
  ASSUME Orderly
  PROVE  MinerSpec => []ManifestIsTrue
BY MinedIsRead, FailuresAreOfUnmined, PTL DEF ManifestIsTrue

=============================================================================
