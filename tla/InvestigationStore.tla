------------------------- MODULE InvestigationStore -------------------------
(***************************************************************************)
(* The SQLite database the sidecars share: table investigations            *)
(* (database/repository.py, migrations 0001 and 0004) and table            *)
(* timeline_events (timeline/repository.py, migration 0003).               *)
(*                                                                         *)
(* A repository method opens a connection, runs one transaction and closes *)
(* it: one operator below is one transaction.  What an investigation       *)
(* contains besides its report name does not matter here; `by` and         *)
(* `options` say which command stored it and with what choices.            *)
(***************************************************************************)
EXTENDS Naturals, FiniteSets, SequencesExt

CONSTANT Reports   (* names of report files                                *)

VARIABLES
  rows,      (* investigations: records with id, report, by and options     *)
  lastId,    (* sqlite_sequence: the last id AUTOINCREMENT gave out         *)
  timeline   (* timeline_events: records with rowid, id, kind and by        *)

storeVars == << rows, lastId, timeline >>

StoreInit == rows = {} /\ lastId = 0 /\ timeline = {}

Ids == { row.id : row \in rows }

(* get_by_id: no row, or the one. *)
RowsWithId(id) == { row \in rows : row.id = id }

(* exists_by_report_name, find_by_report_name *)
RowsOfReport(r) == { row \in rows : row.report = r }

(* ORDER BY id DESC, in list_all, find_by_report_name and find_recent: the *)
(* i-th id is the one with i - 1 newer ones.                               *)
NewestFirst(some) ==
  LET ids == { row.id : row \in some }
  IN  [ i \in 1 .. Cardinality(ids) |->
          CHOOSE id \in ids :
            Cardinality({ other \in ids : other > id }) = i - 1 ]
FindRecent(limit) ==
  LET all == NewestFirst(rows)
  IN  SubSeq(all, 1, IF limit < Len(all) THEN limit ELSE Len(all))

(* WHERE investigation_id = ? *)
EntriesOf(id) == { e \in timeline : e.id = id }

(* ORDER BY timestamp, rowid in list_for_investigation: in the order of    *)
(* their insertion                                                         *)
OldestFirst(entries) ==
  [ i \in 1 .. Cardinality(entries) |->
      CHOOSE e \in entries :
        Cardinality({ other \in entries : other.rowid < e.rowid }) = i - 1 ]

-----------------------------------------------------------------------------

(* Mutant: the id of a new row as SQLite chooses it without AUTOINCREMENT. *)
NextIdReused ==
  IF rows = {} THEN 1 ELSE 1 + Max(Ids)

(* The UNIQUE index of migration 0004 on report_name. *)
Conflict(r) == RowsOfReport(r) # {}

(* INTEGER PRIMARY KEY AUTOINCREMENT *)
NextId == lastId + 1

(* Mutant: sqlite_sequence is not kept. *)
InsertUncounted(row) ==
  /\ rows' = rows \cup { row }
  /\ UNCHANGED << lastId, timeline >>

(* save_resolving_conflict: the insert *)
Insert(row) ==
  /\ rows' = rows \cup { row }
  /\ lastId' = row.id
  /\ UNCHANGED timeline

(* delete: the foreign key of migration 0003 takes the timeline with it. *)
Delete(id) ==
  /\ rows' = rows \ RowsWithId(id)
  /\ timeline' = timeline \ EntriesOf(id)
  /\ UNCHANGED lastId

(* The rowid SQLite gives a row of a table with a TEXT primary key *)
NextRowid == 1 + Max({ 0 } \cup { e.rowid : e \in timeline })

(* TimelineRepository.append, for an investigation that exists *)
AppendEntry(id, kind, by) ==
  /\ timeline' = timeline \cup
       { [ rowid |-> NextRowid, id |-> id, kind |-> kind, by |-> by ] }
  /\ UNCHANGED << rows, lastId >>
=============================================================================
