--------------------------- MODULE ExecutionStore ---------------------------
(***************************************************************************)
(* The execution journal and the four tables of live-submission            *)
(* reservations of packages/storage (ExecutionJournalStore).  Every method *)
(* of the store runs in one database transaction, so every operator below  *)
(* that primes a table is one atomic step.                                 *)
(*                                                                         *)
(* A table is the set of its rows.  The preview hash is a digest over the  *)
(* paper trade id and the order legs (order_preview.py:537-554), so the    *)
(* primary key (paper_trade_id, preview_hash) of the three guard tables is *)
(* the hash; the live table is keyed by (confirmation_entry_id,            *)
(* preview_hash).  execution_entry_id = NULL is a reservation whose        *)
(* submission has not been journaled.                                      *)
(***************************************************************************)
EXTENDS Naturals, Sequences

CONSTANT Hash           \* preview hashes

VARIABLES
    journal,            \* execution_journal_entries; the id of a row is its index
    live,               \* live_submission_reservations
    pairOpen,           \* pair_open_live_submission_reservations
    pairClose,          \* pair_close_live_submission_reservations
    cleanup             \* cleanup_live_submission_reservations

storeVars == <<journal, live, pairOpen, pairClose, cleanup>>

NULL  == 0
Entry == [conf : Nat, hash : Hash]
Row   == [conf : Nat, hash : Hash, entry : Nat]

StoreTypeOK ==
    /\ journal \in Seq(Entry)
    /\ live \in SUBSET Row
    /\ pairOpen \in SUBSET Row
    /\ pairClose \in SUBSET Row
    /\ cleanup \in SUBSET Row

StoreInit ==
    /\ journal = << >>
    /\ live = {}
    /\ pairOpen = {}
    /\ pairClose = {}
    /\ cleanup = {}

-----------------------------------------------------------------------------
(* The statements the transactions are built from.  An operator whose name *)
(* ends in Mutant is a faulty variant of the operator after it; the runs   *)
(* use it to show that a property would notice the fault.                  *)

\* The values of the insert in the wrong order.
NewRowMutant(c, h) == [conf |-> h, hash |-> c, entry |-> NULL]

NewRow(c, h) == [conf |-> c, hash |-> h, entry |-> NULL]

HasKey(table, c, h) == \E row \in table : row.conf = c /\ row.hash = h
HasHash(table, h)   == \E row \in table : row.hash = h

\* The rows a release deletes: this confirmation's, and never journaled.
Releasable(table, c, h) ==
    {row \in table : row.conf = c /\ row.hash = h /\ row.entry = NULL}

\* UPDATE ... SET execution_entry_id = e WHERE preview_hash = h.
MarkHash(table, h, e) ==
    {IF row.hash = h THEN [row EXCEPT !.entry = e] ELSE row : row \in table}

-----------------------------------------------------------------------------
(* Queries.                                                                *)

FindByPreviewHash(h)      == \E i \in DOMAIN journal : journal[i].hash = h
FindByConfirmation(c, h)  ==
    \E i \in DOMAIN journal : journal[i].conf = c /\ journal[i].hash = h
HasPendingCleanup(h)      == \E row \in cleanup : row.hash = h /\ row.entry = NULL

-----------------------------------------------------------------------------
(* Transactions.                                                           *)

AppendEntry(c, h) ==
    /\ journal' = Append(journal, [conf |-> c, hash |-> h])
    /\ UNCHANGED <<live, pairOpen, pairClose, cleanup>>

\* The insert does not look for a conflict.
ReserveLiveMutant(c, h) ==
    /\ live' = live \cup {NewRow(c, h)}
    /\ UNCHANGED <<journal, pairOpen, pairClose, cleanup>>

ReserveLive(c, h) ==
    /\ ~HasKey(live, c, h)
    /\ live' = live \cup {NewRow(c, h)}
    /\ UNCHANGED <<journal, pairOpen, pairClose, cleanup>>

MarkLive(c, h, e) ==
    /\ live' = {IF row.conf = c /\ row.hash = h THEN [row EXCEPT !.entry = e] ELSE row
                  : row \in live}
    /\ UNCHANGED <<journal, pairOpen, pairClose, cleanup>>

\* The delete matches no row.
ReleaseLiveMutant(c, h) == UNCHANGED storeVars

ReleaseLive(c, h) ==
    /\ live' = live \ Releasable(live, c, h)
    /\ UNCHANGED <<journal, pairOpen, pairClose, cleanup>>

\* Only the confirmation's reservation can conflict.
ReservePairOpenAndLiveMutant(c, h) ==
    /\ ~HasKey(live, c, h)
    /\ pairOpen' = pairOpen \cup {NewRow(c, h)}
    /\ live' = live \cup {NewRow(c, h)}
    /\ UNCHANGED <<journal, pairClose, cleanup>>

\* Both reservations of a paired open, in one transaction.  The method also
\* returns "pair_open_conflict" and "live_conflict"; the second one deletes
\* the pair-open row it has just inserted, so neither changes a table.
ReservePairOpenAndLive(c, h) ==
    /\ ~HasHash(pairOpen, h)
    /\ ~HasKey(live, c, h)
    /\ pairOpen' = pairOpen \cup {NewRow(c, h)}
    /\ live' = live \cup {NewRow(c, h)}
    /\ UNCHANGED <<journal, pairClose, cleanup>>

MarkPairOpen(h, e) ==
    /\ pairOpen' = MarkHash(pairOpen, h, e)
    /\ UNCHANGED <<journal, live, pairClose, cleanup>>

\* The conflict replaces the row.
ReservePairCloseMutant(c, h) ==
    /\ pairClose' = {row \in pairClose : row.hash # h} \cup {NewRow(c, h)}
    /\ UNCHANGED <<journal, live, pairOpen, cleanup>>

ReservePairClose(c, h) ==
    /\ ~HasHash(pairClose, h)
    /\ pairClose' = pairClose \cup {NewRow(c, h)}
    /\ UNCHANGED <<journal, live, pairOpen, cleanup>>

MarkPairClose(h, e) ==
    /\ pairClose' = MarkHash(pairClose, h, e)
    /\ UNCHANGED <<journal, live, pairOpen, cleanup>>

ReleasePairClose(c, h) ==
    /\ pairClose' = pairClose \ Releasable(pairClose, c, h)
    /\ UNCHANGED <<journal, live, pairOpen, cleanup>>

ReserveCleanup(c, h) ==
    /\ ~HasHash(cleanup, h)
    /\ cleanup' = cleanup \cup {NewRow(c, h)}
    /\ UNCHANGED <<journal, live, pairOpen, pairClose>>

MarkCleanup(h, e) ==
    /\ cleanup' = MarkHash(cleanup, h, e)
    /\ UNCHANGED <<journal, live, pairOpen, pairClose>>

\* The delete matches no row.
ReleaseCleanupMutant(c, h) == UNCHANGED storeVars

ReleaseCleanup(c, h) ==
    /\ cleanup' = cleanup \ Releasable(cleanup, c, h)
    /\ UNCHANGED <<journal, live, pairOpen, pairClose>>
=============================================================================
