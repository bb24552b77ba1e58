-------------------------------- MODULE Paging --------------------------------
(***************************************************************************)
(* A client that reads a listing page by page while rows are inserted,      *)
(* updated and deleted: GET /presses, /runs, /proofs, /release (Store.List)  *)
(* and GET /audits (ListAudits).  Each page is a statement that counts and   *)
(* one that fetches; the offset is taken anew from the rows of the moment.   *)
(***************************************************************************)
EXTENDS Integers, Sequences, FiniteSets, SequencesExt

CONSTANTS
    Rows,           \* bound on the rows ever inserted; row ids are 1 .. Rows
    LastInstant,    \* bound on the clock
    Lag,            \* how far a row's time stamp may lie before its commit
    DefaultSize,    \* 20 in the code
    MaxSize,        \* 100 in the code
    AskedPages,     \* the pages a client may ask for first
    AskedSizes      \* the page sizes a client may ask for

ASSUME SizesAssumption ==
    /\ DefaultSize \in Int /\ MaxSize \in Int
    /\ 0 < DefaultSize /\ DefaultSize <= MaxSize

ASSUME BoundsAssumption ==
    /\ Rows \in Nat /\ LastInstant \in Nat /\ Lag \in Nat
    /\ AskedPages \subseteq Int /\ AskedSizes \subseteq Int

VARIABLES
    listing,    \* "records" or "audits"
    state,      \* of each id: not inserted yet, live, or soft-deleted
    stamp,      \* updated_at of a record, created_at of an audit row
    now,        \* the clock the stamps are taken from
    reader,     \* the client: where it is and what it has been told
    since       \* what happened to the rows since it began

vars == <<listing, state, stamp, now, reader, since>>

Ids  == 1 .. Rows
Live == {u \in Ids : state[u] = "live"}

----------------------------------------------------------------------------
(* Which page is asked for: the handler binds, the repository normalises *)

(* Mutant: a page size that is too large is passed on. *)
bindPageUnbounded(q) ==
    [page     |-> IF q.page < 1 THEN 1 ELSE q.page,
     pageSize |-> IF q.pageSize < 1 THEN DefaultSize ELSE q.pageSize]

bindPage(q) ==
    [page     |-> IF q.page < 1 THEN 1 ELSE q.page,
     pageSize |-> IF q.pageSize < 1 \/ q.pageSize > MaxSize THEN DefaultSize
                  ELSE q.pageSize]

normalizePage(q) ==
    [page     |-> IF q.page < 1 THEN 1 ELSE q.page,
     pageSize |-> IF q.pageSize < 1 THEN DefaultSize
                  ELSE IF q.pageSize > MaxSize THEN MaxSize
                  ELSE q.pageSize]

(* The page fetched, and the page the answer says it is: Store.List reports  *)
(* what it used, the handler of the audit log what it asked for.             *)
Fetched(q)   == normalizePage(bindPage(q))
Announced(q) == IF listing = "records" THEN Fetched(q) ELSE bindPage(q)

----------------------------------------------------------------------------
(* In which order *)

(* Mutant: rows of the same instant are in no order. *)
BeforeByStamp(u, v) == stamp[u] > stamp[v]

(* updated_at DESC, id DESC of records; created_at DESC alone of audit rows. *)
Before(u, v) ==
    \/ stamp[u] > stamp[v]
    \/ listing = "records" /\ stamp[u] = stamp[v] /\ u > v

(* Rows the order does not tell apart come as the database pleases. *)
Orderings ==
    {s \in SetToSeqs(Live) :
        \A i, j \in DOMAIN s : Before(s[j], s[i]) => j < i}

(* OFFSET and LIMIT *)
Window(s, q) ==
    LET last == q.page * q.pageSize IN
    SubSeq(s, (q.page - 1) * q.pageSize + 1, IF last < Len(s) THEN last ELSE Len(s))

----------------------------------------------------------------------------
(* The start: a table with rows of some instants, and a client yet to ask *)

Init ==
    /\ listing \in {"records", "audits"}
    /\ \E n \in 0 .. Rows : state = [u \in Ids |-> IF u <= n THEN "live" ELSE "absent"]
    /\ now = 1
    /\ stamp \in [Ids -> {0, 1}]
    /\ \A u \in Ids : state[u] = "absent" => stamp[u] = 0
    /\ \E p \in AskedPages, size \in AskedSizes, until \in {"short", "total"} :
          reader = [at |-> "count", asked |-> [page |-> p, pageSize |-> size],
                    until |-> until, total |-> 0, shown |-> [u \in Ids |-> 0]]
    /\ since = [present |-> Live, moved |-> {}, removed |-> FALSE, gap |-> FALSE]

Tick ==
    /\ now < LastInstant
    /\ now' = now + 1
    /\ UNCHANGED <<listing, state, stamp, reader, since>>

(* A stamp is taken shortly before its row is committed. *)
Stamps(earliest) == {t \in now - Lag .. now : t >= earliest}

(* It matters when a row moves: between the count and the fetch of a page? *)
Moved(u) == [since EXCEPT !.moved = @ \cup {u}, !.gap = @ \/ reader.at = "find"]

Insert ==
    /\ \E u \in Ids, t \in Stamps(0) :
          /\ state[u] = "absent"
          /\ \A v \in Ids : v < u => state[v] # "absent"
          /\ state' = [state EXCEPT ![u] = "live"]
          /\ stamp' = [stamp EXCEPT ![u] = t]
          /\ since' = Moved(u)
    /\ UNCHANGED <<listing, now, reader>>

(* A record is updated; audit rows never are. *)
Touch ==
    /\ listing = "records"
    /\ \E u \in Live : \E t \in Stamps(stamp[u]) :
          /\ stamp' = [stamp EXCEPT ![u] = t]
          /\ since' = Moved(u)
    /\ UNCHANGED <<listing, state, now, reader>>

(* A record is deleted, or changed so that it no longer matches the filter. *)
Withdraw ==
    /\ listing = "records"
    /\ \E u \in Live : state' = [state EXCEPT ![u] = "deleted"]
    /\ since' = [since EXCEPT !.removed = TRUE]
    /\ UNCHANGED <<listing, stamp, now, reader>>

----------------------------------------------------------------------------
(***************************************************************************)
(* The client asks for page after page until one comes back short, or, like *)
(* the "next" button of the workbench, up to the total last announced.      *)
(***************************************************************************)
Count ==
    /\ reader.at = "count"
    /\ reader' = [reader EXCEPT !.at = "find", !.total = Cardinality(Live)]
    /\ since'  = [since EXCEPT !.gap = FALSE]
    /\ UNCHANGED <<listing, state, stamp, now>>

IsLast(items, meta) ==
    IF reader.until = "short" THEN Len(items) < meta.pageSize
                              ELSE reader.total <= meta.page * meta.pageSize

Find ==
    /\ reader.at = "find"
    /\ \E s \in Orderings :
          LET items == Window(s, Fetched(reader.asked))
              meta  == Announced(reader.asked)
          IN  reader' = [reader EXCEPT
                 !.at    = IF IsLast(items, meta) THEN "done" ELSE "count",
                 !.asked = [meta EXCEPT !.page = @ + 1],
                 !.shown = [u \in Ids |-> @[u] + IF u \in ToSet(items) THEN 1 ELSE 0]]
    /\ UNCHANGED <<listing, state, stamp, now, since>>

Finished == reader.at = "done" /\ UNCHANGED vars

Next == Tick \/ Insert \/ Touch \/ Withdraw \/ Count \/ Find \/ Finished

Spec == Init /\ [][Next]_vars

----------------------------------------------------------------------------
(* Rows whose place in the order is settled: all records; an audit row only  *)
(* when no other has its time stamp.                                         *)
Settled(u) ==
    listing = "records" \/ \A v \in Live \ {u} : stamp[v] # stamp[u]

(***************************************************************************)
(* Who reads to the end has seen every row that was there when the reading  *)
(* began and has not been touched since, as long as nothing was removed:    *)
(* updates and insertions push rows back, to pages not read yet, never      *)
(* forward.  Who goes by the total must add that no row moved between the   *)
(* count and the fetch of the last page, which are two statements (List,    *)
(* ListAudits, bindPage, normalizePage, usePagination).                     *)
(***************************************************************************)
NothingMissed ==
    /\ reader.at = "done" /\ ~since.removed
    /\ reader.until = "total" => ~since.gap
    => \A u \in since.present \ since.moved : Settled(u) => reader.shown[u] > 0

(***************************************************************************)
(* A row is seen twice only when rows were inserted or touched while the    *)
(* pages were read; removals alone repeat nothing (List, ListAudits).       *)
(***************************************************************************)
NothingRepeated ==
    since.moved = {} => \A u \in Live : Settled(u) => reader.shown[u] <= 1
=============================================================================
