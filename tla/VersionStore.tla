---------------------------- MODULE VersionStore ----------------------------
(***************************************************************************)
(* The tables of store.db and what each statement of SqliteStore does to   *)
(* them.  The rows of `versions' for one target are a function from the    *)
(* stored revisions to documents, its primary key being (tid, rev); the    *)
(* rows of `seen_events' are the sequence of keys in the order of seq,     *)
(* which only ever orders them.                                            *)
(***************************************************************************)
EXTENDS Documents, Sequences

CONSTANTS
  RingN,       \* ring_n: how many versions of a target are kept
  SeenN        \* SEEN_SET_N: how many event keys are kept

ASSUME RingNAssumption == RingN \in Nat \ {0}
ASSUME SeenNAssumption == SeenN \in Nat \ {0}

NoRev == -1
NoRows == [r \in {} |-> NoDoc]

----------------------------------------------------------------------------
(* head_rev: SELECT MAX(rev). *)
HeadRev_ZeroWhenEmpty(rows) ==
  IF DOMAIN rows = {} THEN 0
  ELSE CHOOSE r \in DOMAIN rows : \A q \in DOMAIN rows : q <= r

HeadRev(rows) ==
  IF DOMAIN rows = {} THEN NoRev
  ELSE CHOOSE r \in DOMAIN rows : \A q \in DOMAIN rows : q <= r

SnapshotAt(rows, r) == IF r \in DOMAIN rows THEN rows[r] ELSE NoDoc

(* SELECT rev ... ORDER BY rev ASC. *)
RetainedRevs(rows) ==
  [n \in 1..Cardinality(DOMAIN rows) |->
     CHOOSE r \in DOMAIN rows : Cardinality({q \in DOMAIN rows : q <= r}) = n]

(* INSERT OR REPLACE INTO versions. *)
Upsert(rows, r, doc) ==
  [q \in DOMAIN rows \cup {r} |-> IF q = r THEN doc ELSE rows[q]]

(***************************************************************************)
(* DELETE ... WHERE rev <= (SELECT rev ... ORDER BY rev DESC LIMIT 1       *)
(* OFFSET ring_n): a row stays when fewer than ring_n rows are newer.      *)
(***************************************************************************)
Newer(rows, r) == {q \in DOMAIN rows : q > r}

EvictBeyondRing_KeepsOneMore(rows) ==
  Restrict(rows, {r \in DOMAIN rows : Cardinality(Newer(rows, r)) <= RingN})

EvictBeyondRing_KeepsOldest(rows) ==
  Restrict(rows, {r \in DOMAIN rows :
                    Cardinality({q \in DOMAIN rows : q < r}) < RingN})

EvictBeyondRing(rows) ==
  Restrict(rows, {r \in DOMAIN rows : Cardinality(Newer(rows, r)) < RingN})

PutRows(rows, r, doc) == EvictBeyondRing(Upsert(rows, r, doc))

(* UPDATE targets SET next_rev = MAX(next_rev, rev + 1). *)
BumpNextRev_WithoutMax(next, r) == r + 1
BumpNextRev(next, r) == IF next >= r + 1 THEN next ELSE r + 1

----------------------------------------------------------------------------
SeenEvent_NewestOnly(keys, k) == keys # <<>> /\ keys[Len(keys)] = k
SeenEvent(keys, k) == k \in Range(keys)

(* DELETE ... WHERE seq <= (SELECT seq ... ORDER BY seq DESC ... OFFSET N). *)
KeepLast(keys) ==
  IF Len(keys) <= SeenN THEN keys
  ELSE SubSeq(keys, Len(keys) - SeenN + 1, Len(keys))

(* INSERT OR IGNORE: a key marked again keeps its place in the queue. *)
MarkEvent(keys, k) ==
  KeepLast(IF SeenEvent(keys, k) THEN keys ELSE Append(keys, k))
=============================================================================
