--------------------------- MODULE ReadersProofs ----------------------------
(***************************************************************************)
(* Theorems about Readers, for every ring size, every number of targets,   *)
(* of puts and of pages of a feed.                                         *)
(***************************************************************************)
EXTENDS Readers, StoreLemmas, DataLemmas

(* The store under the readers: one put at a time, so no row is missing. *)
StoreInv ==
  /\ nextRev \in [Targets -> Nat]
  /\ versions = [t \in Targets |-> versions[t]]
  /\ \A t \in Targets :
       /\ DOMAIN versions[t] = Youngest(nextRev[t])
       /\ \A r \in DOMAIN versions[t] : versions[t][r] \in Pages

(* The head a command carries is no further behind than the puts since. *)
Keeping == {"old", "new", "retained", "html"}

HeadInv ==
  /\ head \in Nat
  /\ args.target \in Targets
  /\ head < nextRev[T] /\ nextRev[T] <= head + 1 + puts

(* The version before it was there, or the puts had taken it. *)
OldInv ==
  /\ args.cmd \in {"diff", "explain"} /\ args.rev \in Nat \cup {Unset}
  /\ pc = "new" /\ old = NoDoc =>
       args.cmd = "diff" /\ (Asked > head \/ puts >= RingN - (head - Asked))

ReadInv ==
  /\ puts \in Nat
  /\ pc = "head" =>
       /\ args.target \in Targets
       /\ args.cmd \in {"diff", "explain", "show", "rules"}
       /\ args.rev \in Nat \cup {Unset}
  /\ pc \in Keeping => HeadInv
  /\ pc \in {"old", "new"} => OldInv
  /\ pc \in Keeping \cup {"head"} => result = Nothing
  /\ pc \notin Keeping \cup {"head", "idle"} => args.cmd = "feed"
  /\ EvictionTakesPuts

RInv == StoreInv /\ ReadInv

----------------------------------------------------------------------------
(* A row missing from the ring is old enough to have been evicted. *)
LEMMA MissingIsOld ==
  ASSUME StoreInv, NEW t \in Targets, NEW r \in Nat, r < nextRev[t],
         SnapshotAt(versions[t], r) = NoDoc \/ r \notin Retained(t)
  PROVE  nextRev[t] > r + RingN
<1>1. nextRev[t] \in Nat /\ DOMAIN versions[t] = Youngest(nextRev[t])
  BY DEF StoreInv
<1>2. r \notin DOMAIN versions[t]
  <2>1. CASE r \in DOMAIN versions[t]
    <3>1. versions[t][r] \in Pages /\ SnapshotAt(versions[t], r) = versions[t][r]
      BY <2>1 DEF StoreInv, SnapshotAt
    <3>2. SnapshotAt(versions[t], r) # NoDoc
      BY <3>1, PagesAssumption, AbsentAssumption
    <3> QED  BY <2>1, <3>2 DEF Retained
  <2> QED  BY <2>1
<1> QED  BY <1>1, <1>2, RingNAssumption DEF Youngest

(* A put slides the ring of its target and no other. *)
LEMMA PutSlidesRing ==
  ASSUME StoreInv, NEW t \in Targets, NEW doc \in Pages, Put(t, doc)
  PROVE  /\ StoreInv'
         /\ \A u \in Targets : nextRev[u] <= nextRev'[u] /\ nextRev'[u] <= nextRev[u] + 1
<1>1. PICK n \in Nat : n = nextRev[t] /\ DOMAIN versions[t] = Youngest(n)
  BY DEF StoreInv
<1>2. PutRows(versions[t], n, doc) =
        [r \in Youngest(n + 1) |-> IF r = n THEN doc ELSE versions[t][r]]
  BY <1>1, PutSlides
<1>3. BumpNextRev(n, n) = n + 1
  BY <1>1 DEF BumpNextRev
<1>4. /\ versions' = [versions EXCEPT ![t] = PutRows(versions[t], n, doc)]
      /\ nextRev' = [nextRev EXCEPT ![t] = BumpNextRev(n, n)]
  BY <1>1 DEF Put
<1>5. nextRev' = [nextRev EXCEPT ![t] = n + 1] /\ nextRev' \in [Targets -> Nat]
  BY <1>1, <1>3, <1>4 DEF StoreInv
<1>6. versions' = [u \in Targets |-> versions'[u]]
  BY <1>4 DEF StoreInv
<1>7. ASSUME NEW u \in Targets
      PROVE  /\ DOMAIN versions'[u] = Youngest(nextRev'[u])
             /\ \A r \in DOMAIN versions'[u] : versions'[u][r] \in Pages
  <2>1. CASE u # t
    <3>1. versions'[u] = versions[u] /\ nextRev'[u] = nextRev[u]
      BY <1>4, <1>5, <2>1 DEF StoreInv
    <3> QED  BY <3>1 DEF StoreInv
  <2>2. CASE u = t
    <3>1. versions'[u] = [r \in Youngest(n + 1) |-> IF r = n THEN doc ELSE versions[t][r]]
      BY <1>2, <1>4, <2>2 DEF StoreInv
    <3>2. nextRev'[u] = n + 1
      BY <1>5, <2>2 DEF StoreInv
    <3>3. \A r \in Youngest(n + 1) : r # n => r \in DOMAIN versions[t]
      BY <1>1, RingNAssumption DEF Youngest
    <3> QED  BY <1>1, <3>1, <3>2, <3>3 DEF StoreInv
  <2> QED  BY <2>1, <2>2
<1>8. \A u \in Targets : nextRev[u] <= nextRev'[u] /\ nextRev'[u] <= nextRev[u] + 1
  BY <1>1, <1>5 DEF StoreInv
<1> QED  BY <1>5, <1>6, <1>7, <1>8 DEF StoreInv

(* A put while a command runs is counted, one while none does resets it. *)
LEMMA ReadPut ==
  ASSUME RInv, NEW t \in Targets, NEW doc \in Pages, Put(t, doc)
  PROVE  RInv'
<1>1. /\ StoreInv' /\ nextRev \in [Targets -> Nat] /\ nextRev' \in [Targets -> Nat]
      /\ \A u \in Targets : nextRev[u] <= nextRev'[u] /\ nextRev'[u] <= nextRev[u] + 1
  BY PutSlidesRing DEF RInv, StoreInv
<1>2. CASE pc # "idle" /\ puts' = puts + 1 /\ UNCHANGED readVars
  <2>1. UNCHANGED <<pc, args, head, old, result>> /\ puts \in Nat /\ puts' \in Nat /\ puts' = puts + 1
    BY <1>2 DEF readVars, RInv, ReadInv
  <2>2. pc \in Keeping => HeadInv'
    <3>1. CASE pc \in Keeping
      <4>1. HeadInv /\ T' = T /\ T \in Targets
        BY <2>1, <3>1 DEF RInv, ReadInv, HeadInv, T
      <4>2. PICK m \in Nat : m = nextRev[T]
        BY <1>1, <4>1
      <4>3. PICK k \in Nat : k = nextRev'[T]
        BY <1>1, <4>1
      <4>4. m <= k /\ k <= m + 1
        BY <1>1, <4>1, <4>2, <4>3
      <4> QED  BY <2>1, <4>1, <4>2, <4>3, <4>4 DEF HeadInv
    <3> QED  BY <3>1
  <2>3. ASSUME head \in Nat, Asked \in Int, Asked > head \/ puts >= RingN - (head - Asked)
        PROVE  Asked > head \/ puts' >= RingN - (head - Asked)
    BY <2>1, <2>3, RingNAssumption
  <2>4. pc \in {"old", "new"} => OldInv'
    <3>1. CASE pc \in {"old", "new"}
      <4>1. head \in Nat /\ OldInv /\ Asked \in Int /\ Asked' = Asked
        BY <2>1, <3>1 DEF RInv, ReadInv, HeadInv, OldInv, Asked, Keeping, Unset
      <4> QED  BY <2>1, <2>3, <4>1 DEF OldInv
    <3> QED  BY <3>1
  <2>5. EvictionTakesPuts'
    BY <1>2, <2>1 DEF RInv, ReadInv, EvictionTakesPuts, Missing, Nothing
  <2> QED  BY <1>1, <2>1, <2>2, <2>4, <2>5 DEF RInv, ReadInv
<1>3. CASE pc = "idle" /\ args' = NoCommand /\ result' = Nothing /\ puts' = 0 /\ UNCHANGED pc
  <2>1. EvictionTakesPuts'
    BY <1>3 DEF EvictionTakesPuts, Missing, NoCommand
  <2> QED  BY <1>1, <1>3, <2>1 DEF RInv, ReadInv, Keeping
<1> QED  BY <1>2, <1>3 DEF Put

(* A command that begins has read nothing. *)
LEMMA ReadBegin ==
  ASSUME RInv,
         \/ \E cmd \in {"diff", "explain", "show", "rules"}, t \in Targets,
               rev \in 0..MaxPuts \cup {Unset} : BeginRead(cmd, t, rev)
         \/ \E f \in Feeds : BeginFeed(f)
  PROVE  RInv'
<1>1. /\ UNCHANGED <<versions, nextRev>> /\ puts' = 0 /\ head' = NoRev
      /\ pc' \in {"head", "list"} /\ result' = Nothing
  BY DEF BeginRead, BeginFeed, Begin, storeVars
<1>2. pc' = "head" =>
        /\ args'.target \in Targets
        /\ args'.cmd \in {"diff", "explain", "show", "rules"}
        /\ args'.rev \in Nat \cup {Unset}
  BY DEF BeginRead, BeginFeed, Begin, Unset
<1>3. EvictionTakesPuts'
  BY <1>1 DEF EvictionTakesPuts, Missing
<1>4. pc' = "list" => args'.cmd = "feed"
  BY FeedsAssumption DEF BeginRead, BeginFeed, Begin, FeedArgs
<1>5. StoreInv'
  BY <1>1 DEF RInv, StoreInv
<1> QED  BY <1>1, <1>2, <1>3, <1>4, <1>5 DEF RInv, ReadInv, Keeping

(* The head of a ring without a gap is the revision below the next. *)
LEMMA ReadHeadFinds ==
  ASSUME RInv, ReadHead
  PROVE  RInv'
<1>1. /\ pc = "head" /\ args.target \in Targets /\ puts \in Nat
      /\ args.cmd \in {"diff", "explain", "show", "rules"}
      /\ args.rev \in Nat \cup {Unset}
      /\ nextRev[T] \in Nat /\ DOMAIN versions[T] = Youngest(nextRev[T])
      /\ UNCHANGED <<versions, nextRev, args, puts, old>>
  BY DEF RInv, StoreInv, ReadInv, ReadHead, storeVars, T
<1>2. head' = nextRev[T] - 1
  BY <1>1, HeadOfYoungest DEF ReadHead
<1>3. StoreInv'
  BY <1>1 DEF RInv, StoreInv
<1>4. CASE head' = NoRev
  <2>1. pc' = "idle"
    BY <1>4 DEF ReadHead, Answer
  <2>2. EvictionTakesPuts'
    BY <1>4 DEF EvictionTakesPuts, Missing
  <2> QED  BY <1>1, <1>3, <2>1, <2>2 DEF RInv, ReadInv, Keeping
<1>5. CASE head' # NoRev
  <2>1. head' \in Nat /\ HeadInv'
    BY <1>1, <1>2, <1>5 DEF HeadInv, NoRev, T
  <2>2. /\ pc' = CASE args.cmd = "show" -> "retained"
                   [] args.cmd = "rules" -> "html"
                   [] OTHER -> "old"
        /\ UNCHANGED result
    BY <1>5 DEF ReadHead
  <2>3. pc' \in {"retained", "html", "old"} /\ (pc' = "old" => args.cmd \in {"diff", "explain"})
    BY <1>1, <2>2
  <2>4. pc' = "old" => OldInv'
    BY <1>1, <2>3 DEF OldInv
  <2>5. result' = Nothing /\ EvictionTakesPuts'
    BY <1>1, <2>2 DEF RInv, ReadInv, EvictionTakesPuts, Missing, Nothing
  <2> QED  BY <1>1, <1>3, <2>1, <2>3, <2>4, <2>5 DEF RInv, ReadInv, Keeping
<1> QED  BY <1>4, <1>5

(* A version below the next is missing only after the puts that evict it. *)
LEMMA MissingTookPuts ==
  ASSUME StoreInv, HeadInv, puts \in Nat, NEW r \in Nat, r <= head,
         SnapshotAt(versions[T], r) = NoDoc \/ r \notin Retained(T)
  PROVE  puts >= RingN - (head - r)
<1>1. T \in Targets /\ nextRev[T] \in Nat /\ r < nextRev[T] /\ head \in Nat
  BY DEF StoreInv, HeadInv, T
<1>2. nextRev[T] > r + RingN
  BY <1>1, MissingIsOld
<1> QED  BY <1>1, <1>2, RingNAssumption DEF HeadInv

(* What the commands with a head leave alone. *)
LEMMA HeadStays ==
  ASSUME RInv, pc \in Keeping, UNCHANGED <<storeVars, args, head, puts>>
  PROVE  /\ StoreInv /\ StoreInv' /\ HeadInv /\ HeadInv'
         /\ puts \in Nat /\ puts' \in Nat /\ result = Nothing
         /\ head \in Nat /\ head # NoRev /\ Asked' = Asked
  BY DEF RInv, ReadInv, StoreInv, HeadInv, storeVars, T, Asked, NoRev

(* The older version is compared if it is there. *)
LEMMA ReadOldFinds ==
  ASSUME RInv, ReadOld
  PROVE  RInv'
<1>1. /\ pc = "old" /\ pc \in Keeping /\ OldInv
      /\ UNCHANGED <<storeVars, args, head, puts>>
  BY DEF RInv, ReadInv, ReadOld, Keeping
<1>2. /\ StoreInv /\ StoreInv' /\ HeadInv /\ HeadInv'
      /\ puts \in Nat /\ puts' \in Nat /\ result = Nothing
      /\ head \in Nat /\ head # NoRev /\ Asked' = Asked
  BY <1>1, HeadStays
<1>3. args.cmd \in {"diff", "explain"} /\ args.rev \in Nat \cup {Unset} /\ args' = args
  BY <1>1 DEF OldInv
<1>4. CASE pc' = "idle" /\ result' = [kind |-> "usage", events |-> <<>>]
  BY <1>1, <1>2, <1>3, <1>4 DEF RInv, ReadInv, Keeping, EvictionTakesPuts, Missing
<1>5. CASE pc' = "idle" /\ result' = [kind |-> "first_obs", events |-> <<>>]
  BY <1>1, <1>2, <1>3, <1>5 DEF RInv, ReadInv, Keeping, EvictionTakesPuts, Missing
<1>6. ASSUME OldRev # head, ~(args.cmd = "explain" /\ head = 0)
      PROVE  /\ OldRev = Asked /\ Asked \in Nat
             /\ SnapshotAt(versions[T], OldRev) = NoDoc =>
                  Asked > head \/ puts >= RingN - (head - Asked)
  <2>1. OldRev = Asked /\ Asked \in Nat
    BY <1>2, <1>3, <1>6 DEF OldRev, Asked, Unset
  <2>2. ASSUME SnapshotAt(versions[T], Asked) = NoDoc, ~(Asked > head)
        PROVE  puts >= RingN - (head - Asked)
    <3>1. Asked <= head
      BY <1>2, <2>1, <2>2
    <3> QED  BY <1>2, <2>1, <2>2, <3>1, MissingTookPuts
  <2> QED  BY <2>1, <2>2
<1>7. ASSUME OldRev # head, ~(args.cmd = "explain" /\ head = 0),
             args.cmd = "explain", SnapshotAt(versions[T], OldRev) = NoDoc,
             pc' = "idle", result' = [kind |-> "panic", events |-> <<>>]
      PROVE  RInv'
  <2>1. Asked' > head' \/ puts' >= RingN - (head' - Asked')
    BY <1>1, <1>2, <1>6, <1>7
  <2>2. EvictionTakesPuts'
    BY <1>3, <1>7, <2>1 DEF EvictionTakesPuts, Missing
  <2> QED  BY <1>2, <1>7, <2>2 DEF RInv, ReadInv, Keeping
<1>8. ASSUME OldRev # head, ~(args.cmd = "explain" /\ head = 0),
             ~(args.cmd = "explain" /\ SnapshotAt(versions[T], OldRev) = NoDoc),
             pc' = "new", old' = SnapshotAt(versions[T], OldRev), result' = result
      PROVE  RInv'
  <2>1. old' = NoDoc =>
          args'.cmd = "diff" /\ (Asked' > head' \/ puts' >= RingN - (head' - Asked'))
    BY <1>1, <1>2, <1>3, <1>6, <1>8
  <2>2. OldInv'
    BY <1>3, <2>1 DEF OldInv
  <2>3. EvictionTakesPuts'
    BY <1>2, <1>8 DEF EvictionTakesPuts, Missing, Nothing
  <2> QED  BY <1>2, <1>8, <2>2, <2>3 DEF RInv, ReadInv, Keeping
<1> QED  BY <1>4, <1>5, <1>7, <1>8 DEF ReadOld, Answer

(* The head is compared if it is still there. *)
LEMMA ReadNewFinds ==
  ASSUME RInv, ReadNew
  PROVE  RInv'
<1>1. /\ pc = "new" /\ pc \in Keeping /\ OldInv /\ pc' = "idle"
      /\ UNCHANGED <<storeVars, args, head, puts>>
  BY DEF RInv, ReadInv, ReadNew, Keeping, Answer
<1>2. /\ StoreInv /\ StoreInv' /\ HeadInv /\ HeadInv'
      /\ puts \in Nat /\ puts' \in Nat
      /\ head \in Nat /\ Asked' = Asked
  BY <1>1, HeadStays
<1>3. Asked \in Int /\ args.cmd \in {"diff", "explain"} /\ args' = args /\ head' = head /\ puts' = puts
  BY <1>1, <1>2 DEF OldInv, Asked, Unset
<1>4. ASSUME SnapshotAt(versions[T], head) = NoDoc \/ old = NoDoc
      PROVE  Asked > head \/ puts >= RingN - (head - Asked)
  <2>1. CASE old = NoDoc
    BY <1>1, <2>1 DEF OldInv
  <2>2. CASE SnapshotAt(versions[T], head) = NoDoc
    <3>1. puts >= RingN - (head - head)
      BY <1>2, <2>2, MissingTookPuts
    <3> QED  BY <1>2, <1>3, <3>1, RingNAssumption
  <2> QED  BY <1>4, <2>1, <2>2
<1>5. \/ /\ SnapshotAt(versions[T], head) = NoDoc \/ old = NoDoc
         /\ result'.kind \in {"panic", "not_found"}
      \/ result'.kind \in {"change", "no_change"}
  BY DEF ReadNew, NewRev, Answer
<1>6. EvictionTakesPuts'
  <2>1. ASSUME result'.kind \in {"panic", "not_found"}
        PROVE  Asked' > head' \/ puts' >= RingN - (head' - Asked')
    BY <1>2, <1>3, <1>4, <1>5, <2>1
  <2> QED  BY <1>3, <1>5, <2>1 DEF EvictionTakesPuts, Missing
<1> QED  BY <1>1, <1>2, <1>6 DEF RInv, ReadInv, Keeping

(* show and rules find the head they read, or it has been evicted. *)
LEMMA ReadRowFinds ==
  ASSUME RInv, ReadRetained \/ ReadHtml
  PROVE  RInv'
<1>1. /\ pc \in Keeping /\ pc' = "idle"
      /\ UNCHANGED <<storeVars, args, head, puts>>
      /\ result'.kind \in {"shown", "torn", "usage"}
      /\ result'.kind # "shown" => head \notin Retained(T)
  BY DEF ReadRetained, ReadHtml, Keeping, Answer
<1>2. /\ StoreInv /\ StoreInv' /\ HeadInv /\ HeadInv'
      /\ puts \in Nat /\ puts' \in Nat /\ head \in Nat
  BY <1>1, HeadStays
<1>3. head \notin Retained(T) => puts' >= RingN
  <2>1. head \notin Retained(T) => puts >= RingN - (head - head)
    BY <1>2, MissingTookPuts
  <2> QED  BY <1>1, <1>2, <2>1, RingNAssumption
<1>4. EvictionTakesPuts'
  BY <1>1, <1>3 DEF EvictionTakesPuts, Missing
<1> QED  BY <1>1, <1>2, <1>4 DEF RInv, ReadInv, Keeping

(* A feed reads no head and answers with rows. *)
LEMMA FeedFinds ==
  ASSUME RInv,
         ListRevs \/ ReadPrev \/ ReadCur \/ EndTarget \/ DeliverPage \/ Resume
  PROVE  RInv'
<1>1. /\ UNCHANGED <<storeVars, args, head, puts>>
      /\ pc \in {"list", "window", "cur", "resume"}
      /\ pc' \in {"list", "window", "cur", "resume", "idle"}
      /\ result' = result \/ result'.kind \in {"change", "no_change"}
  <2>1. CASE ListRevs
    BY <2>1, Zenon DEF ListRevs, storeVars
  <2>2. CASE ReadPrev \/ EndTarget \/ Resume
    BY <2>2 DEF ReadPrev, EndTarget, Resume, feedVars
  <2>3. CASE ReadCur
    BY <2>3 DEF ReadCur
  <2>4. CASE DeliverPage
    BY <2>4 DEF DeliverPage
  <2> QED  BY <2>1, <2>2, <2>3, <2>4
<1>2. EvictionTakesPuts' /\ args'.cmd = "feed"
  BY <1>1 DEF RInv, ReadInv, EvictionTakesPuts, Missing, Keeping
<1> QED  BY <1>1, <1>2 DEF RInv, StoreInv, ReadInv, Keeping, storeVars

----------------------------------------------------------------------------
(* The invariant of the readers. *)
LEMMA RInvInit ==
  ASSUME Init
  PROVE  RInv
<1>1. StoreInv
  <2>1. Youngest(0) = {}
    BY DEF Youngest
  <2> QED  BY <2>1 DEF Init, StoreInv, NoRows
<1>2. ReadInv
  BY DEF Init, ReadInv, Keeping, EvictionTakesPuts, Missing, NoCommand
<1> QED  BY <1>1, <1>2 DEF RInv

(* Every step keeps it. *)
LEMMA RInvNext ==
  ASSUME RInv, [Next]_vars
  PROVE  RInv'
<1>1. ASSUME NEW t \in Targets, NEW doc \in Pages, Put(t, doc)
      PROVE  RInv'
  BY <1>1, ReadPut
<1>2. CASE \/ \E cmd \in {"diff", "explain", "show", "rules"}, t \in Targets,
                rev \in 0..MaxPuts \cup {Unset} : BeginRead(cmd, t, rev)
           \/ \E f \in Feeds : BeginFeed(f)
  BY <1>2, ReadBegin
<1>3. CASE ReadHead
  BY <1>3, ReadHeadFinds
<1>4. CASE ReadOld
  BY <1>4, ReadOldFinds
<1>5. CASE ReadNew
  BY <1>5, ReadNewFinds
<1>6. CASE ReadRetained \/ ReadHtml
  BY <1>6, ReadRowFinds
<1>7. CASE ListRevs \/ ReadPrev \/ ReadCur \/ EndTarget \/ DeliverPage \/ Resume
  BY <1>7, FeedFinds
<1>8. CASE UNCHANGED vars
  BY <1>8 DEF vars, storeVars, readVars, feedVars, RInv, StoreInv, ReadInv,
              HeadInv, OldInv, EvictionTakesPuts, Missing, Asked, T, Keeping
<1> QED  BY <1>1, <1>2, <1>3, <1>4, <1>5, <1>6, <1>7, <1>8 DEF Next, ReaderStep

(***************************************************************************)
(* However the commands and the puts interleave, a version a command read  *)
(* the head of is missing only after the puts that evict it: cf explain    *)
(* cannot panic before the ring has turned under it.                       *)
(***************************************************************************)
THEOREM EvictionNeedsPuts == Spec => []EvictionTakesPuts
<1>1. Init => RInv
  BY RInvInit
<1>2. RInv /\ [Next]_vars => RInv'
  BY RInvNext
<1>3. RInv => EvictionTakesPuts
  BY DEF RInv, ReadInv
<1> QED  BY <1>1, <1>2, <1>3, PTL DEF Spec

----------------------------------------------------------------------------
(***************************************************************************)
(* What the readers tell, against the log of all that was ever stored.     *)
(***************************************************************************)
LogInv ==
  /\ log \in [Targets -> Seq(Pages)]
  /\ \A t \in Targets :
       /\ Len(log[t]) = nextRev[t]
       /\ \A r \in DOMAIN versions[t] : versions[t][r] = log[t][r + 1]

(* What was logged stays logged. *)
LogStays ==
  \A t \in Targets : \A r \in 0..(nextRev[t] - 1) :
    Logged(t, r)' = Logged(t, r) /\ r \in 0..(nextRev'[t] - 1)

(* A row that is read is the logged one. *)
LEMMA ReadIsLogged ==
  ASSUME StoreInv, LogInv, NEW t \in Targets, NEW r, SnapshotAt(versions[t], r) # NoDoc
  PROVE  /\ r \in 0..(nextRev[t] - 1) /\ nextRev[t] \in Nat
         /\ r \in Retained(t)
         /\ SnapshotAt(versions[t], r) = Logged(t, r)
<1>1. r \in DOMAIN versions[t] /\ SnapshotAt(versions[t], r) = versions[t][r]
  BY DEF SnapshotAt
<1>2. nextRev[t] \in Nat /\ r \in 0..(nextRev[t] - 1)
  BY <1>1 DEF StoreInv, Youngest
<1>3. log[t] \in Seq(Pages) /\ Len(log[t]) = nextRev[t] /\ versions[t][r] = log[t][r + 1]
  BY <1>1 DEF LogInv
<1> QED  BY <1>1, <1>2, <1>3 DEF Logged, Retained

(* Every logged revision holds a page. *)
LEMMA LoggedIsPage ==
  ASSUME StoreInv, LogInv, NEW t \in Targets, NEW r \in 0..(nextRev[t] - 1)
  PROVE  Logged(t, r) \in Pages /\ Logged(t, r) # NoDoc
<1>1. log[t] \in Seq(Pages) /\ Len(log[t]) = nextRev[t] /\ nextRev[t] \in Nat
  BY DEF LogInv, StoreInv
<1>2. Logged(t, r) = log[t][r + 1] /\ Logged(t, r) \in Pages
  BY <1>1 DEF Logged
<1> QED  BY <1>2, PagesAssumption, AbsentAssumption

(* A put appends to one log. *)
LEMMA PutLogs ==
  ASSUME StoreInv, LogInv, NEW t \in Targets, NEW doc \in Pages, Put(t, doc)
  PROVE  LogInv' /\ LogStays
<1>1. PICK n \in Nat : n = nextRev[t] /\ DOMAIN versions[t] = Youngest(n)
  BY DEF StoreInv
<1>2. PutRows(versions[t], n, doc) =
        [r \in Youngest(n + 1) |-> IF r = n THEN doc ELSE versions[t][r]]
  BY <1>1, PutSlides
<1>3. BumpNextRev(n, n) = n + 1
  BY <1>1 DEF BumpNextRev
<1>4. /\ versions' = [versions EXCEPT ![t] = PutRows(versions[t], n, doc)]
      /\ nextRev' = [nextRev EXCEPT ![t] = n + 1]
      /\ log' = [log EXCEPT ![t] = Append(log[t], doc)]
  BY <1>1, <1>3 DEF Put
<1>5. /\ log[t] \in Seq(Pages) /\ Len(log[t]) = n
      /\ Append(log[t], doc) \in Seq(Pages) /\ Len(Append(log[t], doc)) = n + 1
      /\ \A i \in 1..n : Append(log[t], doc)[i] = log[t][i]
      /\ Append(log[t], doc)[n + 1] = doc
  BY <1>1, AppendProperties DEF LogInv
<1>6. log' \in [Targets -> Seq(Pages)]
  BY <1>4, <1>5 DEF LogInv
<1>7. ASSUME NEW u \in Targets
      PROVE  /\ Len(log'[u]) = nextRev'[u]
             /\ \A r \in DOMAIN versions'[u] : versions'[u][r] = log'[u][r + 1]
  <2>1. CASE u # t
    <3>1. versions'[u] = versions[u] /\ nextRev'[u] = nextRev[u] /\ log'[u] = log[u]
      BY <1>4, <2>1 DEF StoreInv, LogInv
    <3> QED  BY <3>1 DEF LogInv
  <2>2. CASE u = t
    <3>1. /\ versions'[u] = [r \in Youngest(n + 1) |-> IF r = n THEN doc ELSE versions[t][r]]
          /\ nextRev'[u] = n + 1 /\ log'[u] = Append(log[t], doc)
      BY <1>2, <1>4, <2>2 DEF StoreInv, LogInv
    <3>2. \A r \in Youngest(n + 1) :
            r \in Nat /\ (r # n => r \in DOMAIN versions[t] /\ r + 1 \in 1..n)
      BY <1>1, RingNAssumption DEF Youngest
    <3>3. \A r \in DOMAIN versions[t] : versions[t][r] = log[t][r + 1]
      BY DEF LogInv
    <3> QED  BY <1>5, <3>1, <3>2, <3>3
  <2> QED  BY <2>1, <2>2
<1>8. ASSUME NEW u \in Targets, NEW r \in 0..(nextRev[u] - 1)
      PROVE  Logged(u, r)' = Logged(u, r) /\ r \in 0..(nextRev'[u] - 1)
  <2>1. CASE u # t
    <3>1. log'[u] = log[u] /\ nextRev'[u] = nextRev[u]
      BY <1>4, <2>1 DEF StoreInv, LogInv
    <3> QED  BY <3>1 DEF Logged
  <2>2. CASE u = t
    <3>1. log'[u] = Append(log[t], doc) /\ nextRev'[u] = n + 1
      BY <1>4, <2>2 DEF StoreInv, LogInv
    <3>2. r + 1 \in 1..n
      BY <1>1, <2>2
    <3> QED  BY <1>1, <1>5, <2>2, <3>1, <3>2 DEF Logged
  <2> QED  BY <2>1, <2>2
<1> QED  BY <1>6, <1>7, <1>8 DEF LogInv, LogStays

(* Every other step leaves the store and its log alone. *)
LEMMA StoreStays ==
  ASSUME StoreInv, LogInv, UNCHANGED storeVars
  PROVE  LogInv' /\ LogStays
  BY DEF StoreInv, LogInv, LogStays, Logged, storeVars

----------------------------------------------------------------------------
(* The image of a finite set is finite. *)
LEMMA EventsAreFinite ==
  ASSUME NEW a \in Pages, NEW b \in Pages, NEW min
  PROVE  /\ IsFiniteSet(ScoredEvents(a, b)) /\ ScoredEvents(a, b) \subseteq Event
         /\ IsFiniteSet(Observe(a, b, min).events) /\ Observe(a, b, min).events \subseteq Event
<1>1. PICK S \in SUBSET Slots, R \in SUBSET Slots :
        a \in [S -> Block] /\ b \in [R -> Block]
  BY PagesAssumption DEF Doc
<1>2. IsFiniteSet(ChangedSlots(a, b)) /\ ChangedSlots(a, b) \subseteq Slots
  <2>1. IsFiniteSet(DOMAIN a \cup DOMAIN b)
    BY PagesAreFinite, FS_Union
  <2>2. DOMAIN Mask(a) \subseteq DOMAIN a /\ DOMAIN Mask(b) \subseteq DOMAIN b
    BY DEF Mask, Restrict
  <2>3. ChangedSlots(a, b) \subseteq DOMAIN a \cup DOMAIN b
    BY <2>2 DEF ChangedSlots
  <2>4. IsFiniteSet(ChangedSlots(a, b))
    BY <2>1, <2>3, FS_Subset
  <2> QED  BY <1>1, <2>3, <2>4
<1>3. PICK f : f = [s \in ChangedSlots(a, b) |->
                      [slot |-> s, from |-> BlockAt(a, s), to |-> BlockAt(b, s),
                       mat |-> SlotMat[s]]]
  OBVIOUS
<1>4. f \in Surjection(ChangedSlots(a, b), ScoredEvents(a, b))
  BY <1>3 DEF Surjection, ScoredEvents
<1>5. IsFiniteSet(ScoredEvents(a, b))
  BY <1>2, <1>4, FS_Surjection
<1>6. \A s \in Slots : BlockAt(a, s) \in Block \cup {Absent} /\ BlockAt(b, s) \in Block \cup {Absent}
  BY <1>1 DEF BlockAt
<1>7. ASSUME NEW e \in ScoredEvents(a, b)
      PROVE  e \in Event
  <2>1. PICK s \in ChangedSlots(a, b) :
          e = [slot |-> s, from |-> BlockAt(a, s), to |-> BlockAt(b, s), mat |-> SlotMat[s]]
    BY DEF ScoredEvents
  <2>2. s \in Slots /\ SlotMat[s] \in Materiality
    BY <1>2, SlotMatAssumption
  <2>3. PICK x, y, m : x = BlockAt(a, s) /\ y = BlockAt(b, s) /\ m = SlotMat[s]
    OBVIOUS
  <2>4. x \in Block \cup {Absent} /\ y \in Block \cup {Absent} /\ m \in Materiality
    BY <1>6, <2>2, <2>3
  <2> QED  BY <2>1, <2>2, <2>3, <2>4 DEF Event
<1>8. GuardEvent \in Event /\ IsFiniteSet({GuardEvent}) /\ IsFiniteSet({})
  <2>1. GuardEvent \in Event
    BY DEF GuardEvent, Event, Materiality, High
  <2>2. IsFiniteSet({GuardEvent}) /\ IsFiniteSet({})
    BY FS_Singleton, FS_EmptySet
  <2> QED  BY <2>1, <2>2
<1>9. PICK scored, material :
        /\ scored = ScoredEvents(a, b)
        /\ material = Material(scored, min)
  OBVIOUS
<1>10. material \subseteq scored /\ IsFiniteSet(material)
  <2>1. material \subseteq scored
    BY <1>9 DEF Material
  <2> QED  BY <1>5, <1>9, <2>1, FS_Subset
<1>11. Observe(a, b, min).events \in {{}, {GuardEvent}, material}
  BY <1>9 DEF Observe, Outcome
<1> QED  BY <1>5, <1>7, <1>8, <1>9, <1>10, <1>11

(* The rows of a set of events hold each of them, and no others. *)
LEMMA AsRowsHolds ==
  ASSUME NEW t, NEW r, NEW events, IsFiniteSet(events)
  PROVE  /\ AsRows(t, r, events) \in Seq([tid : {t}, rev : {r}, event : events])
         /\ \A e \in events : \E i \in DOMAIN AsRows(t, r, events) :
              AsRows(t, r, events)[i] = [tid |-> t, rev |-> r, event |-> e]
<1>1. PICK s, n : s = SetToSeq(events) /\ n = Cardinality(events)
  OBVIOUS
<1>2. /\ n \in Nat /\ s \in [1..n -> events]
      /\ \A e \in events : \E i \in 1..n : s[i] = e
  BY <1>1, SetToSeqHolds
<1>3. AsRows(t, r, events) = [i \in 1..n |-> [tid |-> t, rev |-> r, event |-> s[i]]]
  BY <1>1, <1>2 DEF AsRows
<1>4. AsRows(t, r, events) \in [1..n -> [tid : {t}, rev : {r}, event : events]]
  BY <1>2, <1>3
<1>5. AsRows(t, r, events) \in Seq([tid : {t}, rev : {r}, event : events])
  <2>1. ASSUME NEW X, NEW g \in [1..n -> X]
        PROVE  g \in Seq(X)
    BY <1>2
  <2> QED  BY <1>4, <2>1
<1> QED  BY <1>2, <1>3, <1>5

(* A stable sort by salience reorders the rows and does nothing else. *)
LEMMA SortKeepsRows ==
  ASSUME NEW S, NEW s \in Seq(S), \A i \in DOMAIN s : s[i].event.mat \in Nat
  PROVE  /\ BySalience(s) \in Seq(S) /\ Len(BySalience(s)) = Len(s)
         /\ \A i \in DOMAIN s : \E k \in DOMAIN s : BySalience(s)[k] = s[i]
<1>1. PICK n \in Nat : n = Len(s) /\ DOMAIN s = 1..n
  OBVIOUS
<1>2. PICK R : R = {p \in (1..n) \X (1..n) : Outranks(s, p[1], p[2])}
  OBVIOUS
<1>3. StrictOrder(R, 1..n)
  <2>1. \A i \in 1..n : i \in Int /\ s[i].event.mat \in Int
    BY <1>1
  <2>2. \A i, j \in 1..n : <<i, j>> \in R <=> Outranks(s, i, j)
    BY <1>2
  <2>3. ASSUME NEW i \in 1..n, NEW j \in 1..n, NEW k \in 1..n,
               <<i, j>> \in R, <<j, k>> \in R
        PROVE  <<i, k>> \in R
    <3>1. PICK a, b, c : /\ a = s[i].event.mat /\ b = s[j].event.mat
                         /\ c = s[k].event.mat
      OBVIOUS
    <3>2. (a > b \/ (a = b /\ i < j)) /\ (b > c \/ (b = c /\ j < k))
      BY <2>2, <2>3, <3>1 DEF Outranks
    <3>3. a > c \/ (a = c /\ i < k)
      BY <2>1, <3>1, <3>2
    <3> QED  BY <2>2, <3>1, <3>3 DEF Outranks
  <2>4. \A i \in 1..n : <<i, i>> \notin R
    BY <2>1, <2>2 DEF Outranks
  <2>5. ASSUME NEW i \in 1..n, NEW j \in 1..n
        PROVE  i = j \/ <<i, j>> \in R \/ <<j, i>> \in R
    <3>1. PICK a, b : a = s[i].event.mat /\ b = s[j].event.mat
      OBVIOUS
    <3>2. i = j \/ a > b \/ (a = b /\ i < j) \/ b > a \/ (b = a /\ j < i)
      BY <2>1, <3>1
    <3> QED  BY <2>2, <3>1, <3>2 DEF Outranks
  <2> QED  BY <2>3, <2>4, <2>5 DEF StrictOrder
<1>4. \A i \in 1..n : Before(R, 1..n, i) = {j \in 1..n : Outranks(s, j, i)}
  BY <1>2 DEF Before
<1>6. /\ \A i \in 1..n : Cardinality(Before(R, 1..n, i)) \in 0..(n - 1)
      /\ \A i, j \in 1..n :
           Cardinality(Before(R, 1..n, i)) = Cardinality(Before(R, 1..n, j)) => i = j
      /\ \A k \in 1..n : \E i \in 1..n : Cardinality(Before(R, 1..n, i)) = k - 1
  BY <1>3, RanksOfNumbers
<1>7. PICK at : at = [k \in 1..n |->
                        CHOOSE i \in 1..n : Cardinality({j \in 1..n : Outranks(s, j, i)}) = k - 1]
  OBVIOUS
<1>8. BySalience(s) = [k \in 1..n |-> s[at[k]]]
  BY <1>1, <1>7 DEF BySalience
<1>9. ASSUME NEW k \in 1..n
      PROVE  at[k] \in 1..n /\ Cardinality(Before(R, 1..n, at[k])) = k - 1
  <2>1. \E i \in 1..n : Cardinality({j \in 1..n : Outranks(s, j, i)}) = k - 1
    BY <1>4, <1>6
  <2>2. at[k] \in 1..n /\ Cardinality({j \in 1..n : Outranks(s, j, at[k])}) = k - 1
    BY <1>7, <2>1
  <2> QED  BY <1>4, <2>2
<1>10. ASSUME NEW i \in 1..n
       PROVE  \E k \in 1..n : BySalience(s)[k] = s[i]
  <2>1. PICK k \in 1..n : Cardinality(Before(R, 1..n, i)) = k - 1
    <3>1. Cardinality(Before(R, 1..n, i)) + 1 \in 1..n
      BY <1>6
    <3>2. Cardinality(Before(R, 1..n, i)) = (Cardinality(Before(R, 1..n, i)) + 1) - 1
      BY <1>6
    <3> QED  BY <3>1, <3>2
  <2>2. at[k] = i
    BY <1>6, <1>9, <2>1
  <2> QED  BY <1>8, <2>2
<1>11. BySalience(s) \in [1..n -> S]
  BY <1>1, <1>8, <1>9
<1>12. ASSUME NEW X, NEW g \in [1..n -> X]
       PROVE  g \in Seq(X) /\ Len(g) = n
  OBVIOUS
<1>13. BySalience(s) \in Seq(S) /\ Len(BySalience(s)) = n
  BY <1>11, <1>12
<1> QED  BY <1>1, <1>10, <1>13

----------------------------------------------------------------------------
(* The rows that tell a change of the log. *)
Rows == [tid : Targets, rev : Nat, event : Event]

Told ==
  {row \in Rows :
     /\ row.rev \in 1..(nextRev[row.tid] - 1)
     /\ row.event \in Observe(Logged(row.tid, row.rev - 1), Logged(row.tid, row.rev),
                              args.min).events}

(* diff and explain compare what the log holds under the two revisions. *)
DiffInv ==
  args.cmd \in {"diff", "explain"} =>
    /\ pc = "new" /\ old # NoDoc => OldRev \in 0..(nextRev[T] - 1) /\ old = Logged(T, OldRev)
    /\ result.kind \in {"change", "no_change"} =>
         EventsTold(T, head) = EventsOf(args.cmd, Logged(T, OldRev), Logged(T, head))

(* What a feed has listed is a run of revisions of the log, and the document
   it holds is the first of them. *)
Listed ==
  /\ todo # <<>> /\ revs \in Seq(Nat)
  /\ \A i \in 1..Len(revs) : revs[i] < nextRev[Head(todo)]
  /\ \A i \in 1..(Len(revs) - 1) : revs[i + 1] = revs[i] + 1

Done == Len(args.targets) - Len(todo)

FeedInv ==
  args.cmd = "feed" =>
    /\ args \in FeedArgs
    /\ cursor \in Nat \cup {Unset} /\ (pc # "idle" => cursor \in Nat)
    /\ todo \in Seq(Targets) /\ Done \in 0..Len(args.targets)
    /\ todo = SubSeq(args.targets, Done + 1, Len(args.targets))
    /\ pc \in {"idle", "resume"} => todo = <<>>
    /\ pc \in {"window", "cur"} => Listed
    /\ pc = "cur" => Len(revs) >= 2 /\ old \in {NoDoc, Logged(Head(todo), revs[1])}
    /\ rows \in Seq(Told) /\ result.events \in Seq(Told)

(* No statement of the other commands runs for a feed. *)
CommandInv == pc \in Keeping \cup {"head"} => args.cmd # "feed"

TellInv == LogInv /\ CommandInv /\ DiffInv /\ FeedInv

(* A row that tells a change of the log goes on telling it. *)
LEMMA ToldStays ==
  ASSUME StoreInv, LogStays, UNCHANGED args
  PROVE  Told \subseteq Told'
<1>1. ASSUME NEW row \in Rows, row \in Told
      PROVE  row \in Told'
  <2>1. PICK t \in Targets, r \in Nat : t = row.tid /\ r = row.rev
    BY DEF Rows
  <2>2. /\ nextRev[t] \in Nat /\ r \in 1..(nextRev[t] - 1)
        /\ row.event \in Observe(Logged(t, r - 1), Logged(t, r), args.min).events
    BY <1>1, <2>1 DEF Told, StoreInv
  <2>3. r \in 0..(nextRev[t] - 1) /\ r - 1 \in 0..(nextRev[t] - 1)
    BY <2>2
  <2>4. /\ Logged(t, r)' = Logged(t, r) /\ Logged(t, r - 1)' = Logged(t, r - 1)
        /\ r \in 0..(nextRev'[t] - 1)
    BY <2>3 DEF LogStays
  <2>5. r \in 1..(nextRev'[t] - 1)
    BY <2>2, <2>4
  <2> QED  BY <1>1, <2>1, <2>2, <2>4, <2>5 DEF Told
<1>2. Told \subseteq Rows
  BY DEF Told
<1> QED  BY <1>1, <1>2


(* Of what a feed has read, a put changes nothing. *)
LEMMA FeedStays ==
  ASSUME StoreInv, StoreInv', FeedInv, LogStays, UNCHANGED readVars
  PROVE  FeedInv'
<1>1. SUFFICES ASSUME args.cmd = "feed" PROVE FeedInv'
  BY DEF FeedInv, readVars
<1>2. UNCHANGED <<pc, args, todo, revs, rows, cursor, old, result>>
  BY DEF readVars, feedVars
<1>3. Told \subseteq Told'
  BY <1>2, ToldStays
<1>4. /\ rows \in Seq(Told') /\ result.events \in Seq(Told')
  BY <1>1, <1>3, SeqMonotonic DEF FeedInv
<1>5. pc \in {"window", "cur"} => Listed'
  <2>1. SUFFICES ASSUME pc \in {"window", "cur"} PROVE Listed'
    OBVIOUS
  <2>2. Listed /\ todo \in Seq(Targets)
    BY <1>1, <2>1 DEF FeedInv
  <2>3. PICK t \in Targets : t = Head(todo)
    <3>1. Head(todo) \in Targets
      BY <2>2, HeadTailProperties DEF Listed
    <3> QED  BY <3>1
  <2>4. \A i \in 1..Len(revs) : revs[i] < nextRev'[t]
    <3>1. ASSUME NEW i \in 1..Len(revs)
          PROVE  revs[i] < nextRev'[t]
      <4>1. revs[i] \in Nat /\ revs[i] < nextRev[t] /\ nextRev[t] \in Nat
        <5>1. revs[i] \in Nat
          BY <2>2, ElementOfSeq DEF Listed
        <5> QED  BY <2>2, <2>3, <5>1 DEF Listed, StoreInv
      <4>2. revs[i] \in 0..(nextRev'[t] - 1)
        BY <4>1 DEF LogStays
      <4>3. nextRev'[t] \in Nat
        BY DEF StoreInv
      <4> QED  BY <4>1, <4>2, <4>3
    <3> QED  BY <3>1
  <2> QED  BY <1>2, <2>2, <2>3, <2>4 DEF Listed
<1>6. pc = "cur" => old \in {NoDoc, Logged(Head(todo), revs[1])'}
  <2>1. SUFFICES ASSUME pc = "cur" PROVE old \in {NoDoc, Logged(Head(todo), revs[1])'}
    OBVIOUS
  <2>2. Listed /\ todo \in Seq(Targets) /\ Len(revs) >= 2 /\ old \in {NoDoc, Logged(Head(todo), revs[1])}
    BY <1>1, <2>1 DEF FeedInv
  <2>3. PICK t \in Targets : t = Head(todo)
    <3>1. Head(todo) \in Targets
      BY <2>2, HeadTailProperties DEF Listed
    <3> QED  BY <3>1
  <2>7. PICK r : r = revs[1]
    OBVIOUS
  <2>4. r \in 0..(nextRev[t] - 1)
    <3>1. Len(revs) \in Nat /\ 1 \in 1..Len(revs)
      BY <2>2, LenProperties DEF Listed
    <3>2. revs[1] \in Nat
      BY <2>2, <3>1, ElementOfSeq DEF Listed
    <3>3. revs[1] < nextRev[t]
      BY <2>2, <2>3, <3>1 DEF Listed
    <3>4. nextRev[t] \in Nat
      BY DEF StoreInv
    <3> QED  BY <2>7, <3>2, <3>3, <3>4
  <2>5. Logged(t, r)' = Logged(t, r)
    BY <2>4 DEF LogStays
  <2>6. Logged(Head(todo), revs[1])' = Logged(t, r)'
    BY <1>2, <2>3, <2>7 DEF Logged
  <2> QED  BY <2>2, <2>3, <2>5, <2>6, <2>7
<1> QED  BY <1>1, <1>2, <1>4, <1>5, <1>6 DEF FeedInv, Done

(* Nor of what diff and explain have, while they run. *)
LEMMA DiffStays ==
  ASSUME RInv, DiffInv, LogStays, UNCHANGED readVars, pc # "idle" \/ UNCHANGED storeVars
  PROVE  DiffInv'
<1>1. UNCHANGED <<pc, args, head, old, result>>
  BY DEF readVars
<1>2. SUFFICES ASSUME args.cmd \in {"diff", "explain"} PROVE DiffInv'
  BY <1>1 DEF DiffInv
<1>3. T' = T /\ OldRev' = OldRev
  BY <1>1 DEF T, OldRev
<1>4. pc = "new" /\ old # NoDoc => OldRev \in 0..(nextRev'[T] - 1) /\ old = Logged(T, OldRev)'
  <2>1. SUFFICES ASSUME pc = "new", old # NoDoc
                 PROVE  OldRev \in 0..(nextRev'[T] - 1) /\ old = Logged(T, OldRev)'
    OBVIOUS
  <2>6. T \in Targets
    BY <2>1 DEF RInv, ReadInv, HeadInv, Keeping, T
  <2>2. PICK t, r : t \in Targets /\ t = T /\ r = OldRev
    BY <2>6
  <2>3. r \in 0..(nextRev[t] - 1) /\ old = Logged(t, r)
    BY <1>2, <2>1, <2>2 DEF DiffInv
  <2>4. Logged(t, r)' = Logged(t, r) /\ r \in 0..(nextRev'[t] - 1)
    BY <2>2, <2>3 DEF LogStays
  <2>5. Logged(T, OldRev)' = Logged(t, r)'
    BY <1>3, <2>2 DEF Logged
  <2> QED  BY <2>2, <2>3, <2>4, <2>5
<1>5. CASE pc # "idle"
  <2>1. result.kind = "none"
    BY <1>2, <1>5 DEF RInv, ReadInv, Nothing
  <2> QED  BY <1>1, <1>3, <1>4, <2>1 DEF DiffInv, Logged
<1>6. CASE UNCHANGED storeVars
  BY <1>1, <1>2, <1>3, <1>6 DEF DiffInv, storeVars, Logged, EventsTold
<1> QED  BY <1>5, <1>6

(* A put. *)
LEMMA TellPut ==
  ASSUME RInv, TellInv, NEW t \in Targets, NEW doc \in Pages, Put(t, doc)
  PROVE  TellInv'
<1>1. LogInv' /\ LogStays
  BY PutLogs DEF RInv, TellInv
<1>2. CASE pc # "idle" /\ UNCHANGED readVars
  <2>1. StoreInv'
    BY PutSlidesRing DEF RInv
  <2>3. FeedInv'
    BY <1>1, <1>2, <2>1, FeedStays DEF RInv, TellInv
  <2>2. DiffInv'
    BY <1>1, <1>2, DiffStays DEF TellInv
  <2> QED  BY <1>1, <1>2, <2>2, <2>3 DEF TellInv, CommandInv, readVars
<1>3. CASE pc = "idle" /\ UNCHANGED pc /\ args' = NoCommand
  <2>1. args'.cmd = "none" /\ pc' = "idle"
    BY <1>3 DEF NoCommand
  <2> QED  BY <1>1, <2>1 DEF TellInv, CommandInv, DiffInv, FeedInv, Keeping
<1> QED  BY <1>2, <1>3 DEF Put

(* A command that begins. *)
LEMMA TellBegin ==
  ASSUME RInv, TellInv,
         \/ \E cmd \in {"diff", "explain", "show", "rules"}, t \in Targets,
               rev \in 0..MaxPuts \cup {Unset} : BeginRead(cmd, t, rev)
         \/ \E f \in Feeds : BeginFeed(f)
  PROVE  TellInv'
<1>1. UNCHANGED storeVars /\ LogInv'
  <2>1. UNCHANGED storeVars
    BY DEF BeginRead, BeginFeed
  <2> QED  BY <2>1, StoreStays DEF RInv, TellInv
<1>2. ASSUME NEW cmd \in {"diff", "explain", "show", "rules"}, NEW t \in Targets,
             NEW rev \in 0..MaxPuts \cup {Unset}, BeginRead(cmd, t, rev)
      PROVE  TellInv'
  <2>1. args'.cmd \in {"diff", "explain", "show", "rules"} /\ pc' = "head" /\ result'.kind = "none"
    BY <1>2 DEF BeginRead, Begin, Nothing
  <2> QED  BY <1>1, <2>1 DEF TellInv, CommandInv, DiffInv, FeedInv
<1>3. ASSUME NEW f \in Feeds, BeginFeed(f)
      PROVE  TellInv'
  <2>1. /\ args' = f /\ pc' = "list" /\ cursor' = 0 /\ rows' = <<>>
        /\ result'.events = <<>> /\ todo' = f.targets
    BY <1>3 DEF BeginFeed, Begin, Nothing
  <2>2. f \in FeedArgs /\ f.cmd = "feed" /\ f.targets \in Seq(Targets)
    BY FeedsAssumption DEF FeedArgs
  <2>3. SubSeq(f.targets, 1, Len(f.targets)) = f.targets /\ Len(f.targets) \in Nat
    BY <2>2, SubSeqFull, LenProperties
  <2>4. Done' = 0
    BY <2>1, <2>3 DEF Done
  <2>5. <<>> \in Seq(Told')
    BY EmptySeq
  <2>6. FeedInv'
    BY <2>1, <2>2, <2>3, <2>4, <2>5 DEF FeedInv
  <2> QED  BY <1>1, <2>1, <2>2, <2>6 DEF TellInv, CommandInv, DiffInv, Keeping
<1> QED  BY <1>2, <1>3

(* The statements of diff, explain, show and rules before the last. *)
LEMMA TellHead ==
  ASSUME RInv, TellInv, ReadHead \/ ReadOld
  PROVE  TellInv'
<1>1. UNCHANGED <<storeVars, args>> /\ LogInv'
  <2>1. UNCHANGED <<storeVars, args>>
    BY DEF ReadHead, ReadOld
  <2> QED  BY <2>1, StoreStays DEF RInv, TellInv
<1>2. args.cmd # "feed" /\ args' = args
  BY <1>1 DEF TellInv, CommandInv, Keeping, ReadHead, ReadOld
<1>3. result'.kind \notin {"change", "no_change"}
  <2>1. result.kind = "none"
    BY DEF RInv, ReadInv, Keeping, Nothing, ReadHead, ReadOld
  <2> QED  BY <2>1 DEF ReadHead, ReadOld, Answer
<1>4. pc' = "new" /\ old' # NoDoc =>
        OldRev' \in 0..(nextRev'[T'] - 1) /\ old' = Logged(T, OldRev)'
  <2>1. SUFFICES ASSUME pc' = "new", old' # NoDoc
                 PROVE  OldRev' \in 0..(nextRev'[T'] - 1) /\ old' = Logged(T, OldRev)'
    OBVIOUS
  <2>2. ReadOld
    BY <2>1 DEF ReadHead, Answer
  <2>3. old' = SnapshotAt(versions[T], OldRev) /\ UNCHANGED head /\ T \in Targets
    BY <2>1, <2>2 DEF ReadOld, Answer, RInv, ReadInv, HeadInv, Keeping, T
  <2>4. OldRev \in 0..(nextRev[T] - 1) /\ SnapshotAt(versions[T], OldRev) = Logged(T, OldRev)
    BY <2>1, <2>3, ReadIsLogged DEF RInv, TellInv
  <2>5. T' = T /\ OldRev' = OldRev /\ nextRev' = nextRev /\ log' = log
    BY <1>1, <1>2, <2>3 DEF T, OldRev, storeVars
  <2> QED  BY <2>3, <2>4, <2>5 DEF Logged
<1> QED  BY <1>1, <1>2, <1>3, <1>4 DEF TellInv, CommandInv, DiffInv, FeedInv

(* diff and explain tell what the two documents they read differ in. *)
LEMMA TellNew ==
  ASSUME RInv, TellInv, ReadNew
  PROVE  TellInv'
<1>1. UNCHANGED <<storeVars, args, head, old>> /\ pc = "new" /\ pc' = "idle" /\ LogInv'
  <2>1. UNCHANGED <<storeVars, args, head, old>> /\ pc = "new" /\ pc' = "idle"
    BY DEF ReadNew, Answer
  <2> QED  BY <2>1, StoreStays DEF RInv, TellInv
<1>2. args.cmd \in {"diff", "explain"} /\ T \in Targets
  BY <1>1 DEF RInv, ReadInv, OldInv, HeadInv, Keeping, T
<1>3. PICK t, h, r, new : t \in Targets /\ t = T /\ h = head /\ r = OldRev /\ new = SnapshotAt(versions[t], h)
  BY <1>2
<1>4. ASSUME result'.kind \in {"change", "no_change"}
      PROVE  EventsTold(T, head)' = EventsOf(args.cmd, Logged(T, OldRev), Logged(T, head))
  <2>1. PICK events : events = EventsOf(args.cmd, old, new)
    OBVIOUS
  <2>2. new # NoDoc /\ old # NoDoc /\ result'.events = AsRows(t, h, events)
    BY <1>3, <1>4, <2>1 DEF ReadNew, NewRev, Answer
  <2>3. r \in 0..(nextRev[t] - 1) /\ old = Logged(t, r)
    BY <1>1, <1>2, <1>3, <2>2 DEF TellInv, DiffInv
  <2>4. h \in 0..(nextRev[t] - 1) /\ new = Logged(t, h)
    BY <1>3, <2>2, ReadIsLogged DEF RInv, TellInv
  <2>5. old \in Pages /\ new \in Pages
    BY <1>3, <2>3, <2>4, LoggedIsPage DEF RInv, TellInv
  <2>6. IsFiniteSet(events)
    <3>1. IsFiniteSet(ScoredEvents(old, new)) /\ IsFiniteSet(Observe(old, new, None).events)
      BY <2>5, EventsAreFinite
    <3> QED  BY <2>1, <3>1 DEF EventsOf
  <2>7. PICK q : q = AsRows(t, h, events)
    OBVIOUS
  <2>8. /\ q \in Seq([tid : {t}, rev : {h}, event : events])
        /\ \A e \in events : \E i \in DOMAIN q : q[i] = [tid |-> t, rev |-> h, event |-> e]
    BY <2>6, <2>7, AsRowsHolds
  <2>9. \A i \in DOMAIN q : q[i].tid = t /\ q[i].rev = h /\ q[i].event \in events
    <3>1. PICK S : S = [tid : {t}, rev : {h}, event : events]
      OBVIOUS
    <3>2. q \in Seq(S) /\ DOMAIN q = 1..Len(q)
      BY <2>8, <3>1, LenProperties
    <3>3. \A i \in DOMAIN q : q[i] \in S
      BY <3>2, ElementOfSeq
    <3> QED  BY <3>1, <3>3
  <2>10. {q[i].event : i \in {n \in DOMAIN q : q[n].tid = t /\ q[n].rev = h}} = events
    <3>1. {n \in DOMAIN q : q[n].tid = t /\ q[n].rev = h} = DOMAIN q
      BY <2>9
    <3>2. \A e \in events : \E i \in DOMAIN q : q[i].event = e
      BY <2>8
    <3>3. {q[i].event : i \in DOMAIN q} = events
      BY <2>9, <3>2
    <3> QED  BY <3>1, <3>3
  <2>11. T' = t /\ head' = h /\ result'.events = q
    BY <1>1, <1>3, <2>2, <2>7 DEF T
  <2>12. EventsTold(T, head)' = events
    BY <2>10, <2>11 DEF EventsTold
  <2> QED  BY <1>3, <2>1, <2>3, <2>4, <2>12
<1>5. UNCHANGED <<log, head, args>> /\ T' = T /\ OldRev' = OldRev
  BY <1>1 DEF storeVars, T, OldRev
<1> QED  BY <1>1, <1>2, <1>4, <1>5 DEF TellInv, CommandInv, DiffInv, FeedInv, Keeping, Logged

(* show and rules tell no change. *)
LEMMA TellRow ==
  ASSUME RInv, TellInv, ReadRetained \/ ReadHtml
  PROVE  TellInv'
<1>1. UNCHANGED <<storeVars, args>> /\ LogInv'
  <2>1. UNCHANGED <<storeVars, args>>
    BY DEF ReadRetained, ReadHtml
  <2> QED  BY <2>1, StoreStays DEF RInv, TellInv
<1>2. args'.cmd # "feed" /\ pc' = "idle" /\ result'.kind \notin {"change", "no_change"}
  BY <1>1 DEF TellInv, CommandInv, Keeping, ReadRetained, ReadHtml, Answer
<1> QED  BY <1>1, <1>2 DEF TellInv, CommandInv, DiffInv, FeedInv, Keeping

(* A step of a feed leaves the store, the log and the rows told alone. *)
LEMMA FeedSteps ==
  ASSUME RInv, TellInv, pc \notin Keeping \cup {"head", "idle"},
         UNCHANGED <<storeVars, args>>
  PROVE  /\ StoreInv /\ StoreInv' /\ LogInv' /\ FeedInv
         /\ args.cmd = "feed" /\ UNCHANGED args
         /\ UNCHANGED <<versions, nextRev, log>>
         /\ Told' = Told
<1>1. UNCHANGED <<versions, nextRev, log, args>>
  BY DEF storeVars
<1>2. Told' = Told
  BY <1>1 DEF Told, Logged
<1>3. StoreInv' /\ LogInv'
  BY <1>1, StoreStays DEF RInv, TellInv, StoreInv
<1> QED  BY <1>1, <1>2, <1>3 DEF RInv, TellInv, ReadInv

(* The revisions a feed lists are a run of the log's. *)
LEMMA TellList ==
  ASSUME RInv, TellInv, ListRevs
  PROVE  TellInv'
<1>1. /\ pc = "list" /\ pc' = "window" /\ todo # <<>>
      /\ UNCHANGED <<storeVars, args, todo, rows, cursor, result>>
      /\ revs' = RetainedRevs(versions[Head(todo)])
  BY DEF ListRevs
<1>2. /\ StoreInv /\ StoreInv' /\ LogInv' /\ FeedInv /\ args.cmd = "feed"
      /\ args' = args /\ nextRev' = nextRev /\ Told' = Told
  BY <1>1, FeedSteps DEF Keeping
<1>3. todo \in Seq(Targets)
  BY <1>2 DEF FeedInv
<1>4. PICK t \in Targets : t = Head(todo)
  <2>1. Head(todo) \in Targets
    BY <1>1, <1>3, HeadTailProperties
  <2> QED  BY <2>1
<1>5. PICK n \in Nat : n = nextRev[t] /\ DOMAIN versions[t] = Youngest(n)
  BY <1>2 DEF StoreInv
<1>6. PICK lo \in 0..n : RetainedRevs(versions[t]) = [i \in 1..(n - lo) |-> lo + i - 1]
  <2>1. PICK held : held = versions[t]
    OBVIOUS
  <2>2. \E lo \in 0..n : /\ Youngest(n) = lo..(n - 1)
                         /\ RetainedRevs(held) = [i \in 1..(n - lo) |-> lo + i - 1]
    <3>1. DOMAIN held = Youngest(n)
      BY <1>5, <2>1
    <3> QED  BY <3>1, RetainedOfYoungest, Zenon
  <2> QED  BY <2>1, <2>2
<1>7. PICK k \in Nat : k = n - lo
  OBVIOUS
<1>8. revs' = [i \in 1..k |-> lo + i - 1]
  BY <1>1, <1>4, <1>6, <1>7
<1>9. revs' \in Seq(Nat) /\ Len(revs') = k
  BY <1>8
<1>10. \A i \in 1..Len(revs') : revs'[i] < nextRev'[Head(todo)]
  BY <1>2, <1>4, <1>5, <1>7, <1>8, <1>9
<1>11. \A i \in 1..(Len(revs') - 1) : revs'[i + 1] = revs'[i] + 1
  BY <1>7, <1>8, <1>9
<1>12. Listed'
  BY <1>1, <1>9, <1>10, <1>11 DEF Listed
<1>13. FeedInv'
  BY <1>1, <1>2, <1>12 DEF FeedInv, Done
<1> QED  BY <1>1, <1>2, <1>13 DEF TellInv, CommandInv, DiffInv, Keeping

(* The document it compares against is the logged one. *)
LEMMA TellPrev ==
  ASSUME RInv, TellInv, ReadPrev
  PROVE  TellInv'
<1>1. /\ pc = "window" /\ pc' = "cur" /\ Len(revs) >= 2
      /\ UNCHANGED <<storeVars, args, todo, revs, rows, cursor, result>>
      /\ old' = SnapshotAt(versions[Head(todo)], revs[1])
  BY DEF ReadPrev, feedVars
<1>2. /\ StoreInv /\ StoreInv' /\ LogInv' /\ FeedInv /\ args.cmd = "feed"
      /\ args' = args /\ nextRev' = nextRev /\ log' = log /\ Told' = Told
  BY <1>1, FeedSteps DEF Keeping
<1>3. todo \in Seq(Targets) /\ Listed
  BY <1>1, <1>2 DEF FeedInv
<1>4. Head(todo) \in Targets
  BY <1>3, HeadTailProperties DEF Listed
<1>5. old' # NoDoc => old' = Logged(Head(todo), revs[1])
  BY <1>1, <1>2, <1>4, ReadIsLogged DEF TellInv
<1>6. Logged(Head(todo), revs[1])' = Logged(Head(todo), revs[1])
  BY <1>1, <1>2 DEF Logged
<1>7. Listed'
  BY <1>1, <1>2, <1>3 DEF Listed
<1>8. FeedInv'
  BY <1>1, <1>2, <1>5, <1>6, <1>7 DEF FeedInv, Done
<1> QED  BY <1>1, <1>2, <1>8 DEF TellInv, CommandInv, DiffInv, Keeping

(* What follows the first revision of a run is a run. *)
LEMMA TailOfRun ==
  ASSUME Listed, Len(revs) >= 2, NEW q, q = Tail(revs)
  PROVE  /\ q \in Seq(Nat) /\ Len(q) = Len(revs) - 1 /\ q[1] = revs[2]
         /\ Len(q) \in Nat /\ revs \in Seq(Nat) /\ Len(revs) \in Nat
         /\ revs[1] \in Nat /\ revs[2] = revs[1] + 1
         /\ q[Len(q)] = revs[Len(revs)]
         /\ \A i \in 1..Len(q) : q[i] \in Nat /\ q[i] = revs[i + 1] /\ q[i] < nextRev[Head(todo)]
         /\ \A i \in 1..(Len(q) - 1) : q[i + 1] = q[i] + 1
<1>1. revs \in Seq(Nat) /\ revs # <<>> /\ Len(revs) \in Nat
  BY EmptySeq, LenProperties DEF Listed
<1>2. /\ q \in Seq(Nat) /\ Len(q) = Len(revs) - 1
      /\ \A i \in 1..Len(q) : q[i] = revs[i + 1]
  BY <1>1, HeadTailProperties
<1>3. \A i \in 1..Len(revs) : revs[i] \in Nat
  BY <1>1, ElementOfSeq
<1>4. /\ \A i \in 1..Len(revs) : revs[i] < nextRev[Head(todo)]
      /\ \A i \in 1..(Len(revs) - 1) : revs[i + 1] = revs[i] + 1
  BY DEF Listed
<1>5. revs[1] \in Nat /\ revs[1 + 1] = revs[1] + 1 /\ q[1] = revs[1 + 1]
  BY <1>1, <1>2, <1>3, <1>4
<1>6. q[Len(q)] = revs[Len(revs)]
  <2>1. Len(q) \in 1..Len(q) /\ Len(q) + 1 = Len(revs)
    BY <1>1, <1>2
  <2> QED  BY <1>2, <2>1
<1>7. ASSUME NEW i \in 1..Len(q)
      PROVE  q[i] \in Nat /\ q[i] = revs[i + 1] /\ q[i] < nextRev[Head(todo)]
  BY <1>1, <1>2, <1>3, <1>4
<1>8. ASSUME NEW i \in 1..(Len(q) - 1)
      PROVE  q[i + 1] = q[i] + 1
  <2>1. i + 1 \in 1..(Len(revs) - 1) /\ i \in 1..Len(q) /\ i + 1 \in 1..Len(q)
    BY <1>1, <1>2
  <2> QED  BY <1>2, <1>4, <2>1
<1> QED  BY <1>1, <1>2, <1>5, <1>6, <1>7, <1>8

(* The rows it derives tell the change between two neighbours in the log. *)
LEMMA TellCur ==
  ASSUME RInv, TellInv, ReadCur
  PROVE  TellInv'
<1>1. /\ pc = "cur" /\ pc' = "window" /\ revs' = Tail(revs) /\ old' = NoDoc
      /\ UNCHANGED <<storeVars, args, todo, cursor, result>>
  BY DEF ReadCur
<1>2. /\ StoreInv /\ StoreInv' /\ LogInv' /\ FeedInv /\ args.cmd = "feed"
      /\ args' = args /\ nextRev' = nextRev /\ Told' = Told
  BY <1>1, FeedSteps DEF Keeping
<1>3. /\ todo \in Seq(Targets) /\ Listed /\ Len(revs) >= 2 /\ rows \in Seq(Told)
      /\ old \in {NoDoc, Logged(Head(todo), revs[1])}
  BY <1>1, <1>2 DEF FeedInv
<1>4. PICK t \in Targets : t = Head(todo)
  <2>1. Head(todo) \in Targets
    BY <1>3, HeadTailProperties DEF Listed
  <2> QED  BY <2>1
<1>5. PICK q : q = Tail(revs)
  OBVIOUS
<1>6. /\ q \in Seq(Nat) /\ Len(q) = Len(revs) - 1 /\ Len(q) \in Nat
      /\ revs[1] \in Nat /\ revs[2] = revs[1] + 1 /\ revs[2] \in Nat
      /\ \A i \in 1..Len(q) : q[i] < nextRev[Head(todo)]
      /\ \A i \in 1..(Len(q) - 1) : q[i + 1] = q[i] + 1
  <2>1. /\ q \in Seq(Nat) /\ Len(q) = Len(revs) - 1 /\ Len(q) \in Nat
        /\ revs[1] \in Nat /\ revs[2] = revs[1] + 1
        /\ \A i \in 1..Len(q) : q[i] \in Nat /\ q[i] = revs[i + 1] /\ q[i] < nextRev[Head(todo)]
        /\ \A i \in 1..(Len(q) - 1) : q[i + 1] = q[i] + 1
    BY <1>3, <1>5, TailOfRun, Zenon
  <2> QED  BY <2>1
<1>7. PICK cur, new : cur \in Nat /\ cur = revs[2] /\ new = SnapshotAt(versions[t], cur)
  BY <1>6
<1>8. Listed'
  BY <1>1, <1>2, <1>3, <1>5, <1>6 DEF Listed
<1>9. CASE rows' = rows
  <2>1. FeedInv'
    BY <1>1, <1>2, <1>3, <1>8, <1>9 DEF FeedInv, Done
  <2> QED  BY <1>1, <1>2, <2>1 DEF TellInv, CommandInv, DiffInv, Keeping
<1>10. ASSUME old # NoDoc, new # NoDoc,
              rows' = rows \o AsRows(t, cur, Observe(old, new, args.min).events)
       PROVE  TellInv'
  <2>1. cur \in 0..(nextRev[t] - 1) /\ nextRev[t] \in Nat /\ new = Logged(t, cur)
    BY <1>2, <1>7, <1>10, ReadIsLogged DEF TellInv
  <2>2. cur - 1 = revs[1] /\ cur \in 1..(nextRev[t] - 1) /\ cur - 1 \in 0..(nextRev[t] - 1)
    <3>1. PICK r \in Nat : r = revs[1]
      BY <1>6
    <3>2. cur = r + 1
      BY <1>6, <1>7, <3>1
    <3> QED  BY <2>1, <3>1, <3>2
  <2>3. old = Logged(t, cur - 1)
    BY <1>3, <1>4, <1>10, <2>2
  <2>4. old \in Pages /\ new \in Pages
    BY <1>2, <2>1, <2>2, <2>3, LoggedIsPage DEF TellInv
  <2>5. PICK events, new_rows : /\ events = Observe(old, new, args.min).events
                                /\ new_rows = AsRows(t, cur, events)
    OBVIOUS
  <2>6. IsFiniteSet(events) /\ events \subseteq Event
    BY <2>4, <2>5, EventsAreFinite
  <2>7. new_rows \in Seq([tid : {t}, rev : {cur}, event : events])
    BY <2>5, <2>6, AsRowsHolds
  <2>8. [tid : {t}, rev : {cur}, event : events] \subseteq Told
    <3>1. ASSUME NEW row \in [tid : {t}, rev : {cur}, event : events]
          PROVE  row \in Told
      <4>1. row \in Rows /\ row.tid = t /\ row.rev = cur /\ row.event \in events
        BY <1>7, <2>6 DEF Rows
      <4>2. row.event \in Observe(Logged(t, cur - 1), Logged(t, cur), args.min).events
        BY <2>1, <2>3, <2>5, <4>1
      <4> QED  BY <2>2, <4>1, <4>2 DEF Told
    <3> QED  BY <3>1
  <2>9. new_rows \in Seq(Told)
    BY <2>7, <2>8, SeqMonotonic
  <2>10. rows' \in Seq(Told)
    BY <1>3, <1>10, <2>5, <2>9, ConcatProperties
  <2>11. FeedInv'
    BY <1>1, <1>2, <1>3, <1>8, <2>10 DEF FeedInv, Done
  <2> QED  BY <1>1, <1>2, <2>11 DEF TellInv, CommandInv, DiffInv, Keeping
<1> QED  BY <1>4, <1>7, <1>9, <1>10 DEF ReadCur

(* The target that is done leaves the front of the list. *)
LEMMA TellEnd ==
  ASSUME RInv, TellInv, EndTarget
  PROVE  TellInv'
<1>1. /\ pc = "window" /\ pc' = "list" /\ todo' = Tail(todo)
      /\ UNCHANGED <<storeVars, args, rows, cursor, result>>
  BY DEF EndTarget
<1>2. /\ StoreInv /\ StoreInv' /\ LogInv' /\ FeedInv /\ args.cmd = "feed"
      /\ args' = args /\ Told' = Told
  BY <1>1, FeedSteps DEF Keeping
<1>3. PICK ts : ts = args.targets
  OBVIOUS
<1>4. PICK n : n = Len(ts)
  OBVIOUS
<1>5. ts \in Seq(Targets) /\ n \in Nat
  BY <1>2, <1>3, <1>4, LenProperties DEF FeedInv, FeedArgs
<1>6. /\ todo \in Seq(Targets) /\ todo # <<>> /\ Len(todo) \in Nat \ {0}
      /\ Done \in 0..n /\ Done = n - Len(todo) /\ todo = SubSeq(ts, Done + 1, n)
  BY <1>1, <1>2, <1>3, <1>4, EmptySeq DEF FeedInv, Listed, Done
<1>7. PICK d \in 0..n : d = Done /\ d + 1 \in 1..n /\ n \in (d + 1)..n
  <2>1. PICK d, l : d = Done /\ l = Len(todo)
    OBVIOUS
  <2>2. d \in 0..n /\ l \in Nat \ {0} /\ d = n - l
    BY <1>6, <2>1
  <2>3. d + 1 \in 1..n /\ n \in (d + 1)..n
    BY <1>5, <2>2
  <2> QED  BY <2>1, <2>2, <2>3
<1>8. Tail(todo) = SubSeq(ts, d + 2, n)
  <2>1. d + 1 \in 1..Len(ts) /\ n \in (d + 1)..Len(ts)
    BY <1>4, <1>7
  <2>2. Tail(SubSeq(ts, d + 1, n)) = SubSeq(ts, (d + 1) + 1, n)
    BY <1>5, <2>1, HeadTailOfSubSeq
  <2>3. (d + 1) + 1 = d + 2
    OBVIOUS
  <2> QED  BY <1>6, <1>7, <2>2, <2>3
<1>9. Tail(todo) \in Seq(Targets) /\ Len(Tail(todo)) = Len(todo) - 1
  BY <1>6, HeadTailProperties
<1>10. Done' = d + 1
  BY <1>1, <1>2, <1>3, <1>4, <1>6, <1>7, <1>9 DEF Done
<1>11. todo' = SubSeq(ts, Done' + 1, n)
  <2>1. (d + 1) + 1 = d + 2
    OBVIOUS
  <2> QED  BY <1>1, <1>8, <1>10, <2>1
<1>12. FeedInv'
  <2>1. Done' \in 0..Len(args'.targets)
    BY <1>2, <1>3, <1>4, <1>7, <1>10
  <2>2. todo' \in Seq(Targets) /\ todo' = SubSeq(args'.targets, Done' + 1, Len(args'.targets))
    BY <1>1, <1>2, <1>3, <1>4, <1>9, <1>11
  <2> QED  BY <1>1, <1>2, <2>1, <2>2 DEF FeedInv
<1> QED  BY <1>1, <1>2, <1>12 DEF TellInv, CommandInv, DiffInv, Keeping

(* A page is a part of the rows, sorted or not. *)
LEMMA SortedHolds ==
  ASSUME NEW S, S \subseteq Rows, NEW s \in Seq(S), args \in FeedArgs
  PROVE  /\ Sorted(s) \in Seq(S) /\ Len(Sorted(s)) = Len(s) /\ Len(s) \in Nat
         /\ \A i \in DOMAIN s : \E k \in DOMAIN s : Sorted(s)[k] = s[i]
<1>1. \A i \in DOMAIN s : s[i] \in S
  BY LenProperties, ElementOfSeq
<1>2. \A row \in S : row.event.mat \in Nat
  <2>1. \A row \in S : row.event \in Event
    BY DEF Rows
  <2>2. \A e \in Event : e.mat \in Nat
    BY DEF Event, Materiality
  <2> QED  BY <2>1, <2>2
<1>3. \A i \in DOMAIN s : s[i].event.mat \in Nat
  BY <1>1, <1>2
<1>4. /\ BySalience(s) \in Seq(S) /\ Len(BySalience(s)) = Len(s)
      /\ \A i \in DOMAIN s : \E k \in DOMAIN s : BySalience(s)[k] = s[i]
  BY <1>3, SortKeepsRows
<1>5. Len(s) \in Nat
  BY LenProperties
<1> QED  BY <1>4, <1>5 DEF Sorted

(* A page ends at or after its start, within the rows. *)
LEMMA PageBounds ==
  ASSUME NEW n \in Nat, NEW at \in Nat, NEW limit \in Nat
  PROVE  /\ Least(at, n) \in 0..n
         /\ Least(Least(at, n) + limit, n) \in Least(at, n)..n
         /\ at <= n => Least(at, n) = at
  BY DEF Least

(* The pages hold rows that tell the log. *)
LEMMA TellPage ==
  ASSUME RInv, TellInv, DeliverPage
  PROVE  TellInv'
<1>1. PICK all, start, end, page :
        /\ all = Sorted(rows) /\ start = Least(cursor, Len(all))
        /\ end = Least(start + args.limit, Len(all)) /\ page = SubSeq(all, start + 1, end)
  OBVIOUS
<1>2. /\ pc = "list" /\ todo = <<>> /\ rows' = all
      /\ cursor' = IF More(end, Len(all)) THEN end ELSE Unset
      /\ pc' = IF More(end, Len(all)) THEN "resume" ELSE "idle"
      /\ result'.events = page
      /\ UNCHANGED <<storeVars, args, todo>>
  BY <1>1 DEF DeliverPage
<1>3. /\ StoreInv /\ StoreInv' /\ LogInv' /\ FeedInv /\ args.cmd = "feed"
      /\ args' = args /\ Told' = Told
  BY <1>2, FeedSteps DEF Keeping
<1>4. rows \in Seq(Told) /\ args \in FeedArgs /\ cursor \in Nat /\ args.limit \in Nat
  BY <1>2, <1>3 DEF FeedInv, FeedArgs
<1>5. all \in Seq(Told) /\ Len(all) \in Nat
  <2>1. Told \subseteq Rows
    BY DEF Told
  <2> QED  BY <1>1, <1>4, <2>1, SortedHolds
<1>6. start \in 0..Len(all) /\ end \in start..Len(all)
  BY <1>1, <1>4, <1>5, PageBounds
<1>7. page \in Seq(Told)
  <2>1. \A i \in (start + 1)..end : all[i] \in Told
    <3>1. \A i \in (start + 1)..end : i \in 1..Len(all)
      BY <1>5, <1>6
    <3> QED  BY <1>5, <3>1, ElementOfSeq
  <2>2. start + 1 \in Int /\ end \in Int
    BY <1>5, <1>6
  <2> QED  BY <1>1, <2>1, <2>2, SubSeqProperties
<1>8. cursor' \in Nat \cup {Unset} /\ (pc' # "idle" => cursor' \in Nat) /\ pc' \in {"idle", "resume"}
  BY <1>2, <1>5, <1>6
<1>9. FeedInv'
  BY <1>2, <1>3, <1>5, <1>7, <1>8 DEF FeedInv, Done
<1> QED  BY <1>2, <1>3, <1>8, <1>9 DEF TellInv, CommandInv, DiffInv, Keeping

(* The next invocation begins as the first one did. *)
LEMMA TellResume ==
  ASSUME RInv, TellInv, Resume
  PROVE  TellInv'
<1>1. /\ pc = "resume" /\ pc' = "list" /\ todo' = args.targets /\ rows' = <<>>
      /\ UNCHANGED <<storeVars, args, cursor, result>>
  BY DEF Resume
<1>2. /\ StoreInv /\ StoreInv' /\ LogInv' /\ FeedInv /\ args.cmd = "feed"
      /\ args' = args /\ Told' = Told
  BY <1>1, FeedSteps DEF Keeping
<1>3. PICK ts : ts = args.targets
  OBVIOUS
<1>4. ts \in Seq(Targets) /\ Len(ts) \in Nat /\ SubSeq(ts, 1, Len(ts)) = ts
  BY <1>2, <1>3, LenProperties, SubSeqFull DEF FeedInv, FeedArgs
<1>5. Done' = 0
  BY <1>1, <1>2, <1>3, <1>4 DEF Done
<1>6. rows' \in Seq(Told)
  BY <1>1, EmptySeq
<1>7. FeedInv'
  BY <1>1, <1>2, <1>3, <1>4, <1>5, <1>6 DEF FeedInv
<1> QED  BY <1>1, <1>2, <1>7 DEF TellInv, CommandInv, DiffInv, Keeping

(* Before anything is stored there is nothing to tell. *)
LEMMA TellInit ==
  ASSUME Init
  PROVE  TellInv
<1>1. /\ log = [t \in Targets |-> <<>>] /\ args.cmd = "none" /\ pc = "idle"
      /\ nextRev = [t \in Targets |-> 0] /\ versions = [t \in Targets |-> NoRows]
  BY DEF Init, NoCommand
<1>2. <<>> \in Seq(Pages) /\ Len(<<>>) = 0
  BY EmptySeq
<1>3. LogInv
  BY <1>1, <1>2 DEF LogInv, NoRows
<1> QED  BY <1>1, <1>3 DEF TellInv, CommandInv, DiffInv, FeedInv, Keeping

(* Every step goes on telling the log. *)
LEMMA TellNext ==
  ASSUME RInv, TellInv, [Next]_vars
  PROVE  TellInv'
<1>1. ASSUME NEW t \in Targets, NEW doc \in Pages, Put(t, doc)
      PROVE  TellInv'
  BY <1>1, TellPut
<1>2. CASE \/ \E cmd \in {"diff", "explain", "show", "rules"}, t \in Targets,
                rev \in 0..MaxPuts \cup {Unset} : BeginRead(cmd, t, rev)
           \/ \E f \in Feeds : BeginFeed(f)
  BY <1>2, TellBegin
<1>3. CASE ReadHead \/ ReadOld
  BY <1>3, TellHead
<1>4. CASE ReadNew
  BY <1>4, TellNew
<1>5. CASE ReadRetained \/ ReadHtml
  BY <1>5, TellRow
<1>6. CASE ListRevs
  BY <1>6, TellList
<1>7. CASE ReadPrev
  BY <1>7, TellPrev
<1>8. CASE ReadCur
  BY <1>8, TellCur
<1>9. CASE EndTarget
  BY <1>9, TellEnd
<1>10. CASE DeliverPage
  BY <1>10, TellPage
<1>11. CASE Resume
  BY <1>11, TellResume
<1>12. CASE UNCHANGED vars
  <2>1. /\ UNCHANGED readVars /\ UNCHANGED storeVars /\ UNCHANGED pc /\ UNCHANGED args
        /\ UNCHANGED <<versions, nextRev>>
    BY <1>12 DEF vars, readVars, storeVars
  <2>2. LogInv' /\ LogStays /\ StoreInv'
    BY <2>1, StoreStays DEF RInv, TellInv, StoreInv
  <2>3. FeedInv' /\ DiffInv'
    BY <2>1, <2>2, FeedStays, DiffStays DEF RInv, TellInv
  <2> QED  BY <2>1, <2>2, <2>3 DEF TellInv, CommandInv
<1> QED  BY <1>1, <1>2, <1>3, <1>4, <1>5, <1>6, <1>7, <1>8, <1>9, <1>10, <1>11, <1>12
         DEF Next, ReaderStep

(***************************************************************************)
(* Whatever is stored and evicted between its statements, a command tells  *)
(* the changes between the versions it names, and a page of a feed only    *)
(* changes from a version to the next: what the log holds under them.      *)
(***************************************************************************)
THEOREM ReadersTell == Spec => []ReadersTellTheLog
<1>1. Init => RInv /\ TellInv
  BY RInvInit, TellInit
<1>2. RInv /\ TellInv /\ [Next]_vars => RInv' /\ TellInv'
  BY RInvNext, TellNext
<1>3. TellInv => ReadersTellTheLog
  <2>1. SUFFICES ASSUME TellInv PROVE ReadersTellTheLog
    OBVIOUS
  <2>2. ASSUME args.cmd = "feed", NEW i \in DOMAIN result.events
        PROVE  result.events[i].event \in
                 Observe(Logged(result.events[i].tid, result.events[i].rev - 1),
                         Logged(result.events[i].tid, result.events[i].rev), args.min).events
    <3>1. result.events \in Seq(Told)
      BY <2>1, <2>2 DEF TellInv, FeedInv
    <3>2. result.events[i] \in Told
      BY <2>2, <3>1, LenProperties, ElementOfSeq
    <3> QED  BY <3>2 DEF Told
  <2> QED  BY <2>1, <2>2 DEF TellInv, DiffInv, ReadersTellTheLog
<1> QED  BY <1>1, <1>2, <1>3, PTL DEF Spec

----------------------------------------------------------------------------
(***************************************************************************)
(* What a feed has derived, when nothing was stored since it began: every  *)
(* change up to the revision top, of the targets it is done with and of    *)
(* the one it reads.                                                       *)
(***************************************************************************)
RowOf(t, r, e) == [tid |-> t, rev |-> r, event |-> e]

Covered(t, top) ==
  \A r \in Retained(t) : r - 1 \in Retained(t) /\ NewerThan(args.since, t, r) /\ r <= top =>
    \A e \in Observe(Logged(t, r - 1), Logged(t, r), args.min).events :
      RowOf(t, r, e) \in Range(rows)

Finished == \A i \in 1..Done : Covered(args.targets[i], nextRev[args.targets[i]])

Reading(t) ==
  /\ \A i \in 1..Len(revs) : revs[i] \in Retained(t)
  /\ revs = <<>> => Retained(t) = {}
  /\ revs # <<>> => revs[Len(revs)] = nextRev[t] - 1 /\ Covered(t, revs[1])
  /\ pc = "cur" => old # NoDoc

CompleteInv ==
  args.cmd = "feed" /\ puts = 0 =>
    Finished /\ (pc \in {"window", "cur"} => Reading(Head(todo)))

(* A change that a feed holds it goes on holding. *)
LEMMA CoveredStays ==
  ASSUME NEW t, NEW top, Covered(t, top), UNCHANGED <<versions, log, args>>,
         Range(rows) \subseteq Range(rows')
  PROVE  Covered(t, top)'
<1>1. Retained(t)' = Retained(t) /\ args' = args /\ \A r : Logged(t, r)' = Logged(t, r)
  BY DEF Retained, Logged
<1> QED  BY <1>1 DEF Covered

(* So the targets it is done with it stays done with. *)
LEMMA FinishedStays ==
  ASSUME Finished, UNCHANGED <<versions, nextRev, log, args>>, Done' = Done,
         Range(rows) \subseteq Range(rows')
  PROVE  Finished'
<1>1. ASSUME NEW i \in 1..Done
      PROVE  Covered(args.targets[i], nextRev[args.targets[i]])'
  <2>1. PICK t, n : t = args.targets[i] /\ n = nextRev[t]
    OBVIOUS
  <2>2. Covered(t, n)'
    BY <2>1, CoveredStays DEF Finished
  <2> QED  BY <2>1, <2>2
<1> QED  BY <1>1 DEF Finished

(* A revision in the ring is read as it was logged. *)
LEMMA RetainedIsRead ==
  ASSUME StoreInv, LogInv, NEW t \in Targets, NEW r \in Retained(t)
  PROVE  /\ SnapshotAt(versions[t], r) = Logged(t, r) /\ Logged(t, r) # NoDoc
         /\ r \in 0..(nextRev[t] - 1) /\ nextRev[t] \in Nat /\ Logged(t, r) \in Pages
<1>1. SnapshotAt(versions[t], r) = versions[t][r] /\ versions[t][r] \in Pages
  BY DEF Retained, SnapshotAt, StoreInv
<1>2. SnapshotAt(versions[t], r) # NoDoc
  BY <1>1, PagesAssumption, AbsentAssumption
<1> QED  BY <1>1, <1>2, ReadIsLogged

(* The oldest revision of the ring has no neighbour below it. *)
LEMMA CompleteList ==
  ASSUME RInv, TellInv, CompleteInv, ListRevs
  PROVE  CompleteInv'
<1>1. /\ pc = "list" /\ pc' = "window" /\ todo # <<>>
      /\ UNCHANGED <<storeVars, args, todo, rows, puts>>
      /\ revs' = RetainedRevs(versions[Head(todo)])
  BY DEF ListRevs
<1>2. /\ StoreInv /\ FeedInv /\ args.cmd = "feed"
      /\ args' = args /\ UNCHANGED <<versions, nextRev, log>>
  BY <1>1, FeedSteps DEF Keeping
<1>3. SUFFICES ASSUME puts = 0 PROVE CompleteInv'
  BY <1>1 DEF CompleteInv
<1>4. Finished'
  <2>1. Finished /\ Done' = Done
    BY <1>1, <1>2, <1>3 DEF CompleteInv, Done
  <2> QED  BY <1>1, <1>2, <2>1, FinishedStays
<1>5. PICK t : t \in Targets /\ t = Head(todo)
  <2>1. Head(todo) \in Targets
    BY <1>1, <1>2, HeadTailProperties DEF FeedInv
  <2> QED  BY <2>1
<1>6. PICK n \in Nat : n = nextRev[t] /\ DOMAIN versions[t] = Youngest(n)
  BY <1>2, <1>5 DEF StoreInv
<1>7. PICK lo \in 0..n : /\ Youngest(n) = lo..(n - 1)
                         /\ RetainedRevs(versions[t]) = [i \in 1..(n - lo) |-> lo + i - 1]
  <2>1. PICK held : held = versions[t]
    OBVIOUS
  <2>2. \E lo \in 0..n : /\ Youngest(n) = lo..(n - 1)
                         /\ RetainedRevs(held) = [i \in 1..(n - lo) |-> lo + i - 1]
    <3>1. DOMAIN held = Youngest(n)
      BY <1>6, <2>1
    <3> QED  BY <3>1, RetainedOfYoungest, Zenon
  <2> QED  BY <2>1, <2>2
<1>8. Retained(t)' = lo..(n - 1)
  BY <1>2, <1>6, <1>7 DEF Retained
<1>9. PICK k \in Nat : k = n - lo
  OBVIOUS
<1>10. revs' = [i \in 1..k |-> lo + i - 1] /\ Len(revs') = k
  BY <1>1, <1>5, <1>7, <1>9
<1>11. \A i \in 1..Len(revs') : revs'[i] \in Retained(t)'
  BY <1>8, <1>9, <1>10
<1>12. revs' = <<>> => Retained(t)' = {}
  <2>1. revs' = <<>> => k = 0
    BY <1>10
  <2> QED  BY <1>8, <1>9, <2>1
<1>13. revs' # <<>> => revs'[Len(revs')] = nextRev'[t] - 1 /\ Covered(t, revs[1])'
  <2>1. SUFFICES ASSUME revs' # <<>>
                 PROVE  revs'[Len(revs')] = nextRev'[t] - 1 /\ Covered(t, revs[1])'
    OBVIOUS
  <2>2. k >= 1
    BY <1>10, <2>1
  <2>3. revs'[Len(revs')] = nextRev'[t] - 1
    BY <1>2, <1>6, <1>9, <1>10, <2>2
  <2>4. revs'[1] = lo
    BY <1>10, <2>2
  <2>5. \A r \in Retained(t)' : ~(r - 1 \in Retained(t)' /\ r <= lo)
    BY <1>8
  <2> QED  BY <2>3, <2>4, <2>5 DEF Covered
<1>14. Reading(t)'
  BY <1>1, <1>11, <1>12, <1>13 DEF Reading
<1> QED  BY <1>1, <1>4, <1>5, <1>14 DEF CompleteInv

(* The older version is still there. *)
LEMMA CompletePrev ==
  ASSUME RInv, TellInv, CompleteInv, ReadPrev
  PROVE  CompleteInv'
<1>1. /\ pc = "window" /\ pc' = "cur" /\ Len(revs) >= 2
      /\ UNCHANGED <<storeVars, args, todo, revs, rows, puts>>
      /\ old' = SnapshotAt(versions[Head(todo)], revs[1])
  BY DEF ReadPrev, feedVars
<1>2. /\ StoreInv /\ LogInv /\ FeedInv /\ args.cmd = "feed"
      /\ args' = args /\ UNCHANGED <<versions, nextRev, log>>
  BY <1>1, FeedSteps DEF Keeping, TellInv
<1>3. SUFFICES ASSUME puts = 0 PROVE CompleteInv'
  BY <1>1 DEF CompleteInv
<1>4. Finished'
  <2>1. Finished /\ Done' = Done
    BY <1>1, <1>2, <1>3 DEF CompleteInv, Done
  <2> QED  BY <1>1, <1>2, <2>1, FinishedStays
<1>5. todo \in Seq(Targets) /\ Listed
  BY <1>1, <1>2 DEF FeedInv
<1>6. PICK t : t \in Targets /\ t = Head(todo)
  <2>1. Head(todo) \in Targets
    BY <1>5, HeadTailProperties DEF Listed
  <2> QED  BY <2>1
<1>7. Reading(t)
  BY <1>1, <1>2, <1>3, <1>6 DEF CompleteInv
<1>8. revs[1] \in Retained(t) /\ revs # <<>>
  <2>1. 1 \in 1..Len(revs) /\ revs # <<>>
    BY <1>1, <1>5, LenProperties, EmptySeq DEF Listed
  <2> QED  BY <1>7, <2>1 DEF Reading
<1>9. old' # NoDoc
  BY <1>1, <1>2, <1>6, <1>8, RetainedIsRead
<1>10. Covered(t, revs[1])'
  <2>1. PICK top : top = revs[1]
    OBVIOUS
  <2>2. Covered(t, top)'
    BY <1>1, <1>2, <1>7, <1>8, <2>1, CoveredStays DEF Reading
  <2> QED  BY <1>1, <2>1, <2>2
<1>11. Reading(t)'
  BY <1>1, <1>2, <1>7, <1>8, <1>9, <1>10 DEF Reading, Retained
<1> QED  BY <1>1, <1>4, <1>6, <1>11 DEF CompleteInv

(* The change to the next revision is derived unless --since excludes it. *)
LEMMA CompleteCur ==
  ASSUME RInv, TellInv, CompleteInv, ReadCur
  PROVE  CompleteInv'
<1>1. /\ pc = "cur" /\ pc' = "window" /\ revs' = Tail(revs) /\ old' = NoDoc
      /\ UNCHANGED <<storeVars, args, todo, puts>>
  BY DEF ReadCur
<1>2. /\ StoreInv /\ LogInv /\ FeedInv /\ args.cmd = "feed"
      /\ args' = args /\ UNCHANGED <<versions, nextRev, log>>
  BY <1>1, FeedSteps DEF Keeping, TellInv
<1>3. SUFFICES ASSUME puts = 0 PROVE CompleteInv'
  BY <1>1 DEF CompleteInv
<1>4. /\ todo \in Seq(Targets) /\ Listed /\ Len(revs) >= 2 /\ rows \in Seq(Told)
      /\ old \in {NoDoc, Logged(Head(todo), revs[1])} /\ args \in FeedArgs
  BY <1>1, <1>2 DEF FeedInv
<1>5. PICK t : t \in Targets /\ t = Head(todo)
  <2>1. Head(todo) \in Targets
    BY <1>4, HeadTailProperties DEF Listed
  <2> QED  BY <2>1
<1>6. PICK q, m : q = Tail(revs) /\ m = Len(revs)
  OBVIOUS
<1>7. /\ q \in Seq(Nat) /\ Len(q) = m - 1 /\ m \in Nat /\ m >= 2 /\ q[1] = revs[2]
      /\ revs[1] \in Nat /\ revs[2] = revs[1] + 1 /\ q[Len(q)] = revs[m]
      /\ \A i \in 1..Len(q) : q[i] = revs[i + 1]
  <2>1. /\ q \in Seq(Nat) /\ Len(q) = Len(revs) - 1 /\ q[1] = revs[2]
        /\ Len(revs) \in Nat /\ revs[1] \in Nat /\ revs[2] = revs[1] + 1
        /\ q[Len(q)] = revs[Len(revs)]
        /\ \A i \in 1..Len(q) : q[i] \in Nat /\ q[i] = revs[i + 1] /\ q[i] < nextRev[Head(todo)]
    BY <1>4, <1>6, TailOfRun, Zenon
  <2> QED  BY <1>4, <1>6, <2>1
<1>8. Reading(t) /\ Finished
  BY <1>1, <1>2, <1>3, <1>5 DEF CompleteInv
<1>9. \A i \in 1..m : revs[i] \in Retained(t)
  BY <1>6, <1>8 DEF Reading
<1>10. revs # <<>> /\ q # <<>>
  <2>1. Len(<<>>) = 0
    BY EmptySeq
  <2>2. Len(revs) # 0 /\ Len(q) # 0
    BY <1>6, <1>7
  <2> QED  BY <2>1, <2>2
<1>11. PICK prev, cur, new : /\ prev = revs[1] /\ cur = revs[2]
                             /\ new = SnapshotAt(versions[t], cur)
  OBVIOUS
<1>12. /\ prev \in Nat /\ cur = prev + 1 /\ prev \in Retained(t) /\ cur \in Retained(t)
       /\ old = Logged(t, prev) /\ new = Logged(t, cur) /\ old # NoDoc /\ new # NoDoc
       /\ old \in Pages /\ new \in Pages
  <2>1. prev \in Nat /\ cur = prev + 1 /\ prev \in Retained(t) /\ cur \in Retained(t)
    BY <1>7, <1>9, <1>11
  <2>2. old # NoDoc
    BY <1>1, <1>8 DEF Reading
  <2>3. old = Logged(t, prev)
    BY <1>4, <1>5, <1>11, <2>2
  <2> QED  BY <1>2, <1>5, <1>11, <2>1, <2>2, <2>3, RetainedIsRead
<1>13. PICK events, new_rows : /\ events = Observe(old, new, args.min).events
                               /\ new_rows = AsRows(t, cur, events)
  OBVIOUS
<1>14. rows' = IF SinceIncludes(t, args.since, cur) THEN rows \o new_rows ELSE rows
  <2>1. new = SnapshotAt(versions[Head(todo)], revs[2]) /\ cur = revs[2]
    BY <1>5, <1>11
  <2>2. rows' = IF old = NoDoc \/ new = NoDoc \/ ~SinceIncludes(t, args.since, cur) THEN rows
                ELSE rows \o AsRows(t, cur, Observe(old, new, args.min).events)
    BY <1>5, <2>1, Zenon DEF ReadCur
  <2> QED  BY <1>12, <1>13, <2>2
<1>15. /\ new_rows \in Seq([tid : {t}, rev : {cur}, event : events])
       /\ \A e \in events : \E i \in DOMAIN new_rows : new_rows[i] = RowOf(t, cur, e)
  <2>1. IsFiniteSet(events)
    BY <1>12, <1>13, EventsAreFinite
  <2>2. new_rows = AsRows(t, cur, events)
    BY <1>13
  <2>3. /\ new_rows \in Seq([tid : {t}, rev : {cur}, event : events])
        /\ \A e \in events : \E i \in DOMAIN new_rows :
             new_rows[i] = [tid |-> t, rev |-> cur, event |-> e]
    BY <2>1, <2>2, AsRowsHolds
  <2> QED  BY <2>3 DEF RowOf
<1>16. Range(rows \o new_rows) = Range(rows) \cup Range(new_rows)
  <2>1. PICK S : S = Told \cup [tid : {t}, rev : {cur}, event : events]
    OBVIOUS
  <2>2. rows \in Seq(S) /\ new_rows \in Seq(S)
    BY <1>4, <1>15, <2>1, SeqMonotonic
  <2> QED  BY <2>2, RangeConcatenation
<1>17. Range(rows) \subseteq Range(rows')
  BY <1>14, <1>16
<1>18. Covered(t, cur)'
  <2>1. Covered(t, prev)'
    BY <1>2, <1>8, <1>10, <1>11, <1>17, CoveredStays DEF Reading
  <2>2. Retained(t)' = Retained(t) /\ Logged(t, prev)' = old /\ Logged(t, cur)' = new
    BY <1>2, <1>12 DEF Retained, Logged
  <2>3. ASSUME NewerThan(args.since, t, cur), NEW e \in events
        PROVE  RowOf(t, cur, e) \in Range(rows')
    <3>1. SinceIncludes(t, args.since, cur)
      BY <1>4, <2>3 DEF NewerThan, SinceIncludes, FeedArgs
    <3>2. RowOf(t, cur, e) \in Range(new_rows)
      BY <1>15 DEF Range
    <3> QED  BY <1>14, <1>16, <3>1, <3>2
  <2>4. ASSUME NEW r \in Retained(t), r - 1 \in Retained(t), NewerThan(args.since, t, r), r <= cur,
               NEW e \in Observe(Logged(t, r - 1)', Logged(t, r)', args.min).events
        PROVE  RowOf(t, r, e) \in Range(rows')
    <3>1. r \in Nat
      BY <1>2, <1>5, RetainedIsRead
    <3>2. CASE r = cur
      <4>1. r - 1 = prev
        BY <1>12, <3>2
      <4> QED  BY <1>13, <2>2, <2>3, <2>4, <3>2, <4>1
    <3>3. CASE r # cur
      <4>1. r <= prev
        BY <1>12, <2>4, <3>1, <3>3
      <4> QED  BY <1>2, <2>1, <2>2, <2>4, <4>1 DEF Covered
    <3> QED  BY <3>2, <3>3
  <2> QED  BY <1>2, <2>2, <2>4 DEF Covered
<1>19. Finished'
  <2>1. Done' = Done
    BY <1>1, <1>2 DEF Done
  <2> QED  BY <1>2, <1>8, <1>17, <2>1, FinishedStays
<1>20. Reading(t)'
  <2>1. revs' = q /\ pc' = "window" /\ nextRev' = nextRev /\ Retained(t)' = Retained(t)
    BY <1>1, <1>2, <1>6 DEF Retained
  <2>2. \A i \in 1..Len(q) : q[i] \in Retained(t)
    <3>1. ASSUME NEW i \in 1..Len(q)
          PROVE  q[i] \in Retained(t)
      <4>1. i + 1 \in 1..m
        BY <1>7
      <4> QED  BY <1>7, <1>9, <4>1
    <3> QED  BY <3>1
  <2>3. q[Len(q)] = nextRev[t] - 1
    BY <1>6, <1>7, <1>8, <1>10 DEF Reading
  <2>4. Covered(t, revs[1])'
    BY <1>7, <1>11, <1>18, <2>1
  <2> QED  BY <1>10, <2>1, <2>2, <2>3, <2>4 DEF Reading
<1> QED  BY <1>1, <1>5, <1>19, <1>20 DEF CompleteInv

(* With the head compared, the target is done. *)
LEMMA CompleteEnd ==
  ASSUME RInv, TellInv, CompleteInv, EndTarget
  PROVE  CompleteInv'
<1>1. /\ pc = "window" /\ pc' = "list" /\ Len(revs) < 2 /\ todo' = Tail(todo)
      /\ UNCHANGED <<storeVars, args, rows, puts>>
  BY DEF EndTarget
<1>2. /\ StoreInv /\ LogInv /\ FeedInv /\ args.cmd = "feed"
      /\ args' = args /\ UNCHANGED <<versions, nextRev, log>>
  BY <1>1, FeedSteps DEF Keeping, TellInv
<1>3. SUFFICES ASSUME puts = 0 PROVE CompleteInv'
  BY <1>1 DEF CompleteInv
<1>4. PICK ts, n, d, l : ts = args.targets /\ n = Len(ts) /\ d = Done /\ l = Len(todo)
  OBVIOUS
<1>5. /\ ts \in Seq(Targets) /\ n \in Nat /\ todo \in Seq(Targets) /\ todo # <<>>
      /\ l \in Nat \ {0} /\ d \in 0..n /\ d = n - l /\ todo = SubSeq(ts, d + 1, n) /\ Listed
  BY <1>1, <1>2, <1>4, EmptySeq, LenProperties DEF FeedInv, FeedArgs, Listed, Done
<1>6. Head(todo) = ts[d + 1] /\ d + 1 \in 1..n
  <2>2. n \in Nat /\ l \in Nat \ {0} /\ d \in 0..n /\ d = n - l
    BY <1>5
  <2>3. d + 1 \in 1..n /\ n \in (d + 1)..n
    BY <2>2
  <2>1. d + 1 \in 1..Len(ts) /\ n \in (d + 1)..Len(ts)
    BY <1>4, <2>3
  <2> QED  BY <1>4, <1>5, <2>1, HeadTailOfSubSeq
<1>7. Done' = d + 1
  <2>1. Len(todo') = l - 1
    BY <1>1, <1>4, <1>5, HeadTailProperties
  <2>2. Done' = n - (l - 1)
    BY <1>2, <1>4, <2>1 DEF Done
  <2>3. n \in Nat /\ l \in Nat /\ d = n - l
    BY <1>5
  <2> QED  BY <2>2, <2>3
<1>8. PICK t : t \in Targets /\ t = Head(todo)
  <2>1. Head(todo) \in Targets
    BY <1>5, HeadTailProperties
  <2> QED  BY <2>1
<1>9. Reading(t) /\ Finished
  BY <1>1, <1>2, <1>3, <1>8 DEF CompleteInv
<1>10. Covered(t, nextRev[t])
  <2>1. CASE revs = <<>>
    BY <1>9, <2>1 DEF Reading, Covered
  <2>2. CASE revs # <<>>
    <3>1. Len(revs) = 1
      <4>1. revs \in Seq(Nat)
        BY <1>5 DEF Listed
      <4>2. Len(revs) \in Nat \ {0}
        BY <2>2, <4>1, EmptySeq
      <4>3. PICK m : m = Len(revs)
        OBVIOUS
      <4>4. m \in Nat \ {0} /\ m < 2
        BY <1>1, <4>2, <4>3
      <4>5. m = 1
        BY <4>4
      <4> QED  BY <4>3, <4>5
    <3>2. Covered(t, nextRev[t] - 1)
      BY <1>9, <2>2, <3>1 DEF Reading
    <3>3. \A r \in Retained(t) : r <= nextRev[t] - 1
      BY <1>2, <1>8, RetainedIsRead
    <3> QED  BY <3>2, <3>3 DEF Covered
  <2> QED  BY <2>1, <2>2
<1>11. ASSUME NEW i \in 1..(d + 1)
       PROVE  Covered(args.targets[i], nextRev[args.targets[i]])'
  <2>1. PICK u, top : u = args.targets[i] /\ top = nextRev[u]
    OBVIOUS
  <2>2. Covered(u, top)
    <3>1. CASE i = d + 1
      BY <1>4, <1>6, <1>8, <1>10, <2>1, <3>1
    <3>2. CASE i # d + 1
      <4>1. i \in 1..Done
        BY <1>4, <1>5, <3>2
      <4> QED  BY <1>9, <2>1, <4>1 DEF Finished
    <3> QED  BY <3>1, <3>2
  <2>3. Covered(u, top)'
    BY <1>1, <1>2, <2>2, CoveredStays
  <2> QED  BY <1>2, <2>1, <2>3
<1>12. Finished'
  BY <1>7, <1>11 DEF Finished
<1> QED  BY <1>1, <1>12 DEF CompleteInv

(* Sorting keeps the rows, and the next invocation derives them again. *)
LEMMA CompletePage ==
  ASSUME RInv, TellInv, CompleteInv, DeliverPage \/ Resume
  PROVE  CompleteInv'
<1>1. /\ pc \in {"list", "resume"} /\ pc' \in {"idle", "resume", "list"}
      /\ UNCHANGED <<storeVars, args, puts>>
  BY DEF DeliverPage, Resume
<1>2. /\ FeedInv /\ args.cmd = "feed"
      /\ args' = args /\ UNCHANGED <<versions, nextRev, log>>
  BY <1>1, FeedSteps DEF Keeping
<1>3. SUFFICES ASSUME puts = 0 PROVE CompleteInv'
  BY <1>1 DEF CompleteInv
<1>4. CASE DeliverPage
  <2>1. rows' = Sorted(rows) /\ todo' = todo
    BY <1>4 DEF DeliverPage
  <2>2. rows \in Seq(Told) /\ args \in FeedArgs
    BY <1>2 DEF FeedInv
  <2>3. PICK all : all = Sorted(rows)
    OBVIOUS
  <2>4. /\ all \in Seq(Told) /\ Len(all) = Len(rows)
        /\ \A i \in DOMAIN rows : \E k \in DOMAIN rows : all[k] = rows[i]
    <3>1. Told \subseteq Rows
      BY DEF Told
    <3> QED  BY <2>2, <2>3, <3>1, SortedHolds
  <2>5. DOMAIN all = DOMAIN rows
    BY <2>2, <2>4, LenProperties
  <2>6. Range(rows) \subseteq Range(all)
    BY <2>4, <2>5 DEF Range
  <2>7. Finished /\ Done' = Done
    BY <1>2, <1>3, <2>1 DEF CompleteInv, Done
  <2>8. Finished'
    BY <1>2, <2>1, <2>3, <2>6, <2>7, FinishedStays
  <2> QED  BY <1>1, <2>8 DEF CompleteInv
<1>5. CASE Resume
  <2>1. Done' = 0
    <3>1. PICK ts : ts = args.targets
      OBVIOUS
    <3>2. Len(ts) \in Nat
      BY <1>2, <3>1, LenProperties DEF FeedInv, FeedArgs
    <3> QED  BY <1>2, <1>5, <3>1, <3>2 DEF Done, Resume
  <2>2. Finished'
    BY <2>1 DEF Finished
  <2> QED  BY <1>1, <2>2 DEF CompleteInv
<1> QED  BY <1>4, <1>5

(* A put ends the promise; no other command makes it. *)
LEMMA CompleteNext ==
  ASSUME RInv, TellInv, CompleteInv, [Next]_vars
  PROVE  CompleteInv'
<1>1. ASSUME NEW t \in Targets, NEW doc \in Pages, Put(t, doc)
      PROVE  CompleteInv'
  <2>1. args'.cmd = "none" \/ puts' = puts + 1
    BY <1>1 DEF Put, NoCommand
  <2>2. puts \in Nat
    BY DEF RInv, ReadInv
  <2> QED  BY <2>1, <2>2 DEF CompleteInv
<1>2. ASSUME NEW cmd \in {"diff", "explain", "show", "rules"}, NEW t \in Targets,
             NEW rev \in 0..MaxPuts \cup {Unset}, BeginRead(cmd, t, rev)
      PROVE  CompleteInv'
  BY <1>2 DEF BeginRead, Begin, CompleteInv
<1>3. ASSUME NEW f \in Feeds, BeginFeed(f)
      PROVE  CompleteInv'
  <2>1. f.targets \in Seq(Targets) /\ args' = f /\ todo' = f.targets /\ pc' = "list"
    BY <1>3, FeedsAssumption DEF BeginFeed, Begin, FeedArgs
  <2>2. Done' = 0
    BY <2>1, LenProperties DEF Done
  <2> QED  BY <2>1, <2>2 DEF CompleteInv, Finished
<1>4. CASE ReadHead \/ ReadOld \/ ReadNew \/ ReadRetained \/ ReadHtml
  <2>1. args' = args /\ pc \in Keeping \cup {"head"}
    BY <1>4 DEF ReadHead, ReadOld, ReadNew, ReadRetained, ReadHtml, Keeping
  <2> QED  BY <2>1 DEF TellInv, CommandInv, CompleteInv
<1>5. CASE ListRevs
  BY <1>5, CompleteList
<1>6. CASE ReadPrev
  BY <1>6, CompletePrev
<1>7. CASE ReadCur
  BY <1>7, CompleteCur
<1>8. CASE EndTarget
  BY <1>8, CompleteEnd
<1>9. CASE DeliverPage \/ Resume
  BY <1>9, CompletePage
<1>10. CASE UNCHANGED vars
  BY <1>10 DEF vars, storeVars, readVars, feedVars, CompleteInv, Finished, Reading,
               Covered, Done, Logged, Retained
<1> QED  BY <1>1, <1>2, <1>3, <1>4, <1>5, <1>6, <1>7, <1>8, <1>9, <1>10
         DEF Next, ReaderStep

(***************************************************************************)
(* A feed holds every change between neighbours in the ring that is newer  *)
(* than --since, if no version was stored since it began.                  *)
(***************************************************************************)
THEOREM FeedMissesNothing == Spec => []FeedIsComplete
<1>1. Init => RInv /\ TellInv /\ CompleteInv
  <2>1. Init => CompleteInv
    BY DEF Init, NoCommand, CompleteInv
  <2> QED  BY <2>1, RInvInit, TellInit
<1>2. RInv /\ TellInv /\ CompleteInv /\ [Next]_vars => RInv' /\ TellInv' /\ CompleteInv'
  BY RInvNext, TellNext, CompleteNext
<1>3. RInv /\ TellInv /\ CompleteInv => FeedIsComplete
  <2>1. SUFFICES ASSUME RInv, TellInv, CompleteInv,
                        args.cmd = "feed", pc \in {"idle", "resume"}, puts = 0,
                        NEW i \in DOMAIN args.targets, NEW r \in Retained(args.targets[i]),
                        r - 1 \in Retained(args.targets[i]),
                        NewerThan(args.since, args.targets[i], r),
                        NEW e \in Observe(Logged(args.targets[i], r - 1),
                                          Logged(args.targets[i], r), args.min).events
                 PROVE  [tid |-> args.targets[i], rev |-> r, event |-> e] \in Range(rows)
    BY DEF FeedIsComplete
  <2>2. PICK ts, t : ts = args.targets /\ t = ts[i]
    OBVIOUS
  <2>3. ts \in Seq(Targets) /\ todo = <<>>
    BY <2>1, <2>2 DEF TellInv, FeedInv, FeedArgs
  <2>4. i \in 1..Len(ts) /\ Len(ts) \in Nat /\ t \in Targets /\ Len(todo) = 0
    BY <2>2, <2>3, LenProperties, ElementOfSeq, EmptySeq
  <2>5. i \in 1..Done
    BY <2>2, <2>4 DEF Done
  <2>6. Covered(t, nextRev[t])
    BY <2>1, <2>2, <2>5 DEF CompleteInv, Finished
  <2>7. r <= nextRev[t]
    <3>1. r \in 0..(nextRev[t] - 1) /\ nextRev[t] \in Nat
      BY <2>1, <2>2, <2>4, RetainedIsRead DEF RInv, TellInv
    <3> QED  BY <3>1
  <2> QED  BY <2>1, <2>2, <2>6, <2>7 DEF Covered, RowOf
<1> QED  BY <1>1, <1>2, <1>3, PTL DEF Spec

----------------------------------------------------------------------------
(***************************************************************************)
(* The feed of the store as it stands: the rows between the neighbours in  *)
(* the ring of a target, and those of all the targets.                     *)
(***************************************************************************)
RowsOf(t) ==
  [r \in Nat |->
     IF r > 0 /\ r \in Retained(t) /\ r - 1 \in Retained(t) /\ SinceIncludes(t, args.since, r)
     THEN AsRows(t, r, Observe(Logged(t, r - 1), Logged(t, r), args.min).events)
     ELSE <<>>]

Upto(t, r) == Joined(RowsOf(t))[r]

Top(n) == IF n = 0 THEN 0 ELSE n - 1

PartsOf ==
  [i \in Nat |-> IF i \in 1..Len(args.targets)
                 THEN Upto(args.targets[i], Top(nextRev[args.targets[i]])) ELSE <<>>]

Derived(d) == Joined(PartsOf)[d]

All == Sorted(Derived(Len(args.targets)))

(* What the pages have held is the first n rows of s. *)
Cut(s, n) == n \in 0..Len(s) /\ delivered = SubSeq(s, 1, n)

(* The rows of a target are rows. *)
LEMMA RowsOfHolds ==
  ASSUME StoreInv, LogInv, NEW t \in Targets
  PROVE  RowsOf(t) \in [Nat -> Seq(Rows)]
<1>1. ASSUME NEW r \in Nat, r > 0, r \in Retained(t), r - 1 \in Retained(t)
      PROVE  AsRows(t, r, Observe(Logged(t, r - 1), Logged(t, r), args.min).events) \in Seq(Rows)
  <2>1. PICK a, b, events : /\ a = Logged(t, r - 1) /\ b = Logged(t, r)
                            /\ events = Observe(a, b, args.min).events
    OBVIOUS
  <2>2. a \in Pages /\ b \in Pages
    BY <1>1, <2>1, RetainedIsRead
  <2>3. IsFiniteSet(events) /\ events \subseteq Event
    BY <2>1, <2>2, EventsAreFinite
  <2>4. PICK q : q = AsRows(t, r, events)
    OBVIOUS
  <2>5. q \in Seq([tid : {t}, rev : {r}, event : events])
    BY <2>3, <2>4, AsRowsHolds
  <2>6. [tid : {t}, rev : {r}, event : events] \subseteq Rows
    BY <2>3 DEF Rows
  <2>7. q \in Seq(Rows)
    BY <2>5, <2>6, SeqMonotonic
  <2> QED  BY <2>1, <2>4, <2>7
<1>2. <<>> \in Seq(Rows)
  BY EmptySeq
<1> QED  BY <1>1, <1>2 DEF RowsOf

(* They are derived one revision after the other. *)
LEMMA UptoHolds ==
  ASSUME StoreInv, LogInv, NEW t \in Targets
  PROVE  /\ \A r \in Nat : Upto(t, r) \in Seq(Rows) /\ Len(Upto(t, r)) \in Nat
         /\ Upto(t, 0) = <<>>
         /\ \A r \in Nat : Upto(t, r + 1) = Upto(t, r) \o RowsOf(t)[r + 1]
         /\ \A r, q \in Nat : r <= q =>
              /\ Len(Upto(t, r)) <= Len(Upto(t, q))
              /\ \A i \in 1..Len(Upto(t, r)) : Upto(t, q)[i] = Upto(t, r)[i]
         /\ \A lo \in Nat : (\A r \in Retained(t) : r >= lo) => Upto(t, lo) = <<>>
<1>1. PICK b, j : b = RowsOf(t) /\ j = Joined(b)
  OBVIOUS
<1>2. b \in [Nat -> Seq(Rows)]
  BY <1>1, RowsOfHolds
<1>3. /\ j \in [Nat -> Seq(Rows)] /\ j[0] = <<>>
      /\ \A n \in Nat : j[n + 1] = j[n] \o b[n + 1]
  BY <1>1, <1>2, JoinedHolds
<1>4. ASSUME NEW m \in Nat, NEW n \in Nat, m <= n
      PROVE  /\ Len(j[m]) <= Len(j[n])
             /\ \A i \in 1..Len(j[m]) : j[n][i] = j[m][i]
  <2>1. /\ Len(Joined(b)[m]) <= Len(Joined(b)[n])
        /\ \A i \in 1..Len(Joined(b)[m]) : Joined(b)[n][i] = Joined(b)[m][i]
    BY <1>2, <1>4, JoinedGrows
  <2> QED  BY <1>1, <2>1
<1>5. ASSUME NEW lo \in Nat, \A r \in Retained(t) : r >= lo
      PROVE  j[lo] = <<>>
  <2>1. ASSUME NEW i \in 1..lo
        PROVE  b[i] = <<>>
    <3>1. i - 1 \notin Retained(t)
      <4>1. ~(i - 1 >= lo)
        OBVIOUS
      <4> QED  BY <1>5, <4>1
    <3> QED  BY <1>1, <3>1 DEF RowsOf
  <2> QED  BY <1>1, <1>2, <2>1, JoinedEmpty
<1>6. \A r : Upto(t, r) = j[r]
  BY <1>1 DEF Upto
<1>7. \A r \in Nat : Upto(t, r) \in Seq(Rows) /\ Len(Upto(t, r)) \in Nat
  BY <1>3, <1>6, LenProperties
<1>8. Upto(t, 0) = <<>>
  BY <1>3, <1>6
<1>9. \A r \in Nat : Upto(t, r + 1) = Upto(t, r) \o RowsOf(t)[r + 1]
  BY <1>1, <1>3, <1>6
<1>10. \A r, q \in Nat : r <= q =>
         /\ Len(Upto(t, r)) <= Len(Upto(t, q))
         /\ \A i \in 1..Len(Upto(t, r)) : Upto(t, q)[i] = Upto(t, r)[i]
  <2>1. ASSUME NEW r \in Nat, NEW q \in Nat, r <= q
        PROVE  /\ Len(Upto(t, r)) <= Len(Upto(t, q))
               /\ \A i \in 1..Len(Upto(t, r)) : Upto(t, q)[i] = Upto(t, r)[i]
    <3>1. PICK x, y : x = Upto(t, r) /\ y = Upto(t, q)
      OBVIOUS
    <3>2. x = j[r] /\ y = j[q]
      BY <1>6, <3>1
    <3>3. Len(x) <= Len(y) /\ \A i \in 1..Len(x) : y[i] = x[i]
      BY <1>4, <2>1, <3>2
    <3> QED  BY <3>1, <3>3
  <2> QED  BY <2>1
<1>11. \A lo \in Nat : (\A r \in Retained(t) : r >= lo) => Upto(t, lo) = <<>>
  BY <1>5, <1>6, Zenon
<1> QED  BY <1>7, <1>8, <1>9, <1>10, <1>11, Zenon

(* A beginning of a beginning. *)
LEMMA CutOfBeginning ==
  ASSUME NEW S, NEW s \in Seq(S), NEW w \in Seq(S), Len(s) <= Len(w),
         \A i \in 1..Len(s) : w[i] = s[i],
         NEW n \in 0..Len(s)
  PROVE  SubSeq(s, 1, n) = SubSeq(w, 1, n) /\ n \in 0..Len(w)
<1>1. PICK k, m : k = Len(s) /\ m = Len(w)
  OBVIOUS
<1>2. k \in Nat /\ m \in Nat /\ k <= m /\ n \in 0..k
  BY <1>1, LenProperties
<1>3. /\ \A i \in 1..k : s[i] \in S /\ w[i] = s[i]
      /\ \A i \in 1..m : w[i] \in S
  BY <1>1, ElementOfSeq
<1>4. PICK a, b : a = SubSeq(s, 1, n) /\ b = SubSeq(w, 1, n)
  OBVIOUS
<1>5. n \in Int /\ 1 \in Int /\ \A i \in 1..n : i \in 1..k /\ i \in 1..m
  BY <1>2
<1>6. a \in Seq(S) /\ Len(a) = n /\ \A i \in 1..n : a[i] = s[i]
  <2>1. /\ SubSeq(s, 1, n) \in Seq(S)
        /\ Len(SubSeq(s, 1, n)) = IF 1 <= n THEN n - 1 + 1 ELSE 0
        /\ \A i \in 1..(n - 1 + 1) : SubSeq(s, 1, n)[i] = s[1 + i - 1]
    BY <1>3, <1>5, SubSeqProperties
  <2> QED  BY <1>2, <1>4, <2>1
<1>7. b \in Seq(S) /\ Len(b) = n /\ \A i \in 1..n : b[i] = w[i]
  <2>1. /\ SubSeq(w, 1, n) \in Seq(S)
        /\ Len(SubSeq(w, 1, n)) = IF 1 <= n THEN n - 1 + 1 ELSE 0
        /\ \A i \in 1..(n - 1 + 1) : SubSeq(w, 1, n)[i] = w[1 + i - 1]
    BY <1>3, <1>5, SubSeqProperties
  <2> QED  BY <1>2, <1>4, <2>1
<1>8. \A i \in 1..Len(a) : a[i] = b[i]
  BY <1>3, <1>5, <1>6, <1>7
<1>9. a = b
  BY <1>6, <1>7, <1>8, SeqEqual
<1> QED  BY <1>1, <1>2, <1>4, <1>9

(* A page cuts the rows further down. *)
LEMMA PageCuts ==
  ASSUME NEW S, Sorted(rows) \in Seq(S), args.limit \in Nat,
         Cut(Sorted(rows), cursor), DeliverPage
  PROVE  /\ rows' = Sorted(rows) /\ pc' \in {"idle", "resume"}
         /\ pc' = "resume" => Cut(rows, cursor)'
         /\ pc' = "idle" => delivered' = rows'
<1>1. PICK all, n, at, end :
        /\ all = Sorted(rows) /\ n = Len(all) /\ at = cursor
        /\ end = Least(at + args.limit, n)
  OBVIOUS
<1>2. all \in Seq(S) /\ n \in Nat /\ at \in 0..n /\ delivered = SubSeq(all, 1, at)
  BY <1>1, LenProperties DEF Cut
<1>3. Least(at, n) = at /\ end \in at..n
  <2>1. PICK limit : limit = args.limit
    OBVIOUS
  <2>2. limit \in Nat /\ at \in Nat /\ at <= n
    BY <1>2, <2>1
  <2>3. Least(at, n) = at /\ Least(Least(at, n) + limit, n) \in Least(at, n)..n
    BY <1>2, <2>2, PageBounds
  <2> QED  BY <1>1, <2>1, <2>3
<1>4. /\ rows' = all /\ delivered' = delivered \o SubSeq(all, at + 1, end)
      /\ cursor' = (IF More(end, n) THEN end ELSE Unset)
      /\ pc' = (IF More(end, n) THEN "resume" ELSE "idle")
  BY <1>1, <1>3 DEF DeliverPage
<1>5. delivered' = SubSeq(all, 1, end)
  <2>1. 1 \in 1..(Len(all) + 1) /\ at \in (1 - 1)..Len(all) /\ end \in at..Len(all)
    BY <1>1, <1>2, <1>3
  <2>2. SubSeq(all, 1, at) \o SubSeq(all, at + 1, end) = SubSeq(all, 1, end)
    BY <1>2, <2>1, ConcatAdjacentSubSeq
  <2> QED  BY <1>2, <1>4, <2>2
<1>6. CASE More(end, n)
  <2>1. cursor' = end /\ end \in 0..n /\ pc' = "resume"
    BY <1>2, <1>3, <1>4, <1>6
  <2> QED  BY <1>1, <1>4, <1>5, <2>1 DEF Cut
<1>7. CASE ~More(end, n)
  <2>1. end = n /\ pc' = "idle"
    BY <1>2, <1>3, <1>4, <1>7 DEF More
  <2>2. SubSeq(all, 1, n) = all
    BY <1>1, <1>2, SubSeqFull
  <2> QED  BY <1>1, <1>4, <1>5, <2>1, <2>2
<1> QED  BY <1>6, <1>7

(* What is cut is a beginning. *)
LEMMA CutIsPrefix ==
  ASSUME NEW S, NEW s \in Seq(S), NEW n, Cut(s, n)
  PROVE  IsPrefix(delivered, s)
<1>1. PICK d : d = delivered
  OBVIOUS
<1>2. n \in 0..Len(s) /\ d = SubSeq(s, 1, n) /\ Len(s) \in Nat
  BY <1>1, LenProperties DEF Cut
<1>3. \A i \in 1..n : s[i] \in S
  <2>1. \A i \in 1..n : i \in 1..Len(s)
    BY <1>2
  <2> QED  BY <2>1, ElementOfSeq
<1>4. d \in Seq(S) /\ Len(d) = n
  <2>1. n \in Int /\ 1 \in Int
    BY <1>2
  <2>2. /\ SubSeq(s, 1, n) \in Seq(S)
        /\ Len(SubSeq(s, 1, n)) = IF 1 <= n THEN n - 1 + 1 ELSE 0
    BY <1>3, <2>1, SubSeqProperties
  <2> QED  BY <1>2, <2>2
<1>5. SubSeq(d, 1, Len(d)) = d
  BY <1>4, SubSeqFull
<1> QED  BY <1>1, <1>2, <1>4, <1>5 DEF IsPrefix

(***************************************************************************)
(* The promise is kept by a feed that nothing was stored under, and by one *)
(* of a single target in the order of its revisions, whose new rows go to  *)
(* its end.                                                                *)
(***************************************************************************)
Single == ~args.sorted /\ Len(args.targets) = 1

MovesInv ==
  args.cmd = "feed" => args.targets # <<>> /\ (~shifted => Single \/ puts = 0)

(* A feed of one target: what it has derived are the rows up to the revision
   it is at, and the cursor is no further than the head it has listed. *)
Between(t) ==
  /\ \A i \in 1..Len(revs) : revs[i] \in Retained(t)
  /\ revs = <<>> => rows = <<>> /\ cursor = 0
  /\ revs # <<>> => rows = Upto(t, revs[1]) /\ cursor <= Len(Upto(t, revs[Len(revs)]))
  /\ pc = "cur" => old # NoDoc

Closed(t) == cursor <= Len(rows) /\ \E r \in 0..Top(nextRev[t]) : rows = Upto(t, r)

OneTarget(t) ==
  /\ pc = "list" /\ todo # <<>> => rows = <<>>
  /\ pc \in {"window", "cur"} => Between(t)
  /\ pc = "list" /\ todo = <<>> => Closed(t)
  /\ pc # "idle" => Cut(Upto(t, Top(nextRev[t])), cursor)
  /\ pc = "resume" => Cut(rows, cursor)
  /\ pc = "idle" => delivered = rows

SingleInv == args.cmd = "feed" /\ ~shifted /\ Single => OneTarget(args.targets[1])

(* A feed of any targets, sorted or not, while nothing is stored. *)
Reached(t) == IF revs = <<>> THEN <<>> ELSE Upto(t, revs[1])

Steady ==
  /\ pc = "list" => rows = Derived(Done)
  /\ pc \in {"window", "cur"} => rows = Derived(Done) \o Reached(Head(todo))
  /\ pc # "idle" => Cut(All, cursor)
  /\ pc \in {"idle", "resume"} => rows = All
  /\ pc = "idle" => delivered = All

SteadyInv == args.cmd = "feed" /\ puts = 0 => Steady

PageInv == MovesInv /\ SingleInv /\ SteadyInv

(* With the store, the rows stay what they are. *)
LEMMA UptoStays ==
  ASSUME UNCHANGED <<versions, log, args>>, NEW t, NEW r
  PROVE  Upto(t, r)' = Upto(t, r) /\ RowsOf(t)' = RowsOf(t)
<1>1. RowsOf(t)' = RowsOf(t)
  BY DEF RowsOf, Retained, Logged
<1> QED  BY <1>1 DEF Upto

LEMMA AllStays ==
  ASSUME UNCHANGED <<versions, nextRev, log, args>>, NEW d
  PROVE  PartsOf' = PartsOf /\ Derived(d)' = Derived(d) /\ All' = All
<1>1. \A t, r : Upto(t, r)' = Upto(t, r)
  BY UptoStays
<1>2. args' = args /\ nextRev' = nextRev
  OBVIOUS
<1>3. PartsOf' = PartsOf
  BY <1>1, <1>2 DEF PartsOf
<1>4. \A i : Derived(i)' = Derived(i)
  BY <1>3 DEF Derived
<1> QED  BY <1>2, <1>3, <1>4 DEF All, Sorted

(* The rows of the targets are derived one target after the other. *)
LEMMA DerivedHolds ==
  ASSUME StoreInv, LogInv, args \in FeedArgs
  PROVE  /\ \A d \in Nat : Derived(d) \in Seq(Rows)
         /\ Derived(0) = <<>>
         /\ \A d \in Nat : d + 1 <= Len(args.targets) =>
              Derived(d + 1) =
                Derived(d) \o Upto(args.targets[d + 1], Top(nextRev[args.targets[d + 1]]))
         /\ All \in Seq(Rows)
<1>1. PICK ts, n : ts = args.targets /\ n = Len(ts)
  OBVIOUS
<1>2. ts \in Seq(Targets) /\ n \in Nat
  BY <1>1, LenProperties DEF FeedArgs
<1>3. ASSUME NEW i \in 1..n
      PROVE  Upto(ts[i], Top(nextRev[ts[i]])) \in Seq(Rows)
  <2>1. PICK t : t \in Targets /\ t = ts[i]
    <3>1. ts[i] \in Targets
      BY <1>1, <1>2, ElementOfSeq
    <3> QED  BY <3>1
  <2>2. Top(nextRev[t]) \in Nat
    BY <2>1 DEF StoreInv, Top
  <2> QED  BY <2>1, <2>2, UptoHolds
<1>4. <<>> \in Seq(Rows)
  BY EmptySeq
<1>5. PICK b : b = PartsOf
  OBVIOUS
<1>6. b \in [Nat -> Seq(Rows)]
  <2>1. b = [i \in Nat |-> IF i \in 1..n THEN Upto(ts[i], Top(nextRev[ts[i]])) ELSE <<>>]
    BY <1>1, <1>5 DEF PartsOf
  <2> QED  BY <1>3, <1>4, <2>1
<1>7. /\ Joined(b) \in [Nat -> Seq(Rows)] /\ Joined(b)[0] = <<>>
      /\ \A d \in Nat : Joined(b)[d + 1] = Joined(b)[d] \o b[d + 1]
  BY <1>6, JoinedHolds
<1>8. \A d : Derived(d) = Joined(b)[d]
  BY <1>5 DEF Derived
<1>9. ASSUME NEW d \in Nat, d + 1 <= n
      PROVE  b[d + 1] = Upto(ts[d + 1], Top(nextRev[ts[d + 1]]))
  <2>1. d + 1 \in 1..n /\ d + 1 \in Nat
    BY <1>2, <1>9
  <2> QED  BY <1>1, <1>5, <2>1 DEF PartsOf
<1>10. All \in Seq(Rows)
  <2>1. PICK s : s = Derived(n) /\ s \in Seq(Rows)
    BY <1>2, <1>7, <1>8
  <2>2. Sorted(s) \in Seq(Rows)
    BY <2>1, SortedHolds
  <2> QED  BY <1>1, <2>1, <2>2 DEF All
<1>11. \A d \in Nat : Derived(d) \in Seq(Rows)
  BY <1>7, <1>8
<1>12. Derived(0) = <<>>
  BY <1>7, <1>8
<1>13. \A d \in Nat : d + 1 <= n =>
         Derived(d + 1) = Derived(d) \o Upto(ts[d + 1], Top(nextRev[ts[d + 1]]))
  BY <1>7, <1>8, <1>9
<1> QED  BY <1>1, <1>10, <1>11, <1>12, <1>13

----------------------------------------------------------------------------
(* What retained_revs lists: the ring, from its bottom to its head. *)
LEMMA Listing ==
  ASSUME RInv, TellInv, ListRevs, NEW t \in Targets, t = Head(todo)
  PROVE  /\ \A i \in 1..Len(revs') : revs'[i] \in Retained(t)
         /\ revs' = <<>> => nextRev[t] = 0
         /\ revs' # <<>> => /\ revs'[1] \in Nat /\ \A r \in Retained(t) : r >= revs'[1]
                            /\ revs'[Len(revs')] = Top(nextRev[t])
<1>1. revs' = RetainedRevs(versions[t])
  BY DEF ListRevs
<1>2. PICK n \in Nat : n = nextRev[t] /\ DOMAIN versions[t] = Youngest(n)
  BY DEF RInv, StoreInv
<1>3. PICK lo \in 0..n : /\ Youngest(n) = lo..(n - 1)
                         /\ RetainedRevs(versions[t]) = [i \in 1..(n - lo) |-> lo + i - 1]
  <2>1. PICK held : held = versions[t]
    OBVIOUS
  <2>2. \E lo \in 0..n : /\ Youngest(n) = lo..(n - 1)
                         /\ RetainedRevs(held) = [i \in 1..(n - lo) |-> lo + i - 1]
    <3>1. DOMAIN held = Youngest(n)
      BY <1>2, <2>1
    <3> QED  BY <3>1, RetainedOfYoungest, Zenon
  <2> QED  BY <2>1, <2>2
<1>4. Retained(t) = lo..(n - 1)
  BY <1>2, <1>3 DEF Retained
<1>5. PICK k \in Nat : k = n - lo
  OBVIOUS
<1>6. revs' = [i \in 1..k |-> lo + i - 1] /\ Len(revs') = k
  BY <1>1, <1>3, <1>5
<1>7. \A i \in 1..Len(revs') : revs'[i] \in Retained(t)
  BY <1>4, <1>5, <1>6
<1>8. revs' = <<>> => nextRev[t] = 0
  <2>1. revs' = <<>> => k = 0
    BY <1>6
  <2>2. n > 0 => n - 1 \in Youngest(n)
    BY RingNAssumption DEF Youngest
  <2>3. k = 0 => ~(n - 1 \in lo..(n - 1))
    BY <1>5
  <2> QED  BY <1>2, <1>3, <2>1, <2>2, <2>3
<1>9. revs' # <<>> => /\ revs'[1] \in Nat /\ \A r \in Retained(t) : r >= revs'[1]
                      /\ revs'[Len(revs')] = Top(nextRev[t])
  <2>1. SUFFICES ASSUME revs' # <<>>
                 PROVE  /\ revs'[1] \in Nat /\ \A r \in Retained(t) : r >= revs'[1]
                        /\ revs'[Len(revs')] = Top(nextRev[t])
    OBVIOUS
  <2>2. k >= 1
    BY <1>6, <2>1
  <2>3. revs'[1] = lo /\ revs'[k] = n - 1 /\ n # 0
    BY <1>5, <1>6, <2>2
  <2> QED  BY <1>2, <1>4, <1>6, <2>3 DEF Top
<1> QED  BY <1>7, <1>8, <1>9

(* A step through the list adds the rows of one revision. *)
LEMMA Deriving ==
  ASSUME RInv, TellInv, ReadCur, NEW t \in Targets, t = Head(todo),
         \A i \in 1..Len(revs) : revs[i] \in Retained(t), old # NoDoc
  PROVE  /\ rows' = rows \o RowsOf(t)[revs[1] + 1]
         /\ revs # <<>> /\ revs' # <<>> /\ revs[1] \in Nat
         /\ revs'[1] = revs[1] + 1 /\ revs'[Len(revs')] = revs[Len(revs)]
         /\ \A i \in 1..Len(revs') : revs'[i] \in Retained(t)
<1>1. pc = "cur" /\ revs' = Tail(revs)
  BY DEF ReadCur
<1>2. StoreInv /\ LogInv /\ FeedInv /\ args.cmd = "feed"
  <2>1. UNCHANGED <<storeVars, args>>
    BY DEF ReadCur
  <2> QED  BY <1>1, <2>1, FeedSteps DEF Keeping, TellInv
<1>3. /\ todo \in Seq(Targets) /\ Listed /\ Len(revs) >= 2 /\ rows \in Seq(Told)
      /\ old = Logged(t, revs[1])
  BY <1>1, <1>2 DEF FeedInv
<1>4. PICK q, m : q = Tail(revs) /\ m = Len(revs)
  OBVIOUS
<1>5. /\ q \in Seq(Nat) /\ Len(q) = m - 1 /\ m \in Nat /\ m >= 2 /\ q[1] = revs[2]
      /\ revs[1] \in Nat /\ revs[2] = revs[1] + 1 /\ q[Len(q)] = revs[m]
      /\ \A i \in 1..Len(q) : q[i] = revs[i + 1]
  <2>1. /\ q \in Seq(Nat) /\ Len(q) = Len(revs) - 1 /\ q[1] = revs[2]
        /\ Len(revs) \in Nat /\ revs[1] \in Nat /\ revs[2] = revs[1] + 1
        /\ q[Len(q)] = revs[Len(revs)]
        /\ \A i \in 1..Len(q) : q[i] \in Nat /\ q[i] = revs[i + 1] /\ q[i] < nextRev[Head(todo)]
    BY <1>3, <1>4, TailOfRun, Zenon
  <2> QED  BY <1>3, <1>4, <2>1
<1>6. revs # <<>> /\ q # <<>>
  <2>1. Len(<<>>) = 0
    BY EmptySeq
  <2>2. Len(revs) # 0 /\ Len(q) # 0
    BY <1>4, <1>5
  <2> QED  BY <2>1, <2>2
<1>7. PICK prev, cur, new : /\ prev = revs[1] /\ cur = revs[2]
                            /\ new = SnapshotAt(versions[t], cur)
  OBVIOUS
<1>8. prev \in Nat /\ cur = prev + 1 /\ prev \in Retained(t) /\ cur \in Retained(t)
  <2>1. 1 \in 1..Len(revs) /\ 2 \in 1..Len(revs)
    BY <1>4, <1>5
  <2> QED  BY <1>5, <1>7, <2>1
<1>9. old = Logged(t, prev) /\ new = Logged(t, cur) /\ new # NoDoc
  BY <1>2, <1>3, <1>7, <1>8, RetainedIsRead
<1>10. rows' = IF SinceIncludes(t, args.since, cur)
               THEN rows \o AsRows(t, cur, Observe(old, new, args.min).events) ELSE rows
  <2>1. rows' = IF old = NoDoc \/ new = NoDoc \/ ~SinceIncludes(t, args.since, cur) THEN rows
                ELSE rows \o AsRows(t, cur, Observe(old, new, args.min).events)
    BY <1>7, Zenon DEF ReadCur
  <2> QED  BY <1>9, <2>1
<1>11. RowsOf(t)[cur] = IF SinceIncludes(t, args.since, cur)
                        THEN AsRows(t, cur, Observe(old, new, args.min).events) ELSE <<>>
  <2>1. cur \in Nat /\ cur > 0 /\ cur - 1 = prev
    BY <1>8
  <2>2. RowsOf(t)[cur] =
          IF cur > 0 /\ cur \in Retained(t) /\ cur - 1 \in Retained(t)
             /\ SinceIncludes(t, args.since, cur)
          THEN AsRows(t, cur, Observe(Logged(t, cur - 1), Logged(t, cur), args.min).events)
          ELSE <<>>
    BY <2>1 DEF RowsOf
  <2> QED  BY <1>8, <1>9, <2>1, <2>2
<1>12. rows' = rows \o RowsOf(t)[cur]
  <2>1. rows \o <<>> = rows
    BY <1>3, ConcatEmptySeq
  <2> QED  BY <1>10, <1>11, <2>1
<1>13. \A i \in 1..Len(q) : q[i] \in Retained(t)
  <2>1. ASSUME NEW i \in 1..Len(q)
        PROVE  q[i] \in Retained(t)
    <3>1. i + 1 \in 1..Len(revs)
      BY <1>4, <1>5
    <3> QED  BY <1>5, <3>1
  <2> QED  BY <2>1
<1> QED  BY <1>1, <1>4, <1>5, <1>6, <1>7, <1>8, <1>12, <1>13

(* A list with no two revisions left holds the head it was read with. *)
LEMMA OneIsLeft ==
  ASSUME Listed, Len(revs) < 2, revs # <<>>
  PROVE  Len(revs) = 1
<1>1. PICK m : m = Len(revs)
  OBVIOUS
<1>2. revs \in Seq(Nat)
  BY DEF Listed
<1>3. m \in Nat /\ m # 0
  BY <1>1, <1>2, EmptySeq, LenProperties
<1>4. m < 2
  BY <1>1
<1>5. m = 1
  BY <1>3, <1>4
<1> QED  BY <1>1, <1>5

(* They are rows before a step, and so they are after it. *)
RowsHold == \A t \in Targets : RowsOf(t) \in [Nat -> Seq(Rows)]

LEMMA RowsOfHoldNow == StoreInv /\ LogInv => RowsHold
  BY RowsOfHolds DEF RowsHold

LEMMA RowsOfHoldThen == StoreInv' /\ LogInv' => RowsHold'
  BY RowsOfHoldNow, PTL

(* A put that evicts nothing of a target leaves its rows and adds to them. *)
LEMMA PutKeepsRows ==
  ASSUME RInv, TellInv, NEW u \in Targets, NEW doc \in Pages, Put(u, doc), args' = args,
         Cardinality(Retained(u)) < RingN, NEW t \in Targets
  PROVE  /\ Retained(t) \subseteq Retained(t)'
         /\ Top(nextRev[t]) <= Top(nextRev'[t])
         /\ \A r \in 0..Top(nextRev[t]) : Upto(t, r)' = Upto(t, r)
<1>1. /\ StoreInv /\ LogInv /\ StoreInv' /\ LogInv' /\ LogStays
      /\ \A v \in Targets : nextRev[v] <= nextRev'[v] /\ nextRev'[v] <= nextRev[v] + 1
  BY PutSlidesRing, PutLogs DEF RInv, TellInv
<1>2. PICK n \in Nat, m \in Nat : n = nextRev[t] /\ m = nextRev'[t]
  BY <1>1 DEF StoreInv
<1>3. n <= m /\ m <= n + 1 /\ Retained(t) = Youngest(n) /\ Retained(t)' = Youngest(m)
  BY <1>1, <1>2 DEF StoreInv, Retained
<1>4. Youngest(n) \subseteq Youngest(m)
  <2>1. CASE m = n
    BY <2>1
  <2>2. CASE m # n
    <3>1. u = t
      <4>1. u # t => nextRev'[t] = nextRev[t]
        BY <1>1 DEF Put, StoreInv
      <4> QED  BY <1>2, <2>2, <4>1
    <3>2. Cardinality(Youngest(n)) < RingN
      BY <1>3, <3>1
    <3>3. n < RingN
      BY <3>2, YoungestIsFull
    <3> QED  BY <1>3, <3>3, RingNAssumption DEF Youngest
  <2> QED  BY <2>1, <2>2
<1>5. Top(n) <= Top(m) /\ Top(n) \in Nat
  BY <1>3 DEF Top
<1>6. PICK b, c : b = RowsOf(t) /\ c = RowsOf(t)'
  OBVIOUS
<1>7. b \in [Nat -> Seq(Rows)] /\ c \in [Nat -> Seq(Rows)]
  <2>1. RowsOf(t) \in [Nat -> Seq(Rows)]
    BY <1>1, RowsOfHolds
  <2>2. RowsOf(t)' \in [Nat -> Seq(Rows)]
    BY <1>1, RowsOfHoldThen DEF RowsHold
  <2> QED  BY <1>6, <2>1, <2>2
<1>8. ASSUME NEW r \in 1..Top(n)
      PROVE  b[r] = c[r]
  <2>1. r \in Nat /\ r > 0 /\ r \in 0..(n - 1) /\ r - 1 \in 0..(n - 1)
    BY <1>5 DEF Top
  <2>2. r \in Retained(t)' <=> r \in Retained(t)
    BY <1>3, <1>4, <2>1, RingNAssumption DEF Youngest
  <2>3. r - 1 \in Retained(t)' <=> r - 1 \in Retained(t)
    <3>1. PICK q \in Nat : q = r - 1 /\ q \in 0..(n - 1)
      BY <2>1
    <3>2. q \in Youngest(m) <=> q \in Youngest(n)
      <4>1. n <= m /\ n \in Nat /\ m \in Nat
        BY <1>3
      <4>2. q \in Youngest(n) => q \in Youngest(m)
        BY <1>4
      <4> QED  BY <3>1, <4>1, <4>2, RingNAssumption DEF Youngest
    <3> QED  BY <1>3, <3>1, <3>2
  <2>4. Logged(t, r)' = Logged(t, r) /\ Logged(t, r - 1)' = Logged(t, r - 1)
    BY <1>1, <1>2, <2>1 DEF LogStays
  <2>5. b[r] = IF r > 0 /\ r \in Retained(t) /\ r - 1 \in Retained(t) /\ SinceIncludes(t, args.since, r)
               THEN AsRows(t, r, Observe(Logged(t, r - 1), Logged(t, r), args.min).events)
               ELSE <<>>
    BY <1>6, <2>1 DEF RowsOf
  <2>6. c[r] = IF r > 0 /\ r \in Retained(t)' /\ r - 1 \in Retained(t)' /\ SinceIncludes(t, args.since, r)
               THEN AsRows(t, r, Observe(Logged(t, r - 1)', Logged(t, r)', args.min).events)
               ELSE <<>>
    BY <1>6, <2>1 DEF RowsOf
  <2> QED  BY <2>2, <2>3, <2>4, <2>5, <2>6
<1>9. \A r \in 0..Top(n) : Joined(b)[r] = Joined(c)[r]
  <2>1. EqualOn(b, c, 1..Top(n))
    BY <1>8 DEF EqualOn
  <2>2. EqualOn(Joined(b), Joined(c), 0..Top(n))
    BY <1>5, <1>7, <2>1, JoinedAgree
  <2> QED  BY <2>2 DEF EqualOn
<1>10. \A r \in 0..Top(n) : Upto(t, r)' = Upto(t, r)
  BY <1>6, <1>9 DEF Upto
<1> QED  BY <1>2, <1>3, <1>4, <1>5, <1>10

----------------------------------------------------------------------------
(* The target of a feed of one. *)
LEMMA OnlyTarget ==
  ASSUME FeedInv, args.cmd = "feed", Single, NEW t, t = args.targets[1]
  PROVE  t \in Targets /\ (todo # <<>> => Head(todo) = t /\ Tail(todo) = <<>>)
<1>1. PICK ts, d : ts = args.targets /\ d = Done
  OBVIOUS
<1>2. ts \in Seq(Targets) /\ Len(ts) = 1 /\ todo \in Seq(Targets)
  BY <1>1 DEF FeedInv, FeedArgs, Single
<1>3. t \in Targets
  <2>1. 1 \in 1..Len(ts)
    BY <1>2
  <2> QED  BY <1>1, <1>2, <2>1, ElementOfSeq
<1>4. ASSUME todo # <<>>
      PROVE  Head(todo) = t /\ Tail(todo) = <<>>
  <2>1. PICK l : l = Len(todo)
    OBVIOUS
  <2>2. l \in Nat \ {0} /\ d = 1 - l /\ d \in 0..1 /\ todo = SubSeq(ts, d + 1, 1)
    BY <1>1, <1>2, <1>4, <2>1, EmptySeq, LenProperties DEF FeedInv, Done
  <2>3. l = 1 /\ d = 0
    BY <2>2
  <2>4. todo = SubSeq(ts, 1, 1)
    BY <2>2, <2>3
  <2>5. Head(SubSeq(ts, 1, 1)) = ts[1]
    <3>1. 1 \in 1..Len(ts) /\ 1 \in 1..Len(ts)
      BY <1>2
    <3> QED  BY <1>2, <3>1, HeadTailOfSubSeq
  <2>6. Tail(todo) \in Seq(Targets) /\ Len(Tail(todo)) = 0
    <3>1. Tail(todo) \in Seq(Targets) /\ Len(Tail(todo)) = Len(todo) - 1
      BY <1>2, <1>4, HeadTailProperties
    <3> QED  BY <2>1, <2>3, <3>1
  <2> QED  BY <1>1, <2>4, <2>5, <2>6, EmptySeq
<1> QED  BY <1>3, <1>4

(* A step of a feed keeps the promise if it keeps both of its cases. *)
LEMMA PageSteps ==
  ASSUME PageInv, UNCHANGED <<args, puts, shifted>>, args.cmd = "feed",
         NEW t, t = args.targets[1],
         ~shifted /\ Single /\ OneTarget(t) => OneTarget(t)',
         puts = 0 /\ Steady => Steady'
  PROVE  PageInv'
<1>1. MovesInv'
  BY DEF PageInv, MovesInv, Single
<1>2. SingleInv'
  <2>1. ASSUME ~shifted, Single
        PROVE  OneTarget(args.targets[1])'
    <3>1. OneTarget(t)'
      BY <2>1 DEF PageInv, SingleInv
    <3> QED  BY <3>1
  <2>2. Single' = Single
    BY DEF Single
  <2> QED  BY <2>1, <2>2 DEF SingleInv
<1>3. SteadyInv'
  BY DEF PageInv, SteadyInv
<1> QED  BY <1>1, <1>2, <1>3 DEF PageInv

(* Nothing is derived when a target's list is read. *)
LEMMA PageList ==
  ASSUME RInv, TellInv, PageInv, ListRevs
  PROVE  PageInv'
<1>1. /\ pc = "list" /\ pc' = "window" /\ todo # <<>>
      /\ UNCHANGED <<storeVars, args, todo, rows, cursor, puts, shifted, delivered>>
  BY DEF ListRevs
<1>2. /\ StoreInv /\ LogInv /\ FeedInv /\ args.cmd = "feed" /\ args \in FeedArgs
      /\ args' = args /\ UNCHANGED <<versions, nextRev, log>>
  BY <1>1, FeedSteps DEF Keeping, TellInv, FeedInv
<1>3. PICK t : t = args.targets[1]
  OBVIOUS
<1>4. ASSUME ~shifted, Single, OneTarget(t)
      PROVE  OneTarget(t)'
  <2>1. t \in Targets /\ Head(todo) = t
    BY <1>1, <1>2, <1>3, <1>4, OnlyTarget
  <2>2. /\ \A i \in 1..Len(revs') : revs'[i] \in Retained(t)
        /\ revs' = <<>> => nextRev[t] = 0
        /\ revs' # <<>> => /\ revs'[1] \in Nat /\ \A r \in Retained(t) : r >= revs'[1]
                           /\ revs'[Len(revs')] = Top(nextRev[t])
    BY <2>1, Listing
  <2>3. PICK top, q : top = Top(nextRev[t]) /\ q = revs'
    OBVIOUS
  <2>4. /\ rows = <<>> /\ cursor \in 0..Len(Upto(t, top))
        /\ delivered = SubSeq(Upto(t, top), 1, cursor)
    BY <1>1, <1>4, <2>3 DEF OneTarget, Cut
  <2>5. Upto(t, 0) = <<>> /\ \A r \in Nat : (\A k \in Retained(t) : k >= r) => Upto(t, r) = <<>>
    BY <1>2, <2>1, UptoHolds
  <2>6. /\ Retained(t)' = Retained(t) /\ Top(nextRev'[t]) = top
        /\ \A r : Upto(t, r)' = Upto(t, r)
    BY <1>2, <2>3, UptoStays DEF Retained
  <2>7. q = <<>> => cursor = 0
    <3>1. Len(<<>>) = 0
      BY EmptySeq
    <3>2. q = <<>> => top = 0
      BY <2>2, <2>3 DEF Top
    <3> QED  BY <2>4, <2>5, <3>1, <3>2
  <2>8. q # <<>> => Upto(t, q[1]) = <<>> /\ q[Len(q)] = top
    BY <2>2, <2>3, <2>5
  <2>9. Between(t)'
    <3>1. \A i \in 1..Len(q) : q[i] \in Retained(t)'
      BY <2>2, <2>3, <2>6
    <3>2. q = <<>> => rows' = <<>> /\ cursor' = 0
      BY <1>1, <2>4, <2>7
    <3>3. q # <<>> => rows' = Upto(t, q[1])' /\ cursor' <= Len(Upto(t, q[Len(q)])')
      BY <1>1, <2>4, <2>6, <2>8
    <3> QED  BY <1>1, <2>3, <3>1, <3>2, <3>3 DEF Between
  <2>10. Cut(Upto(t, Top(nextRev[t])), cursor)'
    BY <1>1, <1>2, <2>3, <2>4, <2>6 DEF Cut
  <2> QED  BY <1>1, <2>9, <2>10 DEF OneTarget
<1>5. ASSUME puts = 0, Steady
      PROVE  Steady'
  <2>1. PICK u, d : u = Head(todo) /\ d = Done
    OBVIOUS
  <2>2. u \in Targets /\ d \in Nat
    <3>1. d \in 0..Len(args.targets) /\ todo \in Seq(Targets)
      BY <1>2, <2>1 DEF FeedInv
    <3> QED  BY <1>1, <2>1, <3>1, HeadTailProperties
  <2>3. revs' # <<>> => Upto(u, revs'[1]) = <<>>
    <3>1. revs' # <<>> => revs'[1] \in Nat /\ \A r \in Retained(u) : r >= revs'[1]
      BY <2>1, <2>2, Listing
    <3> QED  BY <1>2, <2>2, <3>1, UptoHolds
  <2>4. Reached(u)' = <<>>
    <3>1. PICK q : q = revs'
      OBVIOUS
    <3>2. q # <<>> => Upto(u, q[1])' = <<>>
      BY <1>2, <2>3, <3>1, UptoStays
    <3> QED  BY <3>1, <3>2 DEF Reached
  <2>5. Derived(d)' = Derived(d) /\ All' = All /\ Done' = d /\ Head(todo)' = u
    BY <1>1, <1>2, <2>1, AllStays DEF Done
  <2>6. rows = Derived(d) /\ Cut(All, cursor)
    BY <1>1, <1>5, <2>1 DEF Steady
  <2>7. Derived(d) \o <<>> = Derived(d)
    <3>1. Derived(d) \in Seq(Rows)
      BY <1>2, <2>2, DerivedHolds
    <3> QED  BY <3>1, ConcatEmptySeq
  <2>8. rows' = Derived(Done)' \o Reached(Head(todo))'
    <3>1. Derived(Done)' = Derived(d)
      BY <2>5
    <3>2. Reached(Head(todo))' = <<>>
      BY <2>4, <2>5
    <3> QED  BY <1>1, <2>6, <2>7, <3>1, <3>2
  <2>9. Cut(All, cursor)'
    BY <1>1, <2>5, <2>6 DEF Cut
  <2> QED  BY <1>1, <2>8, <2>9 DEF Steady
<1> QED  BY <1>1, <1>2, <1>3, <1>4, <1>5, PageSteps

(* The older version is still there. *)
LEMMA PagePrev ==
  ASSUME RInv, TellInv, PageInv, ReadPrev
  PROVE  PageInv'
<1>1. /\ pc = "window" /\ pc' = "cur" /\ Len(revs) >= 2
      /\ UNCHANGED <<storeVars, args, todo, revs, rows, cursor, puts, shifted, delivered>>
      /\ old' = SnapshotAt(versions[Head(todo)], revs[1])
  BY DEF ReadPrev, feedVars
<1>2. /\ StoreInv /\ LogInv /\ FeedInv /\ args.cmd = "feed" /\ args \in FeedArgs
      /\ args' = args /\ UNCHANGED <<versions, nextRev, log>> /\ Listed
  BY <1>1, FeedSteps DEF Keeping, TellInv, FeedInv
<1>3. PICK t, top : t = args.targets[1] /\ top = Top(nextRev[t])
  OBVIOUS
<1>4. ASSUME ~shifted, Single, OneTarget(t)
      PROVE  OneTarget(t)'
  <2>1. t \in Targets /\ Head(todo) = t
    BY <1>2, <1>3, <1>4, OnlyTarget DEF Listed
  <2>2. Between(t) /\ Cut(Upto(t, top), cursor)
    BY <1>1, <1>3, <1>4 DEF OneTarget
  <2>3. /\ Retained(t)' = Retained(t) /\ Top(nextRev'[t]) = top
        /\ \A r : Upto(t, r)' = Upto(t, r)
    BY <1>2, <1>3, UptoStays DEF Retained
  <2>4. revs[1] \in Retained(t)
    <3>1. 1 \in 1..Len(revs)
      BY <1>1, <1>2, LenProperties DEF Listed
    <3> QED  BY <2>2, <3>1 DEF Between
  <2>5. old' # NoDoc
    BY <1>1, <1>2, <2>1, <2>4, RetainedIsRead
  <2>6. Between(t)'
    <3>1. PICK q : q = revs
      OBVIOUS
    <3>2. q # <<>> => rows' = Upto(t, q[1])' /\ cursor' <= Len(Upto(t, q[Len(q)])')
      BY <1>1, <2>2, <2>3, <3>1 DEF Between
    <3> QED  BY <1>1, <2>2, <2>3, <2>5, <3>1, <3>2 DEF Between
  <2>7. Cut(Upto(t, Top(nextRev[t])), cursor)'
    BY <1>1, <2>2, <2>3 DEF Cut
  <2> QED  BY <1>1, <2>6, <2>7 DEF OneTarget
<1>5. ASSUME puts = 0, Steady
      PROVE  Steady'
  <2>1. PICK u, d : u = Head(todo) /\ d = Done
    OBVIOUS
  <2>2. Derived(d)' = Derived(d) /\ All' = All /\ Done' = d /\ Head(todo)' = u
    BY <1>1, <1>2, <2>1, AllStays DEF Done
  <2>3. rows = Derived(d) \o Reached(u) /\ Cut(All, cursor)
    BY <1>1, <1>5, <2>1 DEF Steady
  <2>4. Reached(u)' = Reached(u)
    <3>1. PICK q : q = revs
      OBVIOUS
    <3>2. \A r : Upto(u, r)' = Upto(u, r)
      BY <1>2, UptoStays
    <3> QED  BY <1>1, <3>1, <3>2 DEF Reached
  <2>5. rows' = Derived(Done)' \o Reached(Head(todo))'
    <3>1. Derived(Done)' = Derived(d)
      BY <2>2
    <3>2. Reached(Head(todo))' = Reached(u)
      BY <2>2, <2>4
    <3> QED  BY <1>1, <2>3, <3>1, <3>2
  <2>6. Cut(All, cursor)'
    BY <1>1, <2>2, <2>3 DEF Cut
  <2> QED  BY <1>1, <2>5, <2>6 DEF Steady
<1> QED  BY <1>1, <1>2, <1>3, <1>4, <1>5, PageSteps

(* The rows of the next revision go to the end. *)
LEMMA PageCur ==
  ASSUME RInv, TellInv, CompleteInv, PageInv, ReadCur
  PROVE  PageInv'
<1>1. /\ pc = "cur" /\ pc' = "window"
      /\ UNCHANGED <<storeVars, args, todo, cursor, puts, shifted, delivered>>
  BY DEF ReadCur
<1>2. /\ StoreInv /\ LogInv /\ FeedInv /\ args.cmd = "feed" /\ args \in FeedArgs
      /\ args' = args /\ UNCHANGED <<versions, nextRev, log>> /\ Listed /\ todo \in Seq(Targets)
  BY <1>1, FeedSteps DEF Keeping, TellInv, FeedInv
<1>3. ASSUME NEW t \in Targets, t = Head(todo),
             \A i \in 1..Len(revs) : revs[i] \in Retained(t), old # NoDoc,
             NEW done \in Seq(Rows), rows = done \o Upto(t, revs[1])
      PROVE  /\ revs # <<>> /\ revs' # <<>> /\ revs'[1] \in Nat
             /\ revs'[Len(revs')] = revs[Len(revs)]
             /\ \A i \in 1..Len(revs') : revs'[i] \in Retained(t)
             /\ rows' = done \o Upto(t, revs'[1])
  <2>1. /\ rows' = rows \o RowsOf(t)[revs[1] + 1]
        /\ revs # <<>> /\ revs' # <<>> /\ revs[1] \in Nat
        /\ revs'[1] = revs[1] + 1 /\ revs'[Len(revs')] = revs[Len(revs)]
        /\ \A i \in 1..Len(revs') : revs'[i] \in Retained(t)
    BY <1>3, Deriving
  <2>2. PICK r \in Nat : r = revs[1]
    BY <2>1
  <2>3. PICK x, y : x = Upto(t, r) /\ y = RowsOf(t)[r + 1]
    OBVIOUS
  <2>4. Upto(t, r) \in Seq(Rows) /\ Upto(t, r + 1) = Upto(t, r) \o RowsOf(t)[r + 1]
    BY <1>2, UptoHolds
  <2>5. y \in Seq(Rows)
    BY <1>2, <2>3, RowsOfHolds
  <2>6. (done \o x) \o y = done \o (x \o y)
    <3>1. PICK S : S = Rows
      OBVIOUS
    <3>2. x \in Seq(S) /\ y \in Seq(S) /\ done \in Seq(S)
      BY <1>3, <2>3, <2>4, <2>5, <3>1
    <3> QED  BY <3>2, ConcatAssociative
  <2>7. rows' = done \o Upto(t, r + 1)
    BY <1>3, <2>1, <2>2, <2>3, <2>4, <2>6
  <2> QED  BY <2>1, <2>2, <2>7
<1>4. PICK t, top : t = args.targets[1] /\ top = Top(nextRev[t])
  OBVIOUS
<1>5. ASSUME ~shifted, Single, OneTarget(t)
      PROVE  OneTarget(t)'
  <2>1. t \in Targets /\ Head(todo) = t
    BY <1>2, <1>4, <1>5, OnlyTarget DEF Listed
  <2>2. Between(t) /\ Cut(Upto(t, top), cursor)
    BY <1>1, <1>4, <1>5 DEF OneTarget
  <2>3. /\ Retained(t)' = Retained(t) /\ Top(nextRev'[t]) = top
        /\ \A r : Upto(t, r)' = Upto(t, r)
    BY <1>2, <1>4, UptoStays DEF Retained
  <2>4. revs # <<>>
    <3>1. Len(revs) >= 2 /\ Len(<<>>) = 0
      BY <1>1, <1>2, EmptySeq DEF FeedInv
    <3> QED  BY <3>1
  <2>5. <<>> \in Seq(Rows) /\ \A x \in Seq(Rows) : <<>> \o x = x
    BY EmptySeq, ConcatEmptySeq
  <2>6. revs[1] \in Nat /\ Upto(t, revs[1]) \in Seq(Rows)
    <3>1. 1 \in 1..Len(revs) /\ revs \in Seq(Nat)
      BY <1>1, <1>2, LenProperties DEF FeedInv, Listed
    <3>2. revs[1] \in Nat
      BY <3>1, ElementOfSeq
    <3> QED  BY <1>2, <2>1, <3>2, UptoHolds
  <2>7. rows = <<>> \o Upto(t, revs[1]) /\ old # NoDoc
        /\ \A i \in 1..Len(revs) : revs[i] \in Retained(t)
    BY <1>1, <2>2, <2>4, <2>5, <2>6 DEF Between
  <2>8. /\ revs' # <<>> /\ revs'[1] \in Nat
        /\ revs'[Len(revs')] = revs[Len(revs)]
        /\ \A i \in 1..Len(revs') : revs'[i] \in Retained(t)
        /\ rows' = <<>> \o Upto(t, revs'[1])
    BY <1>3, <2>1, <2>5, <2>7
  <2>9. PICK q : q = revs'
    OBVIOUS
  <2>10. Upto(t, q[1]) \in Seq(Rows)
    BY <1>2, <2>1, <2>8, <2>9, UptoHolds
  <2>11. rows' = Upto(t, q[1])' /\ cursor' <= Len(Upto(t, q[Len(q)])')
    BY <1>1, <2>2, <2>3, <2>4, <2>5, <2>8, <2>9, <2>10 DEF Between
  <2>12. Between(t)'
    BY <1>1, <2>3, <2>8, <2>9, <2>11 DEF Between
  <2>13. Cut(Upto(t, Top(nextRev[t])), cursor)'
    BY <1>1, <2>2, <2>3 DEF Cut
  <2> QED  BY <1>1, <2>12, <2>13 DEF OneTarget
<1>6. ASSUME puts = 0, Steady
      PROVE  Steady'
  <2>1. PICK u, d : u = Head(todo) /\ d = Done
    OBVIOUS
  <2>2. u \in Targets /\ d \in Nat
    <3>1. d \in 0..Len(args.targets) /\ todo # <<>>
      BY <1>2, <2>1 DEF FeedInv, Listed
    <3> QED  BY <1>2, <2>1, <3>1, HeadTailProperties
  <2>3. Reading(u)
    BY <1>1, <1>2, <1>6, <2>1 DEF CompleteInv
  <2>4. rows = Derived(d) \o Reached(u) /\ Cut(All, cursor)
    BY <1>1, <1>6, <2>1 DEF Steady
  <2>5. revs # <<>>
    <3>1. Len(revs) >= 2 /\ Len(<<>>) = 0
      BY <1>1, <1>2, EmptySeq DEF FeedInv
    <3> QED  BY <3>1
  <2>6. /\ rows = Derived(d) \o Upto(u, revs[1]) /\ old # NoDoc
        /\ \A i \in 1..Len(revs) : revs[i] \in Retained(u)
    BY <1>1, <2>3, <2>4, <2>5 DEF Reached, Reading
  <2>7. Derived(d) \in Seq(Rows)
    BY <1>2, <2>2, DerivedHolds
  <2>8. PICK done : done = Derived(d)
    OBVIOUS
  <2>9. revs' # <<>> /\ rows' = done \o Upto(u, revs'[1])
    BY <1>3, <2>1, <2>2, <2>6, <2>7, <2>8
  <2>10. Derived(d)' = Derived(d) /\ All' = All /\ Done' = d /\ Head(todo)' = u
    BY <1>1, <1>2, <2>1, AllStays DEF Done
  <2>11. Reached(u)' = Upto(u, revs'[1])
    <3>1. PICK q : q = revs'
      OBVIOUS
    <3>2. Upto(u, q[1])' = Upto(u, q[1])
      BY <1>2, UptoStays
    <3> QED  BY <2>9, <3>1, <3>2 DEF Reached
  <2>12. rows' = Derived(Done)' \o Reached(Head(todo))'
    <3>1. Derived(Done)' = done
      BY <2>8, <2>10
    <3>2. Reached(Head(todo))' = Upto(u, revs'[1])
      BY <2>10, <2>11
    <3> QED  BY <2>9, <3>1, <3>2
  <2>13. Cut(All, cursor)'
    BY <1>1, <2>4, <2>10 DEF Cut
  <2> QED  BY <1>1, <2>12, <2>13 DEF Steady
<1> QED  BY <1>1, <1>2, <1>4, <1>5, <1>6, PageSteps

(* With the head compared, the rows of the target are all there. *)
LEMMA PageEnd ==
  ASSUME RInv, TellInv, CompleteInv, PageInv, EndTarget
  PROVE  PageInv'
<1>1. /\ pc = "window" /\ pc' = "list" /\ Len(revs) < 2 /\ todo' = Tail(todo)
      /\ UNCHANGED <<storeVars, args, rows, cursor, puts, shifted, delivered>>
  BY DEF EndTarget
<1>2. /\ StoreInv /\ LogInv /\ FeedInv /\ args.cmd = "feed" /\ args \in FeedArgs
      /\ args' = args /\ UNCHANGED <<versions, nextRev, log>> /\ Listed /\ todo \in Seq(Targets)
  BY <1>1, FeedSteps DEF Keeping, TellInv, FeedInv
<1>3. revs # <<>> => Len(revs) = 1
  BY <1>1, <1>2, OneIsLeft
<1>4. PICK t, top : t = args.targets[1] /\ top = Top(nextRev[t])
  OBVIOUS
<1>5. ASSUME ~shifted, Single, OneTarget(t)
      PROVE  OneTarget(t)'
  <2>1. t \in Targets /\ todo' = <<>>
    BY <1>1, <1>2, <1>4, <1>5, OnlyTarget DEF Listed
  <2>2. Between(t) /\ Cut(Upto(t, top), cursor)
    BY <1>1, <1>4, <1>5 DEF OneTarget
  <2>3. Top(nextRev'[t]) = top /\ \A r : Upto(t, r)' = Upto(t, r)
    BY <1>2, <1>4, UptoStays
  <2>4. \E r \in 0..top : cursor <= Len(Upto(t, r)) /\ rows = Upto(t, r)
    <3>1. CASE revs = <<>>
      <4>1. rows = <<>> /\ cursor = 0 /\ Upto(t, 0) = <<>> /\ Len(<<>>) = 0
        BY <1>2, <2>1, <2>2, <3>1, UptoHolds, EmptySeq DEF Between
      <4>2. top \in Nat /\ 0 \in 0..top
        BY <1>2, <1>4, <2>1 DEF StoreInv, Top
      <4> QED  BY <4>1, <4>2
    <3>2. CASE revs # <<>>
      <4>1. PICK r : r = revs[1]
        OBVIOUS
      <4>2. rows = Upto(t, r) /\ cursor <= Len(Upto(t, r)) /\ r \in Retained(t)
        <5>1. Len(revs) = 1 /\ 1 \in 1..1
          BY <1>3, <3>2
        <5>2. revs[Len(revs)] = r /\ revs[1] = r /\ 1 \in 1..Len(revs)
          BY <4>1, <5>1
        <5> QED  BY <2>2, <3>2, <5>2 DEF Between
      <4>3. r \in 0..(nextRev[t] - 1) /\ nextRev[t] \in Nat
        BY <1>2, <2>1, <4>2, RetainedIsRead
      <4>4. r \in 0..top
        BY <1>4, <4>3 DEF Top
      <4> QED  BY <4>2, <4>4
    <3> QED  BY <3>1, <3>2
  <2>5. Closed(t)'
    BY <1>1, <2>3, <2>4 DEF Closed
  <2>6. Cut(Upto(t, Top(nextRev[t])), cursor)'
    BY <1>1, <2>2, <2>3 DEF Cut
  <2> QED  BY <1>1, <2>1, <2>5, <2>6 DEF OneTarget
<1>6. ASSUME puts = 0, Steady
      PROVE  Steady'
  <2>1. PICK ts, u, d, l : ts = args.targets /\ u = Head(todo) /\ d = Done /\ l = Len(todo)
    OBVIOUS
  <2>2. /\ ts \in Seq(Targets) /\ Len(ts) \in Nat /\ todo # <<>> /\ u \in Targets
        /\ l \in Nat \ {0} /\ d \in 0..Len(ts) /\ d = Len(ts) - l
        /\ todo = SubSeq(ts, d + 1, Len(ts))
    BY <1>2, <2>1, EmptySeq, LenProperties, HeadTailProperties
       DEF FeedInv, FeedArgs, Listed, Done
  <2>3. d + 1 \in 1..Len(ts) /\ Len(ts) \in (d + 1)..Len(ts) /\ d \in Nat /\ d + 1 <= Len(ts)
    BY <2>2
  <2>4. u = ts[d + 1]
    BY <2>1, <2>2, <2>3, HeadTailOfSubSeq
  <2>5. Done' = d + 1
    <3>1. Len(todo') = l - 1
      BY <1>1, <1>2, <2>1, <2>2, HeadTailProperties
    <3>2. Done' = Len(ts) - (l - 1)
      BY <1>2, <2>1, <3>1 DEF Done
    <3> QED  BY <2>2, <3>2
  <2>6. Reading(u) /\ rows = Derived(d) \o Reached(u) /\ Cut(All, cursor)
    BY <1>1, <1>2, <1>6, <2>1 DEF CompleteInv, Steady
  <2>7. Reached(u) = Upto(u, Top(nextRev[u]))
    <3>1. CASE revs = <<>>
      <4>1. Retained(u) = {} /\ Top(nextRev[u]) \in Nat
        <5>1. Retained(u) = {}
          BY <2>6, <3>1 DEF Reading
        <5>2. nextRev[u] \in Nat
          BY <1>2, <2>2 DEF StoreInv
        <5> QED  BY <5>1, <5>2 DEF Top
      <4>2. Upto(u, Top(nextRev[u])) = <<>>
        BY <1>2, <2>2, <4>1, UptoHolds
      <4> QED  BY <3>1, <4>2 DEF Reached
    <3>2. CASE revs # <<>>
      <4>1. revs[1] = nextRev[u] - 1 /\ 1 \in 1..Len(revs)
        <5>1. Len(revs) = 1 /\ 1 \in 1..1
          BY <1>3, <3>2
        <5>2. revs[Len(revs)] = nextRev[u] - 1
          BY <2>6, <3>2 DEF Reading
        <5> QED  BY <5>1, <5>2
      <4>2. revs[1] \in 0..(nextRev[u] - 1) /\ nextRev[u] \in Nat
        <5>1. revs[1] \in Retained(u)
          BY <2>6, <4>1 DEF Reading
        <5> QED  BY <1>2, <2>2, <5>1, RetainedIsRead
      <4>3. revs[1] = Top(nextRev[u])
        BY <4>1, <4>2 DEF Top
      <4> QED  BY <3>2, <4>3 DEF Reached
    <3> QED  BY <3>1, <3>2
  <2>8. rows = Derived(d + 1)
    BY <1>2, <2>1, <2>3, <2>4, <2>6, <2>7, DerivedHolds
  <2>9. Derived(d + 1)' = Derived(d + 1) /\ All' = All
    BY <1>2, AllStays
  <2>10. rows' = Derived(Done)'
    <3>1. Derived(Done)' = Derived(d + 1)
      BY <2>5, <2>9
    <3> QED  BY <1>1, <2>8, <3>1
  <2>11. Cut(All, cursor)'
    BY <1>1, <2>6, <2>9 DEF Cut
  <2> QED  BY <1>1, <2>10, <2>11 DEF Steady
<1> QED  BY <1>1, <1>2, <1>4, <1>5, <1>6, PageSteps

(* A page goes on from where the last one ended. *)
LEMMA PageDeliver ==
  ASSUME RInv, TellInv, PageInv, DeliverPage
  PROVE  PageInv'
<1>1. /\ pc = "list" /\ todo = <<>>
      /\ UNCHANGED <<storeVars, args, todo, puts, shifted>>
  BY DEF DeliverPage
<1>2. /\ StoreInv /\ LogInv /\ FeedInv /\ args.cmd = "feed" /\ args \in FeedArgs
      /\ args' = args /\ UNCHANGED <<versions, nextRev, log>> /\ args.limit \in Nat
  BY <1>1, FeedSteps DEF Keeping, TellInv, FeedInv, FeedArgs
<1>3. PICK t, top : t = args.targets[1] /\ top = Top(nextRev[t])
  OBVIOUS
<1>4. ASSUME ~shifted, Single, OneTarget(t)
      PROVE  OneTarget(t)'
  <2>1. t \in Targets /\ top \in Nat /\ Sorted(rows) = rows
    <3>1. t \in Targets
      BY <1>2, <1>3, <1>4, OnlyTarget
    <3> QED  BY <1>2, <1>3, <1>4, <3>1 DEF Sorted, Single, StoreInv, Top
  <2>2. Closed(t) /\ Cut(Upto(t, top), cursor)
    BY <1>1, <1>3, <1>4 DEF OneTarget
  <2>3. PICK r \in 0..top : rows = Upto(t, r)
    BY <1>3, <2>2 DEF Closed
  <2>4. PICK whole : whole = Upto(t, top)
    OBVIOUS
  <2>5. r \in Nat /\ r <= top
    BY <2>1
  <2>6. /\ rows \in Seq(Rows) /\ whole \in Seq(Rows) /\ Len(rows) <= Len(whole)
        /\ Len(rows) \in Nat /\ \A i \in 1..Len(rows) : whole[i] = rows[i]
    <3>1. /\ \A k \in Nat : Upto(t, k) \in Seq(Rows) /\ Len(Upto(t, k)) \in Nat
          /\ \A k, q \in Nat : k <= q =>
               /\ Len(Upto(t, k)) <= Len(Upto(t, q))
               /\ \A i \in 1..Len(Upto(t, k)) : Upto(t, q)[i] = Upto(t, k)[i]
      BY <1>2, <2>1, UptoHolds
    <3>2. PICK at : at = rows
      OBVIOUS
    <3>3. at = Upto(t, r)
      BY <2>3, <3>2
    <3>4. at \in Seq(Rows) /\ Len(at) \in Nat /\ whole \in Seq(Rows)
      BY <2>1, <2>4, <2>5, <3>1, <3>3
    <3>5. Len(at) <= Len(whole) /\ \A i \in 1..Len(at) : whole[i] = at[i]
      BY <2>1, <2>4, <2>5, <3>1, <3>3
    <3> QED  BY <3>2, <3>4, <3>5
  <2>7. Cut(rows, cursor)
    <3>1. cursor \in 0..Len(rows) /\ delivered = SubSeq(whole, 1, cursor)
      BY <2>2, <2>4, <2>6 DEF Closed, Cut
    <3>2. SubSeq(rows, 1, cursor) = SubSeq(whole, 1, cursor)
      BY <2>6, <3>1, CutOfBeginning
    <3> QED  BY <3>1, <3>2 DEF Cut
  <2>8. /\ rows' = rows /\ pc' \in {"idle", "resume"}
        /\ pc' = "resume" => Cut(rows, cursor)'
        /\ pc' = "idle" => delivered' = rows'
    BY <1>2, <2>1, <2>6, <2>7, PageCuts
  <2>9. Upto(t, top)' = whole /\ Top(nextRev'[t]) = top
    BY <1>2, <1>3, <2>4, UptoStays
  <2>10. pc' = "resume" => Cut(Upto(t, Top(nextRev[t])), cursor)'
    <3>1. SUFFICES ASSUME pc' = "resume" PROVE Cut(Upto(t, Top(nextRev[t])), cursor)'
      OBVIOUS
    <3>2. cursor' \in 0..Len(rows) /\ delivered' = SubSeq(rows, 1, cursor')
      BY <2>8, <3>1 DEF Cut
    <3>3. SubSeq(rows, 1, cursor') = SubSeq(whole, 1, cursor') /\ cursor' \in 0..Len(whole)
      BY <2>6, <3>2, CutOfBeginning
    <3> QED  BY <2>9, <3>2, <3>3 DEF Cut
  <2> QED  BY <2>8, <2>10 DEF OneTarget
<1>5. ASSUME puts = 0, Steady
      PROVE  Steady'
  <2>1. Done = Len(args.targets)
    <3>1. Len(args.targets) \in Nat /\ Len(<<>>) = 0
      BY <1>2, EmptySeq, LenProperties DEF FeedArgs
    <3> QED  BY <1>1, <3>1 DEF Done
  <2>2. Sorted(rows) = All /\ Cut(All, cursor)
    BY <1>1, <1>5, <2>1 DEF Steady, All
  <2>3. All \in Seq(Rows)
    BY <1>2, DerivedHolds
  <2>4. /\ rows' = Sorted(rows) /\ pc' \in {"idle", "resume"}
        /\ pc' = "resume" => Cut(rows, cursor)'
        /\ pc' = "idle" => delivered' = rows'
    BY <1>2, <2>2, <2>3, PageCuts
  <2>5. All' = All
    BY <1>2, AllStays
  <2>6. pc' = "resume" => Cut(All, cursor)'
    BY <2>2, <2>4, <2>5 DEF Cut
  <2> QED  BY <2>2, <2>4, <2>5, <2>6 DEF Steady
<1> QED  BY <1>1, <1>2, <1>3, <1>4, <1>5, PageSteps

(* The next invocation derives the same rows again. *)
LEMMA PageResume ==
  ASSUME RInv, TellInv, PageInv, Resume
  PROVE  PageInv'
<1>1. /\ pc = "resume" /\ pc' = "list" /\ todo' = args.targets /\ rows' = <<>>
      /\ UNCHANGED <<storeVars, args, cursor, puts, shifted, delivered>>
  BY DEF Resume
<1>2. /\ StoreInv /\ LogInv /\ args.cmd = "feed" /\ args \in FeedArgs
      /\ args' = args /\ UNCHANGED <<versions, nextRev, log>>
  BY <1>1, FeedSteps DEF Keeping, TellInv, FeedInv
<1>3. PICK t : t = args.targets[1]
  OBVIOUS
<1>4. ASSUME OneTarget(t)
      PROVE  OneTarget(t)'
  <2>1. PICK whole : whole = Upto(t, Top(nextRev[t]))
    OBVIOUS
  <2>2. Upto(t, Top(nextRev[t]))' = whole
    BY <1>2, <2>1, UptoStays
  <2>3. Cut(whole, cursor)
    BY <1>1, <1>4, <2>1 DEF OneTarget
  <2>4. Cut(Upto(t, Top(nextRev[t])), cursor)'
    BY <1>1, <2>2, <2>3 DEF Cut
  <2>5. todo' # <<>>
    BY <1>1, <1>2 DEF PageInv, MovesInv
  <2> QED  BY <1>1, <2>4, <2>5 DEF OneTarget
<1>5. ASSUME Steady
      PROVE  Steady'
  <2>1. Done' = 0
    <3>1. Len(args.targets) \in Nat
      BY <1>2, LenProperties DEF FeedArgs
    <3> QED  BY <1>1, <1>2, <3>1 DEF Done
  <2>2. Derived(0)' = <<>> /\ All' = All
    BY <1>2, AllStays, DerivedHolds
  <2>3. Derived(Done)' = <<>>
    BY <2>1, <2>2
  <2>4. Cut(All, cursor)'
    BY <1>1, <1>5, <2>2 DEF Steady, Cut
  <2> QED  BY <1>1, <2>3, <2>4 DEF Steady
<1> QED  BY <1>1, <1>2, <1>3, <1>4, <1>5, PageSteps

(* And so they are at any state. *)
DerivedHold == Derived(0) = <<>> /\ All \in Seq(Rows)

LEMMA DerivedHoldNow == StoreInv /\ LogInv /\ args \in FeedArgs => DerivedHold
  BY DerivedHolds DEF DerivedHold

LEMMA DerivedHoldThen == StoreInv' /\ LogInv' /\ args' \in FeedArgs => DerivedHold'
<1>1. FeedArgs' = FeedArgs
  BY DEF FeedArgs
<1>2. (StoreInv /\ LogInv /\ args \in FeedArgs => DerivedHold)'
  BY DerivedHoldNow, PTL
<1> QED  BY <1>1, <1>2

(* What a target's rows are at one state they are at the next. *)
UptoGrows ==
  \A t \in Targets :
    /\ \A k \in Nat : Upto(t, k) \in Seq(Rows)
    /\ \A k, q \in Nat : k <= q =>
         /\ Len(Upto(t, k)) <= Len(Upto(t, q))
         /\ \A i \in 1..Len(Upto(t, k)) : Upto(t, q)[i] = Upto(t, k)[i]

LEMMA UptoGrowsNow == StoreInv /\ LogInv => UptoGrows
<1>1. ASSUME StoreInv, LogInv, NEW t \in Targets
      PROVE  /\ \A k \in Nat : Upto(t, k) \in Seq(Rows)
             /\ \A k, q \in Nat : k <= q =>
                  /\ Len(Upto(t, k)) <= Len(Upto(t, q))
                  /\ \A i \in 1..Len(Upto(t, k)) : Upto(t, q)[i] = Upto(t, k)[i]
  BY <1>1, UptoHolds, Zenon
<1> QED  BY <1>1 DEF UptoGrows

LEMMA UptoGrowsThen == StoreInv' /\ LogInv' => UptoGrows'
  BY UptoGrowsNow, PTL

(* A put that moves no row behind the cursor adds rows at the end. *)
LEMMA PagePut ==
  ASSUME RInv, TellInv, PageInv, NEW u \in Targets, NEW doc \in Pages, Put(u, doc)
  PROVE  PageInv'
<1>1. CASE pc = "idle"
  <2>1. args'.cmd = "none"
    BY <1>1 DEF Put, NoCommand
  <2> QED  BY <2>1 DEF PageInv, MovesInv, SingleInv, SteadyInv
<1>2. CASE pc # "idle"
  <2>1. /\ puts' = puts + 1 /\ shifted' = (shifted \/ Shifts(u)) /\ puts \in Nat
        /\ UNCHANGED <<pc, args, todo, revs, rows, cursor, delivered, old>>
    BY <1>2 DEF Put, readVars, feedVars, RInv, ReadInv
  <2>2. SUFFICES ASSUME args.cmd = "feed"
                 PROVE  PageInv'
    BY <2>1 DEF PageInv, MovesInv, SingleInv, SteadyInv
  <2>3. SteadyInv'
    BY <2>1 DEF SteadyInv
  <2>4. args' = args /\ Single' = Single
    BY <2>1 DEF Single
  <2>5. ASSUME ~shifted'
        PROVE  ~shifted /\ Single /\ Cardinality(Retained(u)) < RingN
    <3>1. ~shifted /\ ~args.sorted /\ ~(Len(args.targets) > 1)
          /\ ~(Cardinality(Retained(u)) >= RingN)
      BY <2>1, <2>2, <2>5 DEF Shifts
    <3>2. args.targets \in Seq(Targets) /\ args.targets # <<>>
      BY <2>2 DEF TellInv, FeedInv, FeedArgs, PageInv, MovesInv
    <3>3. Single
      <4>1. PICK n : n = Len(args.targets)
        OBVIOUS
      <4>2. n \in Nat /\ n # 0 /\ ~(n > 1)
        BY <3>1, <3>2, <4>1, EmptySeq, LenProperties
      <4>3. n = 1
        BY <4>2
      <4> QED  BY <3>1, <4>1, <4>3 DEF Single
    <3>4. Cardinality(Retained(u)) < RingN
      <4>1. IsFiniteSet(Retained(u))
        <5>1. PICK n \in Nat : Retained(u) = Youngest(n)
          BY DEF RInv, StoreInv, Retained
        <5>2. IsFiniteSet(0..(n - 1)) /\ Youngest(n) \subseteq 0..(n - 1)
          BY FS_Interval DEF Youngest
        <5> QED  BY <5>1, <5>2, FS_Subset
      <4>2. Cardinality(Retained(u)) \in Nat
        BY <4>1, FS_CardinalityType
      <4> QED  BY <3>1, <4>2, RingNAssumption
    <3> QED  BY <3>1, <3>3, <3>4
  <2>6. MovesInv'
    BY <2>2, <2>4, <2>5 DEF PageInv, MovesInv
  <2>7. ASSUME ~shifted'
        PROVE  OneTarget(args.targets[1])'
    <3>1. PICK t, top, top1 : /\ t = args.targets[1] /\ top = Top(nextRev[t])
                              /\ top1 = Top(nextRev'[t])
      OBVIOUS
    <3>2. OneTarget(t)
      BY <2>2, <2>5, <2>7, <3>1 DEF PageInv, SingleInv
    <3>3. /\ StoreInv /\ LogInv /\ FeedInv /\ t \in Targets
          /\ todo # <<>> => Head(todo) = t
      BY <2>2, <2>5, <2>7, <3>1, OnlyTarget DEF RInv, TellInv
    <3>4. /\ Retained(t) \subseteq Retained(t)' /\ top <= top1
          /\ \A r \in 0..top : Upto(t, r)' = Upto(t, r)
      BY <2>4, <2>5, <2>7, <3>1, <3>3, PutKeepsRows
    <3>5. StoreInv' /\ LogInv'
      BY PutSlidesRing, PutLogs DEF RInv, TellInv
    <3>6. top \in Nat /\ top1 \in Nat /\ nextRev[t] \in Nat
      BY <3>1, <3>3, <3>5 DEF StoreInv, Top
    <3>7. ASSUME NEW r \in Retained(t)
          PROVE  r \in 0..top
      <4>1. r \in 0..(nextRev[t] - 1)
        BY <3>3, RetainedIsRead
      <4> QED  BY <3>1, <3>6, <4>1 DEF Top
    <3>8. pc \in {"window", "cur"} => Between(t)'
      <4>1. SUFFICES ASSUME pc \in {"window", "cur"} PROVE Between(t)'
        OBVIOUS
      <4>2. Between(t) /\ revs \in Seq(Nat)
        BY <2>2, <3>2, <3>3, <4>1 DEF OneTarget, FeedInv, Listed
      <4>3. PICK q : q = revs
        OBVIOUS
      <4>4. q # <<>> => q[1] \in 0..top /\ q[Len(q)] \in 0..top
        <5>1. q # <<>> => 1 \in 1..Len(q) /\ Len(q) \in 1..Len(q)
          BY <4>2, <4>3, EmptySeq, LenProperties
        <5> QED  BY <3>7, <4>2, <4>3, <5>1 DEF Between
      <4>5. q # <<>> => rows' = Upto(t, q[1])' /\ cursor' <= Len(Upto(t, q[Len(q)])')
        BY <2>1, <3>4, <4>2, <4>3, <4>4 DEF Between
      <4>6. \A i \in 1..Len(q) : q[i] \in Retained(t)'
        BY <3>4, <4>2, <4>3 DEF Between
      <4> QED  BY <2>1, <4>2, <4>3, <4>5, <4>6 DEF Between
    <3>9. pc = "list" /\ todo = <<>> => Closed(t)'
      <4>1. SUFFICES ASSUME pc = "list", todo = <<>> PROVE Closed(t)'
        OBVIOUS
      <4>2. PICK r \in 0..top : cursor <= Len(rows) /\ rows = Upto(t, r)
        BY <3>1, <3>2, <4>1 DEF OneTarget, Closed
      <4>3. r \in 0..top1 /\ Upto(t, r)' = Upto(t, r)
        BY <3>4, <3>6, <4>2
      <4> QED  BY <2>1, <3>1, <4>2, <4>3 DEF Closed
    <3>10. Cut(Upto(t, Top(nextRev[t])), cursor)'
      <4>1. PICK s, w : s = Upto(t, top) /\ w = Upto(t, top1)'
        OBVIOUS
      <4>2. cursor \in 0..Len(s) /\ delivered = SubSeq(s, 1, cursor)
        BY <1>2, <3>1, <3>2, <4>1 DEF OneTarget, Cut
      <4>3. Upto(t, top)' = s
        BY <3>4, <3>6, <4>1
      <4>4. /\ s \in Seq(Rows) /\ w \in Seq(Rows) /\ Len(s) <= Len(w)
            /\ \A i \in 1..Len(s) : w[i] = s[i]
        <5>1. /\ \A k \in Nat : Upto(t, k)' \in Seq(Rows)
              /\ \A k, q \in Nat : k <= q =>
                   /\ Len(Upto(t, k)') <= Len(Upto(t, q)')
                   /\ \A i \in 1..Len(Upto(t, k)') : Upto(t, q)'[i] = Upto(t, k)'[i]
          BY <3>3, <3>5, UptoGrowsThen DEF UptoGrows
        <5>2. s \in Seq(Rows) /\ w \in Seq(Rows)
          BY <3>6, <4>1, <4>3, <5>1
        <5> QED  BY <3>4, <3>6, <4>1, <4>3, <5>1, <5>2
      <4>5. SubSeq(s, 1, cursor) = SubSeq(w, 1, cursor) /\ cursor \in 0..Len(w)
        BY <4>2, <4>4, CutOfBeginning
      <4> QED  BY <2>1, <3>1, <4>1, <4>2, <4>5 DEF Cut
    <3>11. OneTarget(t)'
      BY <1>2, <2>1, <3>2, <3>8, <3>9, <3>10 DEF OneTarget, Cut
    <3> QED  BY <2>4, <3>1, <3>11
  <2>8. SingleInv'
    BY <2>7 DEF SingleInv
  <2> QED  BY <2>3, <2>6, <2>8 DEF PageInv
<1> QED  BY <1>1, <1>2

(* A feed begins with nothing delivered and nothing moved. *)
LEMMA PageBegin ==
  ASSUME RInv, TellInv, NEW f \in Feeds, BeginFeed(f)
  PROVE  PageInv'
<1>1. /\ args' = f /\ pc' = "list" /\ todo' = f.targets /\ rows' = <<>> /\ cursor' = 0
      /\ delivered' = <<>> /\ puts' = 0
      /\ UNCHANGED <<versions, nextRev, log>>
  BY DEF BeginFeed, Begin, storeVars
<1>2. args' \in FeedArgs /\ todo' # <<>> /\ todo' = args'.targets /\ args'.targets # <<>>
  BY <1>1, FeedsAssumption
<1>3. StoreInv' /\ LogInv'
  BY <1>1, StoreStays DEF RInv, TellInv, StoreInv, storeVars
<1>4. MovesInv'
  BY <1>1, <1>2 DEF MovesInv
<1>5. ASSUME NEW s \in Seq(Rows)
      PROVE  delivered' = SubSeq(s, 1, cursor') /\ cursor' \in 0..Len(s)
  <2>1. Len(s) \in Nat
    BY LenProperties
  <2>2. SubSeq(s, 1, 0) = <<>>
    BY SubSeqEmpty
  <2> QED  BY <1>1, <2>1, <2>2
<1>6. SingleInv'
  <2>1. ASSUME Single'
        PROVE  OneTarget(args.targets[1])'
    <3>1. PICK t, top : t = args'.targets[1] /\ top = Top(nextRev'[t])
      OBVIOUS
    <3>2. t \in Targets
      <4>1. args'.targets \in Seq(Targets) /\ Len(args'.targets) = 1
        BY <1>2, <2>1 DEF FeedArgs, Single
      <4>2. 1 \in 1..Len(args'.targets)
        BY <4>1
      <4> QED  BY <3>1, <4>1, <4>2, ElementOfSeq
    <3>3. top \in Nat
      BY <1>3, <3>1, <3>2 DEF StoreInv, Top
    <3>4. Upto(t, top)' \in Seq(Rows)
      BY <1>3, <3>2, <3>3, UptoGrowsThen DEF UptoGrows
    <3>5. PICK s : s = Upto(t, top)'
      OBVIOUS
    <3>6. Cut(Upto(t, Top(nextRev[t])), cursor)'
      BY <1>5, <3>1, <3>4, <3>5 DEF Cut
    <3>7. OneTarget(t)'
      BY <1>1, <1>2, <3>6 DEF OneTarget
    <3> QED  BY <3>1, <3>7
  <2> QED  BY <2>1 DEF SingleInv
<1>7. SteadyInv'
  <2>1. Done' = 0
    <3>1. Len(args'.targets) \in Nat
      BY <1>2, LenProperties DEF FeedArgs
    <3> QED  BY <1>2, <3>1 DEF Done
  <2>2. Derived(0)' = <<>> /\ All' \in Seq(Rows)
    BY <1>2, <1>3, DerivedHoldThen DEF DerivedHold
  <2>3. PICK s : s = All'
    OBVIOUS
  <2>4. Cut(All, cursor)'
    BY <1>5, <2>2, <2>3 DEF Cut
  <2>5. Derived(Done)' = <<>>
    BY <2>1, <2>2
  <2>6. Steady'
    BY <1>1, <2>4, <2>5 DEF Steady
  <2> QED  BY <2>6 DEF SteadyInv
<1> QED  BY <1>4, <1>6, <1>7 DEF PageInv

(* Every step keeps the pages of a feed to the feed. *)
LEMMA PageNext ==
  ASSUME RInv, TellInv, CompleteInv, PageInv, [Next]_vars
  PROVE  PageInv'
<1>1. ASSUME NEW t \in Targets, NEW doc \in Pages, Put(t, doc)
      PROVE  PageInv'
  BY <1>1, PagePut
<1>2. ASSUME NEW cmd \in {"diff", "explain", "show", "rules"}, NEW t \in Targets,
             NEW rev \in 0..MaxPuts \cup {Unset}, BeginRead(cmd, t, rev)
      PROVE  PageInv'
  BY <1>2 DEF BeginRead, Begin, PageInv, MovesInv, SingleInv, SteadyInv
<1>3. ASSUME NEW f \in Feeds, BeginFeed(f)
      PROVE  PageInv'
  BY <1>3, PageBegin
<1>4. CASE ReadHead \/ ReadOld \/ ReadNew \/ ReadRetained \/ ReadHtml
  <2>1. args' = args /\ pc \in Keeping \cup {"head"}
    BY <1>4 DEF ReadHead, ReadOld, ReadNew, ReadRetained, ReadHtml, Keeping
  <2> QED  BY <2>1 DEF TellInv, CommandInv, PageInv, MovesInv, SingleInv, SteadyInv
<1>5. CASE ListRevs
  BY <1>5, PageList
<1>6. CASE ReadPrev
  BY <1>6, PagePrev
<1>7. CASE ReadCur
  BY <1>7, PageCur
<1>8. CASE EndTarget
  BY <1>8, PageEnd
<1>9. CASE DeliverPage
  BY <1>9, PageDeliver
<1>10. CASE Resume
  BY <1>10, PageResume
<1>11. CASE UNCHANGED vars
  <2>1. /\ UNCHANGED <<versions, nextRev, log, args>>
        /\ UNCHANGED <<pc, old, todo, revs, rows, cursor, puts, shifted, delivered>>
    BY <1>11 DEF vars, storeVars, readVars, feedVars
  <2>2. MovesInv'
    BY <2>1 DEF PageInv, MovesInv, Single
  <2>3. SingleInv'
    <3>1. ASSUME args.cmd = "feed", ~shifted, Single
          PROVE  OneTarget(args.targets[1])'
      <4>1. PICK t : t = args.targets[1]
        OBVIOUS
      <4>2. OneTarget(t)
        BY <3>1, <4>1 DEF PageInv, SingleInv
      <4>3. \A r : Upto(t, r)' = Upto(t, r)
        BY <2>1, UptoStays
      <4>4. Retained(t)' = Retained(t)
        BY <2>1 DEF Retained
      <4>5. OneTarget(t)'
        BY <2>1, <4>2, <4>3, <4>4 DEF OneTarget, Between, Closed, Cut
      <4> QED  BY <2>1, <4>1, <4>5
    <3> QED  BY <2>1, <3>1 DEF SingleInv, Single
  <2>4. SteadyInv'
    <3>1. Done' = Done /\ Reached(Head(todo))' = Reached(Head(todo))
      <4>1. PICK u : u = Head(todo)
        OBVIOUS
      <4>2. \A r : Upto(u, r)' = Upto(u, r)
        BY <2>1, UptoStays
      <4> QED  BY <2>1, <4>1, <4>2 DEF Done, Reached
    <3>2. \A d : Derived(d)' = Derived(d) /\ All' = All
      BY <2>1, AllStays
    <3> QED  BY <2>1, <3>1, <3>2 DEF PageInv, SteadyInv, Steady, Cut
  <2> QED  BY <2>2, <2>3, <2>4 DEF PageInv
<1> QED  BY <1>1, <1>2, <1>3, <1>4, <1>5, <1>6, <1>7, <1>8, <1>9, <1>10, <1>11
         DEF Next, ReaderStep

(***************************************************************************)
(* The pages of a feed are the feed: no row is skipped or repeated, and    *)
(* the last page ends it, as long as no put has moved rows behind the      *)
(* cursor: for any limit, any targets, in any order of the rows.           *)
(***************************************************************************)
THEOREM PagesCover == Spec => []PagesCoverTheFeed
<1>1. Init => RInv /\ TellInv /\ CompleteInv /\ PageInv
  <2>1. Init => CompleteInv /\ PageInv
    BY DEF Init, NoCommand, CompleteInv, PageInv, MovesInv, SingleInv, SteadyInv
  <2> QED  BY <2>1, RInvInit, TellInit
<1>2. RInv /\ TellInv /\ CompleteInv /\ PageInv /\ [Next]_vars
      => RInv' /\ TellInv' /\ CompleteInv' /\ PageInv'
  BY RInvNext, TellNext, CompleteNext, PageNext
<1>3. RInv /\ TellInv /\ CompleteInv /\ PageInv => PagesCoverTheFeed
  <2>1. SUFFICES ASSUME RInv, TellInv, PageInv,
                        args.cmd = "feed", pc \in {"idle", "resume"}, ~shifted
                 PROVE  IsPrefix(delivered, rows) /\ (pc = "idle" => delivered = rows)
    BY DEF PagesCoverTheFeed
  <2>2. rows \in Seq(Told)
    BY <2>1 DEF TellInv, FeedInv
  <2>3. /\ pc = "resume" => Cut(rows, cursor)
        /\ pc = "idle" => delivered = rows
    <3>1. CASE Single
      <4>1. PICK t : t = args.targets[1]
        OBVIOUS
      <4>2. OneTarget(t)
        BY <2>1, <3>1, <4>1 DEF PageInv, SingleInv
      <4> QED  BY <4>2 DEF OneTarget
    <3>2. CASE puts = 0
      <4>1. Steady
        BY <2>1, <3>2 DEF PageInv, SteadyInv
      <4> QED  BY <4>1 DEF Steady
    <3> QED  BY <2>1, <3>1, <3>2 DEF PageInv, MovesInv
  <2>4. CASE pc = "resume"
    BY <2>2, <2>3, <2>4, CutIsPrefix
  <2>5. CASE pc = "idle"
    <3>1. SubSeq(rows, 1, Len(rows)) = rows
      BY <2>2, SubSeqFull
    <3> QED  BY <2>3, <2>5, <3>1 DEF IsPrefix
  <2> QED  BY <2>1, <2>4, <2>5
<1> QED  BY <1>1, <1>2, <1>3, PTL DEF Spec

=============================================================================
