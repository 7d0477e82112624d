------------------------- MODULE ImportReviewProofs -------------------------
(* Proofs about ImportReview, for any number of requests that overlap only   *)
(* as finalizes of a voice run (KeyedSpec), any items and any groups.        *)
EXTENDS ImportReview, FiniteSetTheorems, TLAPS

-----------------------------------------------------------------------------
(* The copies of a request that overlaps no other are the current rows.      *)

StreamsShape == streams = [j \in ProjectItems |-> [n \in 0..MaxMade |-> streams[j][n]]]
Shapes == request = [c \in Clients |-> request[c]] /\ StreamsShape

Alone(c) == request[c].op = "item" \/ source = "bulk_import"

CopiesCurrent ==
  \A c \in Clients : request[c] # Idle /\ Alone(c) =>
    /\ request[c].run = run
    /\ \A i \in DOMAIN request[c].items : request[c].items[i] = item[i]

IInv == Shapes /\ KeyedOrAlone /\ CopiesCurrent

\* What a commit leaves of the requests: its own is gone.
LEMMA DoneLeaves ==
  ASSUME Shapes, NEW c \in Clients, Done(c)
  PROVE  /\ request' = [d \in Clients |-> request'[d]]
         /\ request'[c] = Idle
         /\ \A d \in Clients \ {c} : request'[d] = request[d]
  BY DEF Shapes, Done

\* A request that shares its time with another commits under a key, so that one
\* whose copies are current is not disturbed by a commit of another.
LEMMA CommitKeepsCurrent ==
  ASSUME IInv, source' = source, NEW c \in Clients, request[c] # Idle, Done(c)
  PROVE  CopiesCurrent'
  <1> SUFFICES ASSUME NEW d \in Clients, request'[d] # Idle,
                      (request'[d].op = "item" \/ source' = "bulk_import")
               PROVE  FALSE
      BY DEF CopiesCurrent, Alone
  <1>1. d # c /\ request'[d] = request[d]
    BY DoneLeaves DEF IInv
  <1>2. source = "voice_interview" /\ request[d].op = "run"
    BY <1>1 DEF IInv, KeyedOrAlone
  <1> QED
    BY <1>1, <1>2

\* The copy of a request with current copies is the row.
LEMMA CopyIsCurrent ==
  ASSUME CopiesCurrent, NEW c \in Clients, request[c] # Idle, Alone(c), NEW i
  PROVE  Copy(c, i) = item[i]
  BY DEF CopiesCurrent, Copy

\* Every action either starts a request, or commits one, or is not a request's.
LEMMA Steps ==
  ASSUME IInv, Next
  PROVE  \/ \E c \in Clients : request[c] # Idle /\ Done(c) /\ source' = source
         \/ \E c \in Clients : LoadRun(c) \/ \E i \in Items : LoadItem(c, i)
         \/ \E p \in Places : AddLocation(p)
         \/ \E j \in ProjectItems, p \in Places : AddStream(j, p)
  <1> DEFINE Commits == \E c \in Clients : request[c] # Idle /\ Done(c) /\ source' = source
  <1>0. Idle.op = "none"
    BY DEF Idle
  <1>1. ASSUME NEW c \in Clients, Leave(c) PROVE Commits
    BY <1>1 DEF Leave
  <1>2. ASSUME NEW c \in Clients, Edit(c) PROVE Commits
    <2>1. PICK i \in Items : \/ \E choice \in Choices, sent \in Sent : Accept(c, i, choice, sent)
                             \/ \E sent \in Sent : Reject(c, i, sent)
                             \/ Reset(c, i)
      BY <1>2 DEF Edit
    <2>2. Editing(c, i) /\ Done(c) /\ source' = source
      BY <2>1 DEF Accept, Reject, Reset, Save
    <2> QED
      BY <2>2, <1>0 DEF Editing
  <1>3. ASSUME NEW c \in Clients, Finalize(c) PROVE Commits
    <2>1. \/ FinalizeWhole(c)
          \/ \E G : FinalizeSubset(c, G)
          \/ \E G, k : FinalizeVoice(c, G, k)
      BY <1>3 DEF Finalize
    <2>2. request[c].op = "run" /\ Done(c) /\ source' = source
      BY <2>1 DEF FinalizeWhole, FinalizeSubset, FinalizeVoice, Make
    <2> QED
      BY <2>2, <1>0
  <1>4. ASSUME NEW c \in Clients, Orphaned(c) PROVE Commits
    <2>1. request[c].op = "run" /\ Done(c) /\ source' = source
      BY <1>4 DEF Orphaned, ImportOrphans
    <2> QED
      BY <2>1, <1>0
  <1>5. ASSUME NEW c \in Clients, Decide(c) PROVE Commits
    <2>1. PICK j \in ProjectItems : RejectDraft(c, j)
            \/ \E choice \in Choices, sent \in Sent : ConfirmDraft(c, j, choice, sent)
      BY <1>5 DEF Decide
    <2>2. Deciding(c, j) /\ Done(c) /\ source' = source
      BY <2>1 DEF RejectDraft, ConfirmDraft
    <2> QED
      BY <2>2, <1>0 DEF Deciding
  <1> QED
    BY <1>1, <1>2, <1>3, <1>4, <1>5 DEF Next

\* What each commit does to the streams: none is lost, and a request makes one
\* of item j only if its copy of the item has none, unless it finalizes it all.
MakesOnly(c, j, n) ==
  streams'[j][n] # streams[j][n] =>
    \/ n = 0
    \/ FinalizeWhole(c)
    \/ request[c] # Idle /\ Copy(c, j).stream = None

LEMMA FinalizeMakes ==
  ASSUME StreamsShape, NEW c \in Clients, Finalize(c)
  PROVE  StreamsShape' /\ \A j \in ProjectItems, n \in 0..MaxMade : MakesOnly(c, j, n)
  <1>0. Idle.op = "none"
    BY DEF Idle
  <1>1. CASE FinalizeWhole(c)
    BY <1>1 DEF FinalizeWhole, Make, StreamsShape, MakesOnly
  <1>2. ASSUME NEW T, Make(c, T, FALSE), request[c].op = "run"
        PROVE  StreamsShape' /\ \A j \in ProjectItems, n \in 0..MaxMade : MakesOnly(c, j, n)
    <2>1. StreamsShape'
      BY <1>2 DEF Make, StreamsShape
    <2>2. ASSUME NEW j \in ProjectItems, NEW n \in 0..MaxMade, streams'[j][n] # streams[j][n]
          PROVE  j \in ToMake(c, T, FALSE)
      BY <1>2, <2>2 DEF Make, StreamsShape
    <2>3. ASSUME NEW j \in ToMake(c, T, FALSE) PROVE Copy(c, j).stream = None
      BY <2>3 DEF ToMake, Unmade
    <2> QED
      BY <1>2, <2>1, <2>2, <2>3, <1>0 DEF MakesOnly
  <1>3. ASSUME NEW G, FinalizeSubset(c, G)
        PROVE  Make(c, Members(G), FALSE) /\ request[c].op = "run"
    BY <1>3 DEF FinalizeSubset
  <1>4. ASSUME NEW G, NEW k, FinalizeVoice(c, G, k)
        PROVE  Make(c, Members(G), FALSE) /\ request[c].op = "run"
    BY <1>4 DEF FinalizeVoice
  <1> QED
    BY <1>1, <1>2, <1>3, <1>4 DEF Finalize

LEMMA OrphansMake ==
  ASSUME StreamsShape, NEW c \in Clients, Orphaned(c)
  PROVE  StreamsShape' /\ \A j \in ProjectItems, n \in 0..MaxMade : MakesOnly(c, j, n)
  <1>1. PICK J, p, last : ImportOrphans(c, J, p, last)
    BY DEF Orphaned
  <1> DEFINE new == {j \in J : Copy(c, j).stream = None}
  <1>2. /\ request[c].op = "run"
        /\ streams' = [j \in ProjectItems |->
             IF j \in new THEN [streams[j] EXCEPT ![Made(j) + 1] = p] ELSE streams[j]]
    BY <1>1 DEF ImportOrphans
  <1>3. request[c] # Idle
    BY <1>2 DEF Idle
  <1>4. StreamsShape'
    BY <1>2 DEF StreamsShape
  <1>5. ASSUME NEW j \in ProjectItems, NEW n \in 0..MaxMade, streams'[j][n] # streams[j][n]
        PROVE  j \in new
    BY <1>2, <1>5 DEF StreamsShape
  <1> QED
    BY <1>3, <1>4, <1>5 DEF MakesOnly

LEMMA DecideMakes ==
  ASSUME StreamsShape, NEW c \in Clients, Decide(c)
  PROVE  StreamsShape' /\ \A j \in ProjectItems, n \in 0..MaxMade : MakesOnly(c, j, n)
  <1>1. PICK d \in ProjectItems : RejectDraft(c, d)
          \/ \E choice \in Choices, sent \in Sent : ConfirmDraft(c, d, choice, sent)
    BY DEF Decide
  <1>2. Deciding(c, d)
    BY <1>1 DEF RejectDraft, ConfirmDraft
  <1>3. request[c] # Idle /\ Copy(c, d).stream = None
    BY <1>2 DEF Deciding, Idle
  <1>4. CASE streams' = streams
    BY <1>4 DEF StreamsShape, MakesOnly
  <1>5. ASSUME NEW at, streams' = [streams EXCEPT ![d][Made(d) + 1] = at]
        PROVE  StreamsShape' /\ \A j \in ProjectItems, n \in 0..MaxMade : MakesOnly(c, j, n)
    <2>1. StreamsShape'
      BY <1>5 DEF StreamsShape
    <2>2. ASSUME NEW j \in ProjectItems, NEW n \in 0..MaxMade, streams'[j][n] # streams[j][n]
          PROVE  j = d
      BY <1>5, <2>2 DEF StreamsShape
    <2> QED
      BY <1>3, <2>1, <2>2 DEF MakesOnly
  <1>6. streams' = streams \/ \E at : streams' = [streams EXCEPT ![d][Made(d) + 1] = at]
    BY <1>1 DEF RejectDraft, ConfirmDraft
  <1> QED
    BY <1>4, <1>5, <1>6

LEMMA NextMakes ==
  ASSUME StreamsShape, Next
  PROVE  /\ StreamsShape'
         /\ \A j \in ProjectItems, n \in 0..MaxMade :
              streams'[j][n] # streams[j][n] =>
                n = 0 \/ \E c \in Clients : MakesOnly(c, j, n)
  <1>1. CASE streams' = streams
    BY <1>1 DEF StreamsShape
  <1>2. ASSUME NEW c \in Clients, Finalize(c) \/ Orphaned(c) \/ Decide(c)
        PROVE  StreamsShape' /\ \A j \in ProjectItems, n \in 0..MaxMade : MakesOnly(c, j, n)
    BY <1>2, FinalizeMakes, OrphansMake, DecideMakes
  <1>3. ASSUME NEW d \in ProjectItems, NEW p \in Places, AddStream(d, p)
        PROVE  StreamsShape' /\ \A j \in ProjectItems, n \in 0..MaxMade :
                 streams'[j][n] # streams[j][n] => n = 0
    BY <1>3 DEF AddStream, StreamsShape
  <1>4. ASSUME NEW c \in Clients, Edit(c) PROVE streams' = streams
    BY <1>4 DEF Edit, Accept, Reject, Reset, Save
  <1>5. ASSUME NEW c \in Clients, LoadRun(c) \/ (\E i \in Items : LoadItem(c, i)) \/ Leave(c)
        PROVE  streams' = streams
    BY <1>5 DEF LoadRun, LoadItem, Leave
  <1>6. ASSUME NEW p \in Places, AddLocation(p) PROVE streams' = streams
    BY <1>6 DEF AddLocation
  <1> QED
    BY <1>1, <1>2, <1>3, <1>4, <1>5, <1>6 DEF Next

-----------------------------------------------------------------------------
(* The invariant, and the properties that follow from it.                    *)

LEMMA InitIInv == Init => IInv
  <1> SUFFICES ASSUME Init PROVE IInv
    OBVIOUS
  <1>1. request = [c \in Clients |-> Idle]
    BY DEF Init
  <1>2. StreamsShape
    <2>1. streams \in [ProjectItems ->
            {[n \in 0..MaxMade |-> IF n = 0 THEN p ELSE None] : p \in locations \union {None}}]
      BY DEF Init
    <2>2. ASSUME NEW j \in ProjectItems
          PROVE  streams[j] = [n \in 0..MaxMade |-> streams[j][n]]
      <3>1. PICK p : streams[j] = [n \in 0..MaxMade |-> IF n = 0 THEN p ELSE None]
        BY <2>1
      <3> QED
        BY <3>1
    <2> QED
      BY <2>1, <2>2 DEF StreamsShape
  <1> QED
    BY <1>1, <1>2 DEF IInv, Shapes, KeyedOrAlone, CopiesCurrent

LEMMA NextIInv == IInv /\ [KeyedNext]_vars => IInv'
  <1> SUFFICES ASSUME IInv, [KeyedNext]_vars PROVE IInv'
    OBVIOUS
  <1>1. CASE UNCHANGED vars
    BY <1>1 DEF vars, IInv, Shapes, StreamsShape, KeyedOrAlone, CopiesCurrent, Alone
  <1>2. CASE KeyedNext
    <2>1. Next /\ KeyedOrAlone'
      BY <1>2 DEF KeyedNext
    <2>2. StreamsShape'
      BY <2>1, NextMakes DEF IInv, Shapes
    <2>3. ASSUME NEW c \in Clients, request[c] # Idle, Done(c), source' = source
          PROVE  IInv'
      BY <2>1, <2>2, <2>3, DoneLeaves, CommitKeepsCurrent DEF IInv, Shapes
    <2>4. ASSUME NEW c \in Clients, LoadRun(c) \/ \E i \in Items : LoadItem(c, i)
          PROVE  IInv'
      <3>1. /\ request' = [d \in Clients |-> request'[d]]
            /\ \A d \in Clients \ {c} : request'[d] = request[d]
            /\ UNCHANGED <<source, run, item>>
        BY <2>4 DEF LoadRun, LoadItem, IInv, Shapes
      <3>2. request'[c].run = run /\ \A i \in DOMAIN request'[c].items :
                                      request'[c].items[i] = item[i]
        <4>1. CASE LoadRun(c)
          <5>1. request'[c] = [op |-> "run", of |-> None, run |-> run, items |-> item]
            BY <4>1 DEF LoadRun, IInv, Shapes
          <5> QED
            BY <5>1
        <4>3. ASSUME NEW i \in Items, LoadItem(c, i)
              PROVE  request'[c].run = run /\ \A k \in DOMAIN request'[c].items :
                                               request'[c].items[k] = item[k]
          <5> DEFINE copies == [k \in {i} |-> item[k]]
          <5>1. request' = [request EXCEPT ![c] =
                  [op |-> "item", of |-> i, run |-> run, items |-> copies]]
            BY <4>3 DEF LoadItem
          <5>2. \A k \in DOMAIN copies : copies[k] = item[k]
            OBVIOUS
          <5> HIDE DEF copies
          <5>3. request'[c] = [op |-> "item", of |-> i, run |-> run, items |-> copies]
            BY <5>1 DEF IInv, Shapes
          <5> QED
            BY <5>2, <5>3
        <4> QED
          BY <2>4, <4>1, <4>3
      <3>3. CopiesCurrent'
        BY <3>1, <3>2 DEF IInv, CopiesCurrent, Alone
      <3> QED
        BY <2>1, <2>2, <3>1, <3>3 DEF IInv, Shapes
    <2>5. ASSUME \/ \E p \in Places : AddLocation(p)
                 \/ \E j \in ProjectItems, p \in Places : AddStream(j, p)
          PROVE  IInv'
      <3>1. UNCHANGED <<source, run, item, request>>
        BY <2>5 DEF AddLocation, AddStream
      <3> QED
        BY <2>1, <2>2, <3>1 DEF IInv, Shapes, CopiesCurrent, Alone
    <2> QED
      BY <2>1, <2>3, <2>4, <2>5, Steps
  <1> QED
    BY <1>1, <1>2

\* The requests that overlap no other decide on the current rows.
THEOREM CopiesStayCurrent == KeyedSpec => []CopiesCurrent
  <1>1. IInv => CopiesCurrent
    BY DEF IInv
  <1> QED
    BY InitIInv, NextIInv, <1>1, PTL DEF KeyedSpec

\* However the requests on a bulk run follow each other, none makes a second
\* stream from an item that has one, but for finalizing the whole run.
THEOREM DraftMadeOnce == KeyedSpec => OncePerDraft
  <1> DEFINE Once ==
        source = "bulk_import" =>
          \A j \in ProjectItems : \A n \in 1..MaxMade :
            streams[j][n] = None /\ streams'[j][n] # None =>
              item[j].stream = None \/ \E c \in Clients : FinalizeWhole(c)
  <1>1. IInv /\ [KeyedNext]_vars => [Once]_vars
    <2> SUFFICES ASSUME IInv, KeyedNext, source = "bulk_import",
                        NEW j \in ProjectItems, NEW n \in 1..MaxMade,
                        streams[j][n] = None, streams'[j][n] # None
                 PROVE  item[j].stream = None \/ \E c \in Clients : FinalizeWhole(c)
      BY DEF vars
    <2>1. n \in 0..MaxMade /\ n # 0
      BY BoundsAssumption
    <2>2. PICK c \in Clients : MakesOnly(c, j, n)
      BY <2>1, NextMakes DEF KeyedNext, IInv, Shapes
    <2>3. FinalizeWhole(c) \/ (request[c] # Idle /\ Copy(c, j).stream = None)
      BY <2>1, <2>2 DEF MakesOnly
    <2> QED
      BY <2>3, CopyIsCurrent DEF IInv, Alone
  <1> QED
    BY InitIInv, NextIInv, <1>1, PTL DEF KeyedSpec, OncePerDraft

-----------------------------------------------------------------------------
(* The interview of a voice run and the run.                                 *)

\* What a commit writes to run.status, which it had seen at review_ready.
LEMMA StatusWritten ==
  ASSUME NEW c, NEW open \in BOOLEAN, NEW summary, request[c].run.status = "review_ready",
         run' = StoredRun(c, RunStatus(open), summary)
  PROVE  run'.status = IF open THEN run.status ELSE "completed"
  BY DEF StoredRun, RunStatus, Written

LEMMA DecideInStep ==
  ASSUME IInv, VoiceInStep, NEW c \in Clients, Decide(c)
  PROVE  VoiceInStep'
  <1>1. PICK j \in ProjectItems : RejectDraft(c, j)
          \/ \E choice \in Choices, sent \in Sent : ConfirmDraft(c, j, choice, sent)
    BY DEF Decide
  <1>2. Deciding(c, j) /\ source' = source
    BY <1>1 DEF RejectDraft, ConfirmDraft
  <1>3. run.status = "review_ready" /\ request[c].run.status = "review_ready"
    BY <1>2 DEF Deciding, IInv, CopiesCurrent, Alone, Idle
  <1>4. PICK places, made, rejected : Settle(c, places, made, rejected)
    BY <1>1 DEF RejectDraft, ConfirmDraft
  <1> DEFINE open == \E k \in ProjectItems :
                       item'[k].stream = None /\ item'[k].status \in {"pending", "accepted"}
  <1>5. /\ run' = StoredRun(c, RunStatus(open), Accumulated(c, places, made, rejected))
        /\ source = "voice_interview" => voice' = VoiceStatus(open)
    BY <1>4 DEF Settle
  <1> HIDE DEF open
  <1>6. open \in BOOLEAN
    BY DEF open
  <1>7. run'.status = IF open THEN "review_ready" ELSE "completed"
    BY <1>3, <1>5, <1>6, StatusWritten
  <1> QED
    BY <1>2, <1>5, <1>7 DEF VoiceInStep, VoiceStatus

LEMMA FinalizeInStep ==
  ASSUME VoiceInStep, NEW c \in Clients, Finalize(c)
  PROVE  VoiceInStep'
  <1>1. CASE source = "bulk_import" /\ source' = source
    BY <1>1 DEF VoiceInStep
  <1>2. ASSUME NEW G, NEW k, FinalizeVoice(c, G, k) PROVE VoiceInStep'
    <2> DEFINE open == StillOpen(c, NewRows(c, Members(G), FALSE))
    <2>1. /\ source' = source /\ source = "voice_interview"
          /\ request[c].run.status = "review_ready"
          /\ voice \in {"review_ready", "partial_finalized"}
          /\ voice' = VoiceStatus(open)
          /\ \E summary : run' = StoredRun(c, RunStatus(open), summary)
      BY <1>2 DEF FinalizeVoice, InterviewOpen
    <2> open \in BOOLEAN
      BY DEF StillOpen
    <2> HIDE DEF open
    <2>2. run'.status = IF open THEN run.status ELSE "completed"
      BY <2>1, StatusWritten
    <2> QED
      BY <2>1, <2>2 DEF VoiceInStep, VoiceStatus
  <1>3. FinalizeWhole(c) \/ (\E G : FinalizeSubset(c, G)) \/ \E G, k : FinalizeVoice(c, G, k)
    BY DEF Finalize
  <1> QED
    BY <1>1, <1>2, <1>3 DEF FinalizeWhole, FinalizeSubset

\* A voice run is completed exactly when its interview is finalized: a finalize
\* that overlaps others decides on the interview's row, which it locks unread.
THEOREM VoiceStaysInStep == KeyedSpec => []VoiceInStep
  <1>1. Init => VoiceInStep
    BY DEF Init, VoiceInStep, NewRun
  <1>2. IInv /\ VoiceInStep /\ [KeyedNext]_vars => VoiceInStep'
    <2> SUFFICES ASSUME IInv, VoiceInStep, [KeyedNext]_vars PROVE VoiceInStep'
      OBVIOUS
    <2>1. ASSUME UNCHANGED <<source, run, voice>> PROVE VoiceInStep'
      BY <2>1 DEF VoiceInStep
    <2>2. ASSUME NEW c \in Clients, Orphaned(c) PROVE VoiceInStep'
      BY <2>2 DEF Orphaned, ImportOrphans, VoiceInStep
    <2>3. ASSUME NEW c \in Clients, Edit(c) PROVE UNCHANGED <<source, run, voice>>
      BY <2>3 DEF Edit, Accept, Reject, Reset, Save
    <2>4. ASSUME NEW c \in Clients, LoadRun(c) \/ (\E i \in Items : LoadItem(c, i)) \/ Leave(c)
          PROVE  UNCHANGED <<source, run, voice>>
      BY <2>4 DEF LoadRun, LoadItem, Leave
    <2>5. ASSUME \/ \E p \in Places : AddLocation(p)
                 \/ \E j \in ProjectItems, p \in Places : AddStream(j, p)
          PROVE  UNCHANGED <<source, run, voice>>
      BY <2>5 DEF AddLocation, AddStream
    <2> QED
      BY <2>1, <2>2, <2>3, <2>4, <2>5, DecideInStep, FinalizeInStep
      DEF KeyedNext, Next, vars
  <1> QED
    BY InitIInv, NextIInv, <1>1, <1>2, PTL DEF KeyedSpec

-----------------------------------------------------------------------------
(* When a run is completed.  The rows and the copies of them are records with*)
(* a known status, and what a finalize that overlaps others has seen of an   *)
(* item still holds: its status, and that it was made.                       *)

Statuses == {"pending", "accepted", "rejected", "invalid"}

RowLike(r) ==
  /\ r = [status |-> r.status, confirm |-> r.confirm, choice |-> r.choice,
          place |-> r.place, stream |-> r.stream]
  /\ r.status \in Statuses

ItemsLike == item = [i \in Items |-> item[i]] /\ \A i \in Items : RowLike(item[i])
CopiesLike ==
  \A c \in Clients : request[c] # Idle =>
    /\ DOMAIN request[c].items \subseteq Items
    /\ request[c].op = "run" => DOMAIN request[c].items = Items
    /\ \A i \in DOMAIN request[c].items : RowLike(request[c].items[i])
RowsLike == ItemsLike /\ CopiesLike

StillSeen ==
  \A c \in Clients : request[c].op = "run" =>
    \A i \in Items :
      /\ request[c].items[i].status = item[i].status
      /\ request[c].items[i].stream # None => item[i].stream # None

SInv == IInv /\ RowsLike /\ StillSeen

LEMMA CopyLike ==
  ASSUME RowsLike, NEW c \in Clients, request[c] # Idle, NEW i \in Items
  PROVE  RowLike(Copy(c, i))
  BY DEF RowsLike, ItemsLike, CopiesLike, Copy

\* How many streams an item has is a number, and the next one's is not None.
LEMMA MadeNext ==
  ASSUME NEW j
  PROVE  Made(j) + 1 # None
  <1>1. {n \in 1..MaxMade : streams[j][n] # None} \subseteq 1..MaxMade
    OBVIOUS
  <1>2. IsFiniteSet(1..MaxMade)
    BY BoundsAssumption, FS_Interval
  <1>3. Made(j) \in Nat
    BY <1>1, <1>2, FS_Subset, FS_CardinalityType DEF Made
  <1> QED
    BY <1>3, ItemsAssumption

\* A commit leaves records with a status if what it sets has one.
LEMMA StoredLike ==
  ASSUME RowsLike, NEW c \in Clients, request[c] # Idle, NEW rows,
         \A i \in DOMAIN rows : rows[i].status \in Statuses, item' = Stored(c, rows)
  PROVE  ItemsLike'
  <1>1. ASSUME NEW i \in Items PROVE RowLike(item'[i])
    <2>1. CASE i \notin DOMAIN rows
      BY <1>1, <2>1 DEF Stored, RowsLike, ItemsLike
    <2>2. CASE i \in DOMAIN rows
      <3>1. item'[i] = Merged(Copy(c, i), rows[i], item[i])
        BY <1>1, <2>2 DEF Stored
      <3>2. Merged(Copy(c, i), rows[i], item[i]).status \in Statuses
        BY <1>1, <2>2 DEF Merged, Written, RowsLike, ItemsLike, RowLike
      <3> QED
        BY <3>1, <3>2 DEF Merged, RowLike
    <2> QED
      BY <2>1, <2>2
  <1>2. item' = [i \in Items |-> item'[i]]
    BY DEF Stored
  <1> QED
    BY <1>1, <1>2 DEF ItemsLike

LEMMA ResolvedLike ==
  ASSUME NEW i, NEW r, RowLike(r), NEW choice
  PROVE  RowLike(Resolved(i, r, choice)) /\ Resolved(i, r, choice).status = r.status
  <1>1. CASE choice = NoChoice \/ (i \in ProjectItems /\ Parent[i] # None)
    <2>1. Resolved(i, r, choice) = r
      BY <1>1 DEF Resolved
    <2> QED
      BY <2>1
  <1>2. CASE ~(choice = NoChoice \/ (i \in ProjectItems /\ Parent[i] # None)) /\ i \in Orphans
    <2>1. Resolved(i, r, choice) = [r EXCEPT !.choice = choice]
      BY <1>2 DEF Resolved
    <2> QED
      BY <2>1 DEF RowLike
  <1>3. CASE ~(choice = NoChoice \/ (i \in ProjectItems /\ Parent[i] # None)) /\ i \notin Orphans
    <2>1. PICK confirm : Resolved(i, r, choice) =
            [r EXCEPT !.choice = choice, !.place = None, !.confirm = confirm]
      BY <1>3 DEF Resolved
    <2> QED
      BY <2>1 DEF RowLike
  <1> QED
    BY <1>1, <1>2, <1>3

\* A finalize sets rows of the items of a part T of the run.
FinalizedRows(c, T, anew) ==
  /\ T \subseteq Items /\ anew \in BOOLEAN
  /\ request[c].op = "run" /\ request[c] # Idle
  /\ item' = Stored(c, NewRows(c, T, anew))

\* What it sets: an item keeps its status, a project has its stream.
RowsMade(c, T, anew) ==
  /\ DOMAIN NewRows(c, T, anew) = Unplaced(c, T, anew) \union Unmade(c, T, anew)
  /\ \A i \in DOMAIN NewRows(c, T, anew) :
       /\ i \in Items
       /\ NewRows(c, T, anew)[i].status = Copy(c, i).status
       /\ IF i \in ProjectItems THEN NewRows(c, T, anew)[i].stream # None
          ELSE NewRows(c, T, anew)[i].stream = Copy(c, i).stream

LEMMA NewRowsLike ==
  ASSUME RowsLike, NEW c \in Clients, NEW T, NEW anew, FinalizedRows(c, T, anew)
  PROVE  RowsMade(c, T, anew)
  <1>0. T \subseteq Items /\ anew \in BOOLEAN /\ request[c] # Idle
    BY DEF FinalizedRows
  <1>1. DOMAIN NewRows(c, T, anew) = Unplaced(c, T, anew) \union Unmade(c, T, anew)
    BY DEF NewRows
  <1>2. ASSUME NEW i \in DOMAIN NewRows(c, T, anew)
        PROVE  /\ i \in Items
               /\ NewRows(c, T, anew)[i].status = Copy(c, i).status
               /\ IF i \in ProjectItems THEN NewRows(c, T, anew)[i].stream # None
                  ELSE NewRows(c, T, anew)[i].stream = Copy(c, i).stream
    <2>1. i \in Unplaced(c, T, anew) \union Unmade(c, T, anew) /\ i \in Items
      BY <1>0, <1>1 DEF Unplaced, Unmade, Accepted
    <2>2. RowLike(Copy(c, i))
      BY <1>0, <2>1, CopyLike
    <2>3. CASE i \in LocationItems
      <3>1. NewRows(c, T, anew)[i] = [Copy(c, i) EXCEPT !.place = PlaceFor(c, i)]
        BY <2>1, <2>3 DEF NewRows
      <3>2. i \notin ProjectItems
        BY <2>3, ItemsAssumption
      <3>3. \A r, at : RowLike(r) => /\ [r EXCEPT !.place = at].status = r.status
                                     /\ [r EXCEPT !.place = at].stream = r.stream
        BY DEF RowLike
      <3> QED
        BY <2>1, <2>2, <3>1, <3>2, <3>3
    <2>4. CASE i \notin LocationItems
      <3> DEFINE made == IF Mapped(c, i) THEN 0 ELSE Made(i) + 1
      <3>1. NewRows(c, T, anew)[i] = [Copy(c, i) EXCEPT !.stream = made]
        BY <2>1, <2>4 DEF NewRows
      <3>2. made # None
        BY MadeNext, ItemsAssumption
      <3> HIDE DEF made
      <3>3. i \in ProjectItems
        BY <2>1, <2>4 DEF Items
      <3> QED
        BY <2>1, <2>2, <3>1, <3>2, <3>3 DEF RowLike
    <2> QED
      BY <2>3, <2>4
  <1> QED
    BY <1>1, <1>2 DEF RowsMade

LEMMA EditLike ==
  ASSUME IInv, RowsLike, NEW c \in Clients, Edit(c)
  PROVE  ItemsLike'
  <1>1. PICK i \in Items : \/ \E choice \in Choices, sent \in Sent : Accept(c, i, choice, sent)
                           \/ \E sent \in Sent : Reject(c, i, sent)
                           \/ Reset(c, i)
    BY DEF Edit
  <1>2. Editing(c, i)
    BY <1>1 DEF Accept, Reject, Reset
  <1>3. request[c] # Idle
    BY <1>2 DEF Editing, Idle
  <1>4. ASSUME NEW choice, NEW sent, Accept(c, i, choice, sent) PROVE ItemsLike'
    <2> DEFINE r == Resolved(i, Copy(c, i), choice)
               new == [r EXCEPT !.status = "accepted", !.confirm = Confirmed(r, sent)]
               rows == [k \in {i} |-> new]
    <2>1. item' = Stored(c, rows)
      BY <1>4 DEF Accept, Save
    <2>2. RowLike(r)
      BY <1>3, CopyLike, ResolvedLike
    <2> HIDE DEF r
    <2>3. new.status = "accepted"
      BY <2>2 DEF RowLike
    <2> HIDE DEF new
    <2>4. \A k \in DOMAIN rows : rows[k].status \in Statuses
      BY <2>3 DEF Statuses
    <2> HIDE DEF rows
    <2> QED
      BY <1>3, <2>1, <2>4, StoredLike
  <1>5. ASSUME NEW sent, Reject(c, i, sent) PROVE ItemsLike'
    <2> DEFINE below == {i} \union {j \in ProjectItems : Parent[j] = i}
               rows == [k \in below |->
                 [Copy(c, k) EXCEPT !.status = "rejected",
                                    !.confirm = IF k = i THEN Confirmed(Copy(c, i), sent) ELSE @]]
    <2>1. item' = Stored(c, rows)
      BY <1>5 DEF Reject, Save
    <2>2. ASSUME NEW k \in below PROVE rows[k].status = "rejected"
      <3>1. RowLike(Copy(c, k))
        BY <1>3, CopyLike DEF Items
      <3> QED
        BY <3>1 DEF RowLike
    <2>3. \A k \in DOMAIN rows : rows[k].status \in Statuses
      BY <2>2 DEF Statuses
    <2> HIDE DEF rows
    <2> QED
      BY <1>3, <2>1, <2>3, StoredLike
  <1>6. CASE Reset(c, i)
    <2> DEFINE rows == [k \in {i} |-> [Copy(c, k) EXCEPT !.status = "pending", !.confirm = FALSE]]
    <2>1. item' = Stored(c, rows)
      BY <1>6 DEF Reset, Save
    <2>2. RowLike(Copy(c, i))
      BY <1>3, CopyLike
    <2>3. rows[i].status = "pending"
      BY <2>2 DEF RowLike
    <2>4. \A k \in DOMAIN rows : rows[k].status \in Statuses
      BY <2>3 DEF Statuses
    <2> HIDE DEF rows
    <2> QED
      BY <1>3, <2>1, <2>4, StoredLike
  <1> QED
    BY <1>1, <1>4, <1>5, <1>6

LEMMA FinalizeRows ==
  ASSUME NEW c \in Clients
  PROVE  /\ FinalizeWhole(c) => FinalizedRows(c, Items, TRUE)
         /\ \A G : FinalizeSubset(c, G) => FinalizedRows(c, Members(G), FALSE)
         /\ \A G, k : FinalizeVoice(c, G, k) => FinalizedRows(c, Members(G), FALSE)
  <1>0. Idle.op = "none" /\ \A G : Members(G) \subseteq Items
    BY DEF Idle, Members
  <1>1. ASSUME FinalizeWhole(c) PROVE FinalizedRows(c, Items, TRUE)
    BY <1>0, <1>1 DEF FinalizeWhole, Make, FinalizedRows
  <1>2. ASSUME NEW G, FinalizeSubset(c, G) PROVE FinalizedRows(c, Members(G), FALSE)
    BY <1>0, <1>2 DEF FinalizeSubset, Make, FinalizedRows
  <1>3. ASSUME NEW G, NEW k, FinalizeVoice(c, G, k) PROVE FinalizedRows(c, Members(G), FALSE)
    BY <1>0, <1>3 DEF FinalizeVoice, Make, FinalizedRows
  <1> QED
    BY <1>1, <1>2, <1>3

LEMMA FinalizeLike ==
  ASSUME RowsLike, NEW c \in Clients, NEW T, NEW anew, FinalizedRows(c, T, anew)
  PROVE  ItemsLike'
  <1>0. RowsMade(c, T, anew)
    BY NewRowsLike
  <1>1. ASSUME NEW i \in DOMAIN NewRows(c, T, anew)
        PROVE  NewRows(c, T, anew)[i].status \in Statuses
    <2>1. i \in Items /\ NewRows(c, T, anew)[i].status = Copy(c, i).status
      BY <1>0, <1>1 DEF RowsMade
    <2>2. RowLike(Copy(c, i))
      BY <2>1, CopyLike DEF FinalizedRows
    <2> QED
      BY <2>1, <2>2 DEF RowLike
  <1> QED
    BY <1>1, StoredLike DEF FinalizedRows

LEMMA OrphansLike ==
  ASSUME RowsLike, NEW c \in Clients, Orphaned(c)
  PROVE  ItemsLike'
  <1>1. PICK J \in SUBSET Orphans \ {{}}, p \in Places, last \in Orphans \union {None} :
          ImportOrphans(c, J, p, last)
    BY DEF Orphaned
  <1> DEFINE new == {j \in J : Copy(c, j).stream = None}
             rows == [j \in new |-> [Copy(c, j) EXCEPT !.stream = Made(j) + 1]]
  <1>2. request[c] # Idle /\ item' = Stored(c, rows)
    BY <1>1 DEF ImportOrphans, Idle
  <1>3. ASSUME NEW j \in new PROVE rows[j].status \in Statuses
    <2>1. RowLike(Copy(c, j))
      BY <1>1, <1>2, CopyLike DEF Orphans, Items
    <2>2. rows[j].status = Copy(c, j).status
      BY <2>1 DEF RowLike
    <2> QED
      BY <2>1, <2>2 DEF RowLike
  <1>4. \A j \in DOMAIN rows : rows[j].status \in Statuses
    BY <1>3
  <1> HIDE DEF rows
  <1> QED
    BY <1>2, <1>4, StoredLike

LEMMA DecideLike ==
  ASSUME RowsLike, NEW c \in Clients, Decide(c)
  PROVE  ItemsLike'
  <1>1. PICK j \in ProjectItems : RejectDraft(c, j)
          \/ \E choice \in Choices, sent \in Sent : ConfirmDraft(c, j, choice, sent)
    BY DEF Decide
  <1>2. Deciding(c, j)
    BY <1>1 DEF RejectDraft, ConfirmDraft
  <1>3. request[c] # Idle /\ j \in Items
    BY <1>2 DEF Deciding, Idle, Items
  <1>4. RowLike(Copy(c, j))
    BY <1>3, CopyLike
  <1>5. CASE RejectDraft(c, j)
    <2> DEFINE rows == [k \in {j} |-> [Copy(c, j) EXCEPT !.status = "rejected"]]
    <2>1. item' = Stored(c, rows)
      BY <1>5 DEF RejectDraft
    <2>2. rows[j].status = "rejected"
      BY <1>4 DEF RowLike
    <2>3. \A k \in DOMAIN rows : rows[k].status \in Statuses
      BY <2>2 DEF Statuses
    <2> HIDE DEF rows
    <2> QED
      BY <1>3, <2>1, <2>3, StoredLike
  <1>6. ASSUME NEW choice, NEW sent, ConfirmDraft(c, j, choice, sent) PROVE ItemsLike'
    <2> DEFINE linked == Parent[j] # None
               kept == linked /\ item[Parent[j]].place # None
               r == Resolved(j, Copy(c, j), choice)
               draft == [r EXCEPT !.status = "accepted", !.confirm = Confirmed(r, sent),
                                  !.stream = Made(j) + 1]
               above == Resolved(Parent[j], item[Parent[j]], choice)
               at == IF kept THEN item[Parent[j]].place
                     ELSE IF linked THEN ParentPlace(Parent[j], above) ELSE draft.choice.at
               rows == [k \in {j} \union ({Parent[j]} \ {None}) |->
                         IF k = j THEN draft ELSE IF kept THEN above ELSE [above EXCEPT !.place = at]]
    <2>1. item' = Stored(c, rows)
      BY <1>6 DEF ConfirmDraft
    <2>2. draft.status = "accepted"
      <3>1. RowLike(r)
        BY <1>4, ResolvedLike
      <3> HIDE DEF r
      <3> QED
        BY <3>1 DEF RowLike
    <2>3. linked => RowLike(above)
      <3>1. linked => Parent[j] \in Items
        BY ItemsAssumption DEF Items
      <3> QED
        BY <3>1, ResolvedLike DEF RowsLike, ItemsLike
    <2> HIDE DEF draft, above, at
    <2>4. linked => [above EXCEPT !.place = at].status = above.status
      BY <2>3 DEF RowLike
    <2>5. \A k \in DOMAIN rows : rows[k].status \in Statuses
      BY <2>2, <2>3, <2>4 DEF RowLike, Statuses
    <2> HIDE DEF rows
    <2> QED
      BY <1>3, <2>1, <2>5, StoredLike
  <1> QED
    BY <1>1, <1>5, <1>6

LEMMA NextRowsLike == IInv /\ RowsLike /\ [KeyedNext]_vars => RowsLike'
  <1> SUFFICES ASSUME IInv, RowsLike, [KeyedNext]_vars PROVE RowsLike'
    OBVIOUS
  <1>1. CASE UNCHANGED vars
    BY <1>1 DEF vars, RowsLike, ItemsLike, CopiesLike
  <1>2. CASE KeyedNext
    <2>1. ItemsLike'
      <3>1. CASE item' = item
        BY <3>1 DEF RowsLike, ItemsLike
      <3>2. ASSUME NEW c \in Clients, Finalize(c) PROVE ItemsLike'
        <4>1. \/ FinalizeWhole(c)
              \/ \E G : FinalizeSubset(c, G)
              \/ \E G, k : FinalizeVoice(c, G, k)
          BY <3>2 DEF Finalize
        <4> QED
          BY <4>1, FinalizeRows, FinalizeLike
      <3>3. ASSUME NEW c \in Clients, LoadRun(c) \/ (\E i \in Items : LoadItem(c, i)) \/ Leave(c)
            PROVE  item' = item
        BY <3>3 DEF LoadRun, LoadItem, Leave
      <3>4. ASSUME \/ \E p \in Places : AddLocation(p)
                   \/ \E j \in ProjectItems, p \in Places : AddStream(j, p)
            PROVE  item' = item
        BY <3>4 DEF AddLocation, AddStream
      <3> QED
        BY <1>2, <3>1, <3>2, <3>3, <3>4, EditLike, OrphansLike, DecideLike DEF KeyedNext, Next
    <2>2. ASSUME NEW c \in Clients, Done(c) PROVE CopiesLike'
      BY <2>2, DoneLeaves DEF IInv, RowsLike, CopiesLike
    <2>3. ASSUME NEW c \in Clients, LoadRun(c) PROVE CopiesLike'
      <3>1. /\ request'[c] = [op |-> "run", of |-> None, run |-> run, items |-> item]
            /\ \A d \in Clients \ {c} : request'[d] = request[d]
        BY <2>3 DEF LoadRun, IInv, Shapes
      <3>2. DOMAIN item = Items
        BY DEF RowsLike, ItemsLike
      <3> QED
        BY <3>1, <3>2 DEF RowsLike, ItemsLike, CopiesLike
    <2>4. ASSUME NEW c \in Clients, NEW i \in Items, LoadItem(c, i) PROVE CopiesLike'
      <3> DEFINE copies == [k \in {i} |-> item[k]]
      <3>1. request' = [request EXCEPT ![c] =
              [op |-> "item", of |-> i, run |-> run, items |-> copies]]
        BY <2>4 DEF LoadItem
      <3>2. DOMAIN copies \subseteq Items /\ \A k \in DOMAIN copies : RowLike(copies[k])
        BY DEF RowsLike, ItemsLike
      <3> HIDE DEF copies
      <3>3. /\ request'[c] = [op |-> "item", of |-> i, run |-> run, items |-> copies]
            /\ \A d \in Clients \ {c} : request'[d] = request[d]
        BY <3>1 DEF IInv, Shapes
      <3> QED
        BY <3>2, <3>3 DEF RowsLike, CopiesLike
    <2>5. ASSUME \/ \E p \in Places : AddLocation(p)
                 \/ \E j \in ProjectItems, p \in Places : AddStream(j, p)
          PROVE  CopiesLike'
      <3>1. request' = request
        BY <2>5 DEF AddLocation, AddStream
      <3> QED
        BY <3>1 DEF RowsLike, CopiesLike
    <2> QED
      BY <1>2, <2>1, <2>2, <2>3, <2>4, <2>5, Steps DEF KeyedNext, RowsLike
  <1> QED
    BY <1>1, <1>2

\* A finalize changes no status and unmakes nothing.
LEMMA FinalizeKeeps ==
  ASSUME RowsLike, NEW c \in Clients, NEW T, NEW anew, FinalizedRows(c, T, anew), NEW i \in Items
  PROVE  /\ item'[i].status = item[i].status
         /\ item[i].stream # None => item'[i].stream # None
  <1> DEFINE rows == NewRows(c, T, anew)
  <1>1. item'[i] = IF i \in DOMAIN rows THEN Merged(Copy(c, i), rows[i], item[i]) ELSE item[i]
    BY DEF FinalizedRows, Stored
  <1>2. CASE i \in DOMAIN rows
    <2>0. RowsMade(c, T, anew)
      BY NewRowsLike
    <2>1. /\ rows[i].status = Copy(c, i).status
          /\ rows[i].stream # None \/ rows[i].stream = Copy(c, i).stream
      BY <1>2, <2>0 DEF RowsMade
    <2> HIDE DEF rows
    <2> QED
      BY <1>1, <1>2, <2>1 DEF Merged, Written
  <1> QED
    BY <1>1, <1>2

LEMMA NextStillSeen == SInv /\ [KeyedNext]_vars => StillSeen'
  <1> SUFFICES ASSUME IInv, RowsLike, StillSeen, [KeyedNext]_vars PROVE StillSeen'
    BY DEF SInv
  <1>0. Idle.op = "none"
    BY DEF Idle
  <1>1. ASSUME item' = item,
               \A d \in Clients : request'[d].op = "run" => request'[d] = request[d]
        PROVE  StillSeen'
    BY <1>1 DEF StillSeen
  <1>2. ASSUME NEW c \in Clients, request[c] # Idle, Alone(c), Done(c) PROVE StillSeen'
    <2>1. ASSUME NEW d \in Clients PROVE request'[d] = Idle
      BY <1>2, DoneLeaves DEF IInv, KeyedOrAlone, Alone
    <2> QED
      BY <1>0, <2>1 DEF StillSeen
  <1>3. ASSUME NEW c \in Clients, Edit(c) PROVE StillSeen'
    <2>1. PICK i \in Items : \/ \E choice \in Choices, sent \in Sent : Accept(c, i, choice, sent)
                             \/ \E sent \in Sent : Reject(c, i, sent)
                             \/ Reset(c, i)
      BY <1>3 DEF Edit
    <2>2. request[c].op = "item" /\ Done(c)
      BY <2>1 DEF Accept, Reject, Reset, Editing, Save
    <2> QED
      BY <1>0, <1>2, <2>2 DEF Alone
  <1>4. ASSUME NEW c \in Clients, Decide(c) PROVE StillSeen'
    <2>1. PICK j \in ProjectItems : RejectDraft(c, j)
            \/ \E choice \in Choices, sent \in Sent : ConfirmDraft(c, j, choice, sent)
      BY <1>4 DEF Decide
    <2>2. request[c].op = "item" /\ Done(c)
      BY <2>1 DEF RejectDraft, ConfirmDraft, Deciding
    <2> QED
      BY <1>0, <1>2, <2>2 DEF Alone
  <1>5. ASSUME NEW c \in Clients, FinalizeWhole(c) \/ (\E G : FinalizeSubset(c, G)) \/ Orphaned(c)
        PROVE  StillSeen'
    <2>1. request[c].op = "run" /\ source = "bulk_import" /\ Done(c)
      BY <1>5 DEF FinalizeWhole, FinalizeSubset, Make, Orphaned, ImportOrphans
    <2> QED
      BY <1>0, <1>2, <2>1 DEF Alone
  <1>6. ASSUME NEW c \in Clients, NEW G, NEW k, FinalizeVoice(c, G, k) PROVE StillSeen'
    <2>1. FinalizedRows(c, Members(G), FALSE) /\ Done(c)
      BY <1>6, FinalizeRows DEF FinalizeVoice, Make
    <2>2. \A i \in Items : /\ item'[i].status = item[i].status
                           /\ item[i].stream # None => item'[i].stream # None
      BY <2>1, FinalizeKeeps
    <2>3. \A d \in Clients : request'[d].op = "run" => request'[d] = request[d]
      BY <1>0, <2>1, DoneLeaves DEF IInv
    <2> QED
      BY <2>2, <2>3 DEF StillSeen
  <1>7. ASSUME NEW c \in Clients, LoadRun(c) PROVE StillSeen'
    <2>1. /\ request'[c] = [op |-> "run", of |-> None, run |-> run, items |-> item]
          /\ \A d \in Clients \ {c} : request'[d] = request[d]
          /\ item' = item
      BY <1>7 DEF LoadRun, IInv, Shapes
    <2> QED
      BY <2>1 DEF StillSeen
  <1>8. ASSUME NEW c \in Clients, (\E i \in Items : LoadItem(c, i)) \/ Leave(c) PROVE StillSeen'
    <2>1. item' = item /\ \A d \in Clients \ {c} : request'[d] = request[d]
      BY <1>8, DoneLeaves DEF LoadItem, Leave, IInv, Shapes
    <2>2. request'[c].op # "run"
      <3>1. CASE Leave(c)
        BY <1>0, <3>1, DoneLeaves DEF Leave, IInv
      <3>2. ASSUME NEW i \in Items, LoadItem(c, i) PROVE request'[c].op = "item"
        BY <3>2 DEF LoadItem, IInv, Shapes
      <3> QED
        BY <1>8, <3>1, <3>2
    <2> QED
      BY <1>1, <2>1, <2>2
  <1>9. ASSUME \/ \E p \in Places : AddLocation(p)
               \/ \E j \in ProjectItems, p \in Places : AddStream(j, p)
               \/ UNCHANGED vars
        PROVE  item' = item /\ request' = request
    BY <1>9 DEF AddLocation, AddStream, vars
  <1> QED
    BY <1>1, <1>3, <1>4, <1>5, <1>6, <1>7, <1>8, <1>9 DEF KeyedNext, Next, Finalize

LEMMA InitSInv == Init => SInv
  <1> SUFFICES ASSUME Init PROVE SInv
    OBVIOUS
  <1>1. \A c \in Clients : request[c] = Idle
    BY DEF Init
  <1>2. item \in [Items -> [status : {"pending", "invalid"}, confirm : {FALSE}, choice : {NoChoice},
                            place : {None}, stream : {None}]]
    BY DEF Init
  <1>3. ASSUME NEW i \in Items PROVE RowLike(item[i])
    <2>1. item[i] \in [status : {"pending", "invalid"}, confirm : {FALSE}, choice : {NoChoice},
                       place : {None}, stream : {None}]
      BY <1>2
    <2> QED
      BY <2>1 DEF RowLike, Statuses
  <1>4. item = [i \in Items |-> item[i]]
    BY <1>2
  <1> QED
    BY <1>1, <1>3, <1>4, InitIInv DEF SInv, RowsLike, ItemsLike, CopiesLike, StillSeen, Idle

LEMMA NextSInv == SInv /\ [KeyedNext]_vars => SInv'
  BY NextIInv, NextRowsLike, NextStillSeen DEF SInv

\* A finalize of the whole run makes of each project what was accepted.
LEMMA WholeSettles ==
  ASSUME SInv, NEW c \in Clients, FinalizeWhole(c), NEW j \in ProjectItems
  PROVE  Settled(j)'
  <1> DEFINE rows == NewRows(c, Items, TRUE)
  <1>1. /\ FinalizedRows(c, Items, TRUE) /\ j \in Items
        /\ item[j].status # "pending" /\ source = "bulk_import"
    BY FinalizeRows DEF FinalizeWhole, Items
  <1>2. Copy(c, j) = item[j] /\ RowLike(item[j])
    BY <1>1, CopyIsCurrent DEF FinalizedRows, Alone, SInv, IInv, RowsLike, ItemsLike
  <1>3. item'[j] = IF j \in DOMAIN rows THEN Merged(Copy(c, j), rows[j], item[j]) ELSE item[j]
    BY <1>1 DEF FinalizedRows, Stored
  <1>m. RowsMade(c, Items, TRUE)
    BY <1>1, NewRowsLike DEF SInv
  <1>4. DOMAIN rows = Unplaced(c, Items, TRUE) \union Unmade(c, Items, TRUE)
    BY <1>m DEF RowsMade
  <1>5. CASE j \in DOMAIN rows
    <2>1. rows[j].stream # None
      BY <1>m, <1>5 DEF RowsMade
    <2> HIDE DEF rows
    <2> QED
      BY <1>2, <1>3, <1>5, <2>1 DEF Settled, Merged, Written
  <1>6. CASE j \notin DOMAIN rows
    <2>1. item[j].status # "accepted"
      BY <1>1, <1>2, <1>4, <1>6 DEF Unmade, Accepted
    <2> QED
      BY <1>1, <1>2, <1>3, <1>6, <2>1 DEF Settled, RowLike, Statuses
  <1> QED
    BY <1>5, <1>6

\* A finalize of groups that leaves nothing open, as it sees the run, has left
\* nothing open: what it had loaded of an item it does not make still holds.
LEMMA PartSettles ==
  ASSUME SInv, NEW c \in Clients, NEW T, FinalizedRows(c, T, FALSE),
         ~StillOpen(c, NewRows(c, T, FALSE)), NEW j \in ProjectItems
  PROVE  Settled(j)'
  <1> DEFINE rows == NewRows(c, T, FALSE)
             r == IF j \in DOMAIN rows THEN rows[j] ELSE Copy(c, j)
  <1>1. j \in Items /\ j \notin LocationItems
    BY ItemsAssumption DEF Items
  <1>2. r.status # "pending" /\ (r.status = "accepted" => r.stream # None)
    BY <1>1 DEF StillOpen
  <1>3. item'[j] = IF j \in DOMAIN rows THEN Merged(Copy(c, j), rows[j], item[j]) ELSE item[j]
    BY <1>1 DEF FinalizedRows, Stored
  <1>4. CASE j \in DOMAIN rows
    <2>1. Copy(c, j).stream = None /\ rows[j].stream # None
      <3>0. RowsMade(c, T, FALSE)
        BY NewRowsLike DEF SInv
      <3>1. j \in Unplaced(c, T, FALSE) \union Unmade(c, T, FALSE) /\ rows[j].stream # None
        BY <1>4, <3>0 DEF RowsMade
      <3>2. j \in Unmade(c, T, FALSE)
        BY <1>1, <3>1 DEF Unplaced
      <3> QED
        BY <3>1, <3>2 DEF Unmade
    <2> HIDE DEF rows
    <2> QED
      BY <1>3, <1>4, <2>1 DEF Settled, Merged, Written
  <1>5. CASE j \notin DOMAIN rows
    <2>1. Copy(c, j) = request[c].items[j]
      <3>1. DOMAIN request[c].items = Items
        BY DEF FinalizedRows, SInv, RowsLike, CopiesLike
      <3> QED
        BY <1>1, <3>1 DEF Copy
    <2>2. /\ Copy(c, j).status = item[j].status
          /\ Copy(c, j).stream # None => item[j].stream # None
      BY <1>1, <2>1 DEF FinalizedRows, SInv, StillSeen
    <2>3. RowLike(item[j])
      BY <1>1 DEF SInv, RowsLike, ItemsLike
    <2> HIDE DEF rows
    <2> QED
      BY <1>2, <1>3, <1>5, <2>2, <2>3 DEF Settled, RowLike, Statuses
  <1> QED
    BY <1>4, <1>5

\* A draft's decision counts the current rows of all projects.
LEMMA DecideSettles ==
  ASSUME SInv, ItemsLike', NEW c \in Clients, Decide(c),
         run.status # "completed", run'.status = "completed", NEW j \in ProjectItems
  PROVE  Settled(j)'
  <1>1. PICK d \in ProjectItems : RejectDraft(c, d)
          \/ \E choice \in Choices, sent \in Sent : ConfirmDraft(c, d, choice, sent)
    BY DEF Decide
  <1>2. Deciding(c, d)
    BY <1>1 DEF RejectDraft, ConfirmDraft
  <1>3. PICK places, made, rejected : Settle(c, places, made, rejected)
    BY <1>1 DEF RejectDraft, ConfirmDraft
  <1> DEFINE open == \E k \in ProjectItems :
                       item'[k].stream = None /\ item'[k].status \in {"pending", "accepted"}
  <1>4. run' = StoredRun(c, RunStatus(open), Accumulated(c, places, made, rejected))
    BY <1>3 DEF Settle
  <1>5. ~open
    <2>1. open \in BOOLEAN
      OBVIOUS
    <2> HIDE DEF open
    <2> QED
      BY <1>2, <1>4, <2>1, StatusWritten DEF Deciding
  <1>6. RowLike(item[j])'
    BY DEF ItemsLike, Items
  <1> QED
    BY <1>5, <1>6 DEF Settled, RowLike, Statuses

\* An orphan import that completes the run leaves no orphan open.
LEMMA OrphansSettle ==
  ASSUME SInv, NEW c \in Clients, Orphaned(c),
         run.status # "completed", run'.status = "completed", NEW j \in Orphans
  PROVE  Settled(j)'
  <1>1. PICK J \in SUBSET Orphans \ {{}}, p \in Places, last \in Orphans \union {None} :
          ImportOrphans(c, J, p, last)
    BY DEF Orphaned
  <1> DEFINE new == {k \in J : Copy(c, k).stream = None}
             rows == [k \in new |-> [Copy(c, k) EXCEPT !.stream = Made(k) + 1]]
             left == {k \in Orphans \ (new \ {last}) :
                        item[k].status # "rejected" /\ item[k].stream = None}
  <1>2. /\ request[c] # Idle /\ source = "bulk_import" /\ item' = Stored(c, rows)
        /\ run' = [run EXCEPT !.status =
             IF left = {} THEN Written(request[c].run.status, "completed", @) ELSE @]
    BY <1>1 DEF ImportOrphans, Idle
  <1>3. left = {}
    <2> HIDE DEF left
    <2> QED
      BY <1>2
  <1>4. j \in Items /\ RowLike(Copy(c, j)) /\ Copy(c, j) = item[j]
    BY <1>2, CopyLike, CopyIsCurrent DEF Orphans, Items, Alone, SInv, IInv
  <1>5. CASE j \in new
    <2>1. item'[j] = Merged(Copy(c, j), rows[j], item[j])
      BY <1>2, <1>4, <1>5 DEF Stored
    <2>2. rows[j].stream # None
      BY <1>4, <1>5, MadeNext DEF RowLike
    <2> HIDE DEF rows
    <2> QED
      BY <1>5, <2>1, <2>2 DEF Settled, Merged, Written
  <1>6. CASE j \notin new
    <2>1. item'[j] = item[j]
      BY <1>2, <1>4, <1>6 DEF Stored
    <2>2. item[j].status = "rejected" \/ item[j].stream # None
      BY <1>3, <1>6
    <2> QED
      BY <2>1, <2>2 DEF Settled
  <1> QED
    BY <1>5, <1>6

\* A run is completed only when each of its projects was made, rejected or was
\* invalid, in whichever of the five ways it is completed; an orphan import
\* looks at the orphans alone.
THEOREM CompletedIsDecided == KeyedSpec => CompletesWhenDecided
  <1> DEFINE Completes == run.status # "completed" /\ run'.status = "completed"
             Decided == \/ \A j \in ProjectItems : Settled(j)'
                        \/ (\E c \in Clients : Orphaned(c)) /\ \A j \in Orphans : Settled(j)'
  <1>1. SInv /\ [KeyedNext]_vars => [Completes => Decided]_vars
    <2> SUFFICES ASSUME SInv, KeyedNext, Completes PROVE Decided
      BY DEF vars
    <2>1. CASE run' = run
      BY <2>1
    <2>2. ASSUME NEW c \in Clients, Orphaned(c) PROVE Decided
      BY <2>2, OrphansSettle
    <2>3. ASSUME NEW c \in Clients, Decide(c) PROVE Decided
      BY <2>3, NextSInv, DecideSettles DEF SInv, RowsLike
    <2>4. ASSUME NEW c \in Clients, FinalizeWhole(c) PROVE Decided
      BY <2>4, WholeSettles
    <2>5. ASSUME NEW c \in Clients, NEW T, FinalizedRows(c, T, FALSE), NEW summary,
                 request[c].run.status = "review_ready",
                 run' = StoredRun(c, RunStatus(StillOpen(c, NewRows(c, T, FALSE))), summary)
          PROVE  Decided
      <3>1. StillOpen(c, NewRows(c, T, FALSE)) \in BOOLEAN
        BY DEF StillOpen
      <3>2. ~StillOpen(c, NewRows(c, T, FALSE))
        BY <2>5, <3>1, StatusWritten
      <3> QED
        BY <2>5, <3>2, PartSettles
    <2>6. ASSUME NEW c \in Clients, NEW G, FinalizeSubset(c, G) PROVE Decided
      <3>1. /\ FinalizedRows(c, Members(G), FALSE) /\ request[c].run.status = "review_ready"
            /\ \E summary :
                 run' = StoredRun(c, RunStatus(StillOpen(c, NewRows(c, Members(G), FALSE))), summary)
        BY <2>6, FinalizeRows DEF FinalizeSubset
      <3> QED
        BY <2>5, <3>1
    <2>7. ASSUME NEW c \in Clients, NEW G, NEW k, FinalizeVoice(c, G, k) PROVE Decided
      <3>1. /\ FinalizedRows(c, Members(G), FALSE) /\ request[c].run.status = "review_ready"
            /\ \E summary :
                 run' = StoredRun(c, RunStatus(StillOpen(c, NewRows(c, Members(G), FALSE))), summary)
        BY <2>7, FinalizeRows DEF FinalizeVoice
      <3> QED
        BY <2>5, <3>1
    <2>8. ASSUME NEW c \in Clients, Edit(c) PROVE run' = run
      BY <2>8 DEF Edit, Accept, Reject, Reset, Save
    <2>9. ASSUME NEW c \in Clients, LoadRun(c) \/ (\E i \in Items : LoadItem(c, i)) \/ Leave(c)
          PROVE  run' = run
      BY <2>9 DEF LoadRun, LoadItem, Leave
    <2>10. ASSUME \/ \E p \in Places : AddLocation(p)
                  \/ \E j \in ProjectItems, p \in Places : AddStream(j, p)
           PROVE  run' = run
      BY <2>10 DEF AddLocation, AddStream
    <2> HIDE DEF Decided
    <2> QED
      BY <2>1, <2>2, <2>3, <2>4, <2>6, <2>7, <2>8, <2>9, <2>10 DEF KeyedNext, Next, Finalize
  <1> QED
    BY InitSInv, NextSInv, <1>1, PTL DEF KeyedSpec, CompletesWhenDecided
-----------------------------------------------------------------------------
(* Types, for requests that overlap in any way.                              *)

RequestsOK ==
  /\ DOMAIN request = Clients
  /\ \A c \in Clients :
       /\ request[c].op \in {"none", "item", "run"}
       /\ request[c].of \in Items \union {None}
       /\ request[c].run \in Run
       /\ request[c].items \in [Loaded(request[c]) -> Row]

LEMMA ItemsFinite ==
  /\ IsFiniteSet(Items) /\ \A T \in SUBSET Items : IsFiniteSet(T) /\ Cardinality(T) \in Nat
  <1>1. IsFiniteSet(Items)
    BY ItemsAssumption, FS_Union DEF Items
  <1> QED
    BY <1>1, FS_Subset, FS_CardinalityType

LEMMA NewRunType == NewRun \in Run
  <1>1. 0 \in 0..MaxRejected /\ 0 \in Nat
    BY BoundsAssumption
  <1>2. NoSummary \in Summary
    BY <1>1 DEF NoSummary, SummaryOf, Summary
  <1> QED
    BY <1>2 DEF NewRun, Run

LEMMA IdleType ==
  /\ Idle.op = "none" /\ Idle.of = None /\ Idle.run \in Run
  /\ Idle.items \in [Loaded(Idle) -> Row]
  <1>1. Idle.op = "none" /\ Idle.of = None /\ Idle.run = NewRun /\ Idle.items = << >>
    BY DEF Idle
  <1>2. Loaded(Idle) = {}
    BY <1>1 DEF Loaded
  <1>3. << >> \in [{} -> Row]
    OBVIOUS
  <1> QED
    BY <1>1, <1>2, <1>3, NewRunType

LEMMA DoneType ==
  ASSUME RequestsOK, NEW c \in Clients, Done(c) PROVE RequestsOK'
  <1>1. DOMAIN request' = Clients
    BY DEF RequestsOK, Done
  <1>2. ASSUME NEW d \in Clients
        PROVE  /\ request'[d].op \in {"none", "item", "run"}
               /\ request'[d].of \in Items \union {None}
               /\ request'[d].run \in Run
               /\ request'[d].items \in [Loaded(request'[d]) -> Row]
    <2>1. request'[d] = Idle \/ request'[d] = request[d]
      BY DEF RequestsOK, Done
    <2> QED
      BY <2>1, IdleType DEF RequestsOK
  <1> QED
    BY <1>1, <1>2 DEF RequestsOK

LEMMA CopyType ==
  ASSUME TypeOK, NEW c \in Clients, NEW i \in Items
  PROVE  Copy(c, i) \in Row
  BY DEF TypeOK, Copy

LEMMA SeenType ==
  ASSUME TypeOK, NEW c \in Clients
  PROVE  /\ request[c].run \in Run /\ request[c].run.summary \in Summary
         /\ run.status \in {"review_ready", "completed"} /\ run.summary \in Summary
         /\ RequestsOK
  BY DEF TypeOK, RequestsOK, Run

LEMMA RowIs ==
  ASSUME NEW r \in Row
  PROVE  /\ r.status \in Statuses /\ r.confirm \in BOOLEAN /\ r.choice \in Choices
         /\ r.place \in Places \union {None} /\ r.stream \in 0..MaxMade \union {None}
         /\ \A s \in Statuses : [r EXCEPT !.status = s] \in Row
         /\ \A p \in Places : [r EXCEPT !.place = p] \in Row
         /\ \A n \in 0..MaxMade : [r EXCEPT !.stream = n] \in Row
  BY DEF Row, Statuses

LEMMA ChoiceIs ==
  ASSUME NEW r \in Row, r.choice.mode # "none"
  PROVE  r.choice.at \in Places
  <1>1. r.choice # NoChoice
    BY DEF NoChoice
  <1> QED
    BY <1>1, RowIs, SentAssumption DEF Choices

LEMMA StoredType ==
  ASSUME TypeOK, NEW c \in Clients, NEW rows, \A i \in DOMAIN rows : rows[i] \in Row
  PROVE  Stored(c, rows) \in [Items -> Row]
  <1>1. ASSUME NEW i \in Items, i \in DOMAIN rows PROVE Merged(Copy(c, i), rows[i], item[i]) \in Row
    <2>1. Copy(c, i) \in Row /\ rows[i] \in Row /\ item[i] \in Row
      BY <1>1, CopyType DEF TypeOK
    <2> QED
      BY <2>1 DEF Merged, Written, Row
  <1> QED
    BY <1>1 DEF Stored, TypeOK

LEMMA StoredRunType ==
  ASSUME TypeOK, NEW c \in Clients, NEW status \in {"review_ready", "completed"},
         NEW summary \in Summary
  PROVE  StoredRun(c, status, summary) \in Run
  BY SeenType DEF StoredRun, Written, Run

LEMMA RunStatusType == \A open : RunStatus(open) \in {"review_ready", "completed"}
  BY DEF RunStatus

LEMMA ResolvedType ==
  ASSUME NEW i, NEW r \in Row, NEW choice \in Choices
  PROVE  Resolved(i, r, choice) \in Row
  <1>1. [r EXCEPT !.choice = choice] \in Row
    BY DEF Row
  <1>2. \A b \in BOOLEAN : [r EXCEPT !.choice = choice, !.place = None, !.confirm = b] \in Row
    BY DEF Row
  <1>3. r.confirm \in BOOLEAN /\ (choice.mode = "create_new") \in BOOLEAN
    BY RowIs
  <1>4. PICK b \in BOOLEAN : b = IF choice.mode = "locked" THEN r.confirm ELSE choice.mode = "create_new"
    BY <1>3
  <1>5. [r EXCEPT !.choice = choice, !.place = None, !.confirm = b] =
        [r EXCEPT !.choice = choice, !.place = None,
                  !.confirm = IF choice.mode = "locked" THEN @ ELSE choice.mode = "create_new"]
    BY <1>4 DEF Row
  <1> QED
    BY <1>1, <1>2, <1>5 DEF Resolved

LEMMA ConfirmedType ==
  ASSUME NEW r \in Row, NEW sent \in Sent PROVE Confirmed(r, sent) \in BOOLEAN
  <1>1. CASE sent = {}
    BY <1>1, RowIs DEF Confirmed
  <1>2. CASE sent # {}
    <2>1. Confirmed(r, sent) = (TRUE \in sent)
      BY <1>2 DEF Confirmed
    <2> QED
      BY <2>1
  <1> QED
    BY <1>1, <1>2

LEMMA ItemsOnlyType ==
  ASSUME TypeOK, NEW c \in Clients, item' \in [Items -> Row], Done(c),
         UNCHANGED <<source, run, voice, candidate, locations, streams, answer>>
  PROVE  TypeOK'
  <1>1. RequestsOK'
    BY SeenType, DoneType
  <1> QED
    BY <1>1 DEF TypeOK, RequestsOK

LEMMA EditType ==
  ASSUME TypeOK, NEW c \in Clients, Edit(c) PROVE TypeOK'
  <1>1. PICK i \in Items : \/ \E choice \in Choices, sent \in Sent : Accept(c, i, choice, sent)
                           \/ \E sent \in Sent : Reject(c, i, sent)
                           \/ Reset(c, i)
    BY DEF Edit
  <1>2. Copy(c, i) \in Row
    BY CopyType
  <1>3. ASSUME NEW rows, \A k \in DOMAIN rows : rows[k] \in Row, Save(c, rows) PROVE TypeOK'
    BY <1>3, StoredType, ItemsOnlyType DEF Save
  <1>4. ASSUME NEW choice \in Choices, NEW sent \in Sent, Accept(c, i, choice, sent) PROVE TypeOK'
    <2>1. PICK r : r = Resolved(i, Copy(c, i), choice)
      OBVIOUS
    <2>2. r \in Row /\ Confirmed(r, sent) \in BOOLEAN
      BY <1>2, <2>1, ResolvedType, ConfirmedType
    <2>3. PICK new : new = [r EXCEPT !.status = "accepted", !.confirm = Confirmed(r, sent)]
      OBVIOUS
    <2>4. new \in Row
      BY <2>2, <2>3 DEF Row
    <2>5. Save(c, [k \in {i} |-> new])
      BY <1>4, <2>1, <2>3 DEF Accept
    <2> QED
      BY <1>3, <2>4, <2>5
  <1>5. ASSUME NEW sent \in Sent, Reject(c, i, sent) PROVE TypeOK'
    <2> DEFINE S == {i} \union {j \in ProjectItems : Parent[j] = i}
               rows == [k \in S |-> [Copy(c, k) EXCEPT !.status = "rejected",
                          !.confirm = IF k = i THEN Confirmed(Copy(c, i), sent) ELSE @]]
    <2>1. Save(c, rows) /\ DOMAIN rows = S
      BY <1>5 DEF Reject
    <2>2. Confirmed(Copy(c, i), sent) \in BOOLEAN
      BY <1>2, ConfirmedType
    <2>3. ASSUME NEW k \in S PROVE rows[k] \in Row
      <3>1. Copy(c, k) \in Row
        BY CopyType DEF Items
      <3>2. PICK copy : copy = Copy(c, k)
        OBVIOUS
      <3>3. PICK b \in BOOLEAN : b = IF k = i THEN Confirmed(Copy(c, i), sent) ELSE copy.confirm
        BY <2>2, <3>1, <3>2, RowIs
      <3>4. rows[k] = [copy EXCEPT !.status = "rejected", !.confirm = b]
        BY <3>1, <3>2, <3>3 DEF Row
      <3> HIDE DEF rows
      <3> QED
        BY <3>1, <3>2, <3>4 DEF Row
    <2> HIDE DEF rows
    <2> QED
      BY <1>3, <2>1, <2>3
  <1>6. CASE Reset(c, i)
    <2>1. PICK new : new = [Copy(c, i) EXCEPT !.status = "pending", !.confirm = FALSE]
      OBVIOUS
    <2>2. new \in Row
      BY <1>2, <2>1 DEF Row
    <2>3. Save(c, [k \in {i} |-> new])
      <3>1. [k \in {i} |-> [Copy(c, k) EXCEPT !.status = "pending", !.confirm = FALSE]] =
            [k \in {i} |-> new]
        BY <2>1
      <3> QED
        BY <1>6, <3>1 DEF Reset
    <2> QED
      BY <1>3, <2>2, <2>3
  <1> QED
    BY <1>1, <1>4, <1>5, <1>6

\* How many streams an item has is a number, at most MaxMade.
LEMMA MadeType ==
  ASSUME NEW j
  PROVE  Made(j) \in Nat /\ Made(j) <= MaxMade
  <1>1. {n \in 1..MaxMade : streams[j][n] # None} \in SUBSET (1..MaxMade)
    OBVIOUS
  <1>2. IsFiniteSet(1..MaxMade) /\ Cardinality(1..MaxMade) = MaxMade
    BY BoundsAssumption, FS_Interval
  <1> QED
    BY <1>1, <1>2, BoundsAssumption, FS_Subset, FS_CardinalityType DEF Made

LEMMA NamedType ==
  ASSUME NEW i \in LocationItems, NEW r \in Row
  PROVE  Named(i, r) \in Places
  BY ChoiceIs, ItemsAssumption DEF Named

LEMMA PlaceForType ==
  ASSUME TypeOK, NEW c \in Clients, NEW i \in LocationItems
  PROVE  PlaceFor(c, i) \in Places
  BY CopyType, NamedType, ItemsAssumption DEF PlaceFor, Items

\* What a finalize makes of the items T are places, finitely many.
LEMMA NewPlacesType ==
  ASSUME TypeOK, NEW c \in Clients, NEW T \in SUBSET Items, NEW anew \in BOOLEAN
  PROVE  /\ NewPlaces(c, T, anew) \subseteq Places
         /\ IsFiniteSet(NewPlaces(c, T, anew))
         /\ Cardinality(NewPlaces(c, T, anew)) \in Nat
  <1> DEFINE U == Unplaced(c, T, anew)
             O == {j \in Unmade(c, T, anew) \intersect Orphans : Copy(c, j).choice.mode = "create_new"}
             P == {PlaceFor(c, i) : i \in U}
             Q == {Copy(c, j).choice.at : j \in O}
  <1>1. U \subseteq LocationItems /\ U \subseteq Items /\ O \subseteq Items
    BY DEF Unplaced, Unmade, Accepted
  <1>2. P \subseteq Places
    BY <1>1, PlaceForType
  <1>3. Q \subseteq Places
    BY <1>1, CopyType, ChoiceIs
  <1>4. IsFiniteSet(P)
    <2> DEFINE f == [i \in U |-> PlaceFor(c, i)]
    <2>1. f \in Surjection(U, P)
      BY DEF Surjection
    <2>2. IsFiniteSet(U)
      BY <1>1, ItemsFinite
    <2> HIDE DEF f, U, P
    <2> QED
      BY <2>1, <2>2, FS_Surjection
  <1>5. IsFiniteSet(Q)
    <2> DEFINE f == [j \in O |-> Copy(c, j).choice.at]
    <2>1. f \in Surjection(O, Q)
      BY DEF Surjection
    <2>2. IsFiniteSet(O)
      BY <1>1, ItemsFinite
    <2> HIDE DEF f, O, Q
    <2> QED
      BY <2>1, <2>2, FS_Surjection
  <1>6. NewPlaces(c, T, anew) = (P \union Q) \ locations
    BY DEF NewPlaces
  <1> HIDE DEF P, Q
  <1>7. IsFiniteSet(P \union Q)
    BY <1>4, <1>5, FS_Union
  <1>8. IsFiniteSet(NewPlaces(c, T, anew))
    BY <1>6, <1>7, FS_Difference
  <1> QED
    BY <1>2, <1>3, <1>6, <1>8, FS_CardinalityType

LEMMA CountsType ==
  ASSUME NEW c, NEW T \in SUBSET Items, NEW anew
  PROVE  /\ IsFiniteSet(ToMake(c, T, anew)) /\ ToMake(c, T, anew) \subseteq ProjectItems
         /\ Cardinality(ToMake(c, T, anew)) \in Nat /\ Rejected(c, T) \in Nat
  <1>1. ToMake(c, T, anew) \in SUBSET Items /\ ToMake(c, T, anew) \subseteq ProjectItems
    BY DEF ToMake, Unmade, Accepted
  <1>2. {i \in T : Copy(c, i).status = "rejected"} \in SUBSET Items
    OBVIOUS
  <1> QED
    BY <1>1, <1>2, ItemsFinite DEF Rejected

\* Rows, locations and streams after a finalize has made what it makes.
MadeTypes ==
  /\ item' \in [Items -> Row]
  /\ locations' \subseteq Places
  /\ streams' \in [ProjectItems -> [0..MaxMade -> Places \union {None}]]
  /\ RequestsOK'

LEMMA NewRowsType ==
  ASSUME TypeOK, NEW c \in Clients, NEW T \in SUBSET Items, NEW anew \in BOOLEAN,
         Makeable(c, T, anew)
  PROVE  \A i \in DOMAIN NewRows(c, T, anew) : NewRows(c, T, anew)[i] \in Row
  <1> SUFFICES ASSUME NEW i \in Unplaced(c, T, anew) \union Unmade(c, T, anew)
               PROVE  NewRows(c, T, anew)[i] \in Row
      BY DEF NewRows
  <1>1. Copy(c, i) \in Row
    BY CopyType DEF Unplaced, Unmade, Accepted
  <1>2. CASE i \in LocationItems
    <2>1. NewRows(c, T, anew)[i] = [Copy(c, i) EXCEPT !.place = PlaceFor(c, i)]
      BY <1>2 DEF NewRows
    <2> QED
      BY <1>1, <1>2, <2>1, PlaceForType, RowIs
  <1>3. CASE i \notin LocationItems
    <2> DEFINE made == IF Mapped(c, i) THEN 0 ELSE Made(i) + 1
    <2>1. NewRows(c, T, anew)[i] = [Copy(c, i) EXCEPT !.stream = made]
      BY <1>3 DEF NewRows
    <2>2. i \in Unmade(c, T, anew)
      BY <1>3 DEF Unplaced
    <2>3. Mapped(c, i) \/ Made(i) < MaxMade
      BY <2>2 DEF Makeable
    <2>4. made \in 0..MaxMade
      BY <2>3, MadeType, BoundsAssumption
    <2> HIDE DEF made
    <2> QED
      BY <1>1, <2>1, <2>4, RowIs
  <1> QED
    BY <1>2, <1>3

LEMMA MakeType ==
  ASSUME TypeOK, NEW c \in Clients, NEW T \in SUBSET Items, NEW anew \in BOOLEAN,
         Make(c, T, anew)
  PROVE  MadeTypes
  <1>1. item' \in [Items -> Row]
    BY NewRowsType, StoredType DEF Make
  <1>2. locations' \subseteq Places
    BY NewPlacesType DEF Make, TypeOK
  <1>3. ASSUME NEW j \in ToMake(c, T, anew)
        PROVE  /\ Target(c, j, T, anew) \in Places
               /\ Made(j) + 1 \in 0..MaxMade
    <2>1. j \in Unmade(c, T, anew) /\ ~Mapped(c, j)
      BY <1>3 DEF ToMake
    <2>2. Target(c, j, T, anew) \in locations \union NewPlaces(c, T, anew) /\ Made(j) < MaxMade
      BY <2>1 DEF Make, Makeable
    <2> QED
      BY <2>2, NewPlacesType, MadeType, BoundsAssumption DEF TypeOK
  <1>4. streams' \in [ProjectItems -> [0..MaxMade -> Places \union {None}]]
    BY <1>3 DEF Make, TypeOK
  <1>5. RequestsOK'
    BY SeenType, DoneType DEF Make
  <1> QED
    BY <1>1, <1>2, <1>4, <1>5 DEF MadeTypes

LEMMA SummaryType ==
  ASSUME NEW places \in Nat, NEW made \in Nat, NEW rejected \in 0..MaxRejected
  PROVE  /\ SummaryOf(places, made, rejected) \in Summary
         /\ \A G \in SUBSET Groups :
              [SummaryOf(places, made, rejected) EXCEPT !.counted = G] \in Summary
  BY DEF SummaryOf, Summary

LEMMA AccumulatedType ==
  ASSUME TypeOK, NEW c \in Clients, NEW places \in Nat, NEW made \in Nat, NEW rejected \in Nat,
         request[c].run.summary.rejected + rejected <= MaxRejected
  PROVE  /\ Accumulated(c, places, made, rejected) \in Summary
         /\ \A G \in SUBSET Groups :
              [Accumulated(c, places, made, rejected) EXCEPT !.counted = G] \in Summary
  <1>1. PICK s \in Summary : s = request[c].run.summary
    BY SeenType
  <1>2. s.places \in Nat /\ s.streams \in Nat /\ s.rejected \in 0..MaxRejected
    BY DEF Summary
  <1>3. s.places + places \in Nat /\ s.streams + made \in Nat /\ s.rejected + rejected \in 0..MaxRejected
    BY <1>1, <1>2, BoundsAssumption
  <1>4. Accumulated(c, places, made, rejected) =
          SummaryOf(s.places + places, s.streams + made, s.rejected + rejected)
    BY <1>1 DEF Accumulated
  <1> QED
    BY <1>3, <1>4, SummaryType

LEMMA WholeType ==
  ASSUME TypeOK, NEW c \in Clients, FinalizeWhole(c) PROVE TypeOK'
  <1>1. Items \in SUBSET Items /\ TRUE \in BOOLEAN
    OBVIOUS
  <1>2. MadeTypes
    BY <1>1, MakeType DEF FinalizeWhole
  <1>3. Rejected(c, Items) \in 0..MaxRejected
    BY <1>1, CountsType, BoundsAssumption DEF FinalizeWhole
  <1>4. SummaryOf(Cardinality(NewPlaces(c, Items, TRUE)),
                  Cardinality(ToMake(c, Items, TRUE)), Rejected(c, Items)) \in Summary
    BY <1>1, <1>3, CountsType, NewPlacesType, SummaryType
  <1>5. run' \in Run
    BY <1>4, StoredRunType DEF FinalizeWhole
  <1> QED
    BY <1>2, <1>5 DEF FinalizeWhole, MadeTypes, RequestsOK, TypeOK

LEMMA MembersType ==
  ASSUME NEW G PROVE Members(G) \in SUBSET Items
  BY DEF Members

LEMMA SubsetType ==
  ASSUME TypeOK, NEW c \in Clients, NEW G \in SUBSET Groups, FinalizeSubset(c, G) PROVE TypeOK'
  <1> DEFINE T == Members(G)
             seen == request[c].run.summary.counted
             rejected == Rejected(c, Members(Uncounted(c, G)))
             open == StillOpen(c, NewRows(c, T, FALSE))
             places == Cardinality(NewPlaces(c, T, FALSE))
             made == Cardinality(ToMake(c, T, FALSE))
             summary == [Accumulated(c, places, made, rejected) EXCEPT !.counted = seen \union G]
  <1>1. T \in SUBSET Items /\ FALSE \in BOOLEAN
    BY MembersType
  <1>2. MadeTypes
    BY <1>1, MakeType DEF FinalizeSubset
  <1>3. places \in Nat /\ made \in Nat /\ rejected \in Nat
    BY <1>1, MembersType, CountsType, NewPlacesType
  <1>4. seen \union G \in SUBSET Groups
    BY SeenType DEF Summary
  <1>5. /\ request[c].run.summary.rejected + rejected <= MaxRejected
        /\ run' = StoredRun(c, RunStatus(open), summary)
        /\ UNCHANGED <<source, voice, candidate, answer>>
    BY DEF FinalizeSubset
  <1> HIDE DEF T, seen, rejected, open, places, made
  <1>6. summary \in Summary
    BY <1>3, <1>4, <1>5, AccumulatedType
  <1> HIDE DEF summary
  <1>7. run' \in Run
    BY <1>5, <1>6, RunStatusType, StoredRunType
  <1> QED
    BY <1>2, <1>5, <1>7 DEF MadeTypes, RequestsOK, TypeOK

LEMMA VoiceType ==
  ASSUME TypeOK, NEW c \in Clients, NEW G \in SUBSET Groups, NEW k \in Keys, FinalizeVoice(c, G, k)
  PROVE  TypeOK'
  <1> DEFINE T == Members(G)
             open == StillOpen(c, NewRows(c, T, FALSE))
             places == Cardinality(NewPlaces(c, T, FALSE))
             made == Cardinality(ToMake(c, T, FALSE))
  <1>1. T \in SUBSET Items /\ FALSE \in BOOLEAN
    BY MembersType
  <1>2. MadeTypes
    BY <1>1, MakeType DEF FinalizeVoice
  <1>3. places \in Nat /\ made \in Nat /\ Rejected(c, T) \in 0..MaxRejected
    <2>1. Rejected(c, T) <= MaxRejected
      BY DEF FinalizeVoice
    <2>2. places \in Nat /\ made \in Nat /\ Rejected(c, T) \in Nat
      BY <1>1, CountsType, NewPlacesType
    <2> HIDE DEF T, places, made
    <2> QED
      BY <2>1, <2>2, BoundsAssumption
  <1>4. /\ voice' = VoiceStatus(open)
        /\ run' = StoredRun(c, RunStatus(open), SummaryOf(places, made, Rejected(c, T)))
        /\ answer' = [answer EXCEPT ![k] = [given |-> TRUE, groups |-> G, streams |-> made]]
        /\ UNCHANGED <<source, candidate>>
    BY DEF FinalizeVoice
  <1> HIDE DEF T, open, places, made
  <1>5. SummaryOf(places, made, Rejected(c, T)) \in Summary
    BY <1>3, SummaryType
  <1>6. run' \in Run
    BY <1>4, <1>5, RunStatusType, StoredRunType
  <1>7. voice' \in {"partial_finalized", "finalized"}
    BY <1>4 DEF VoiceStatus
  <1>8. answer' \in [Keys -> [given : BOOLEAN, groups : SUBSET Groups, streams : Nat]]
    BY <1>3, <1>4 DEF TypeOK
  <1> QED
    BY <1>2, <1>4, <1>6, <1>7, <1>8 DEF MadeTypes, RequestsOK, TypeOK

\* Only the run's status, its items, its streams and the request change.
LEMMA OrphansType ==
  ASSUME TypeOK, NEW c \in Clients, Orphaned(c) PROVE TypeOK'
  <1>1. PICK J \in SUBSET Orphans \ {{}}, p \in Places, last \in Orphans \union {None} :
          ImportOrphans(c, J, p, last)
    BY DEF Orphaned
  <1> DEFINE new == {j \in J : Copy(c, j).stream = None}
             rows == [j \in new |-> [Copy(c, j) EXCEPT !.stream = Made(j) + 1]]
  <1>2. ASSUME NEW j \in new
        PROVE  /\ j \in ProjectItems /\ Made(j) + 1 \in 0..MaxMade /\ rows[j] \in Row
    <2>1. j \in ProjectItems /\ j \in Items
      BY <1>1 DEF Orphans, Items
    <2>2. Made(j) < MaxMade
      BY <1>1 DEF ImportOrphans
    <2>3. Made(j) + 1 \in 0..MaxMade
      BY <2>2, MadeType, BoundsAssumption
    <2>4. Copy(c, j) \in Row
      BY <2>1, CopyType
    <2> QED
      BY <2>1, <2>3, <2>4, RowIs
  <1>3. /\ item' = Stored(c, rows) /\ DOMAIN rows = new
        /\ p \in locations /\ Done(c)
        /\ streams' = [j \in ProjectItems |->
             IF j \in new THEN [streams[j] EXCEPT ![Made(j) + 1] = p] ELSE streams[j]]
        /\ UNCHANGED <<source, voice, candidate, locations, answer>>
    BY <1>1 DEF ImportOrphans
  <1>4. PICK status : run' = [run EXCEPT !.status = status]
                      /\ (status = run.status \/ status = "completed")
    BY <1>1 DEF ImportOrphans, Written
  <1> HIDE DEF new, rows
  <1>5. run' \in Run
    BY <1>4 DEF TypeOK, Run
  <1>6. item' \in [Items -> Row]
    BY <1>2, <1>3, StoredType
  <1>7. streams' \in [ProjectItems -> [0..MaxMade -> Places \union {None}]]
    BY <1>2, <1>3 DEF TypeOK
  <1>8. RequestsOK'
    BY <1>3, SeenType, DoneType
  <1> QED
    BY <1>3, <1>5, <1>6, <1>7, <1>8 DEF RequestsOK, TypeOK

LEMMA SettleType ==
  ASSUME TypeOK, NEW c \in Clients, NEW places \in Nat, NEW made \in Nat, NEW rejected \in Nat,
         request[c].run.summary.rejected + rejected <= MaxRejected,
         Settle(c, places, made, rejected)
  PROVE  run' \in Run /\ voice' \in {"none", "review_ready", "partial_finalized", "finalized"}
  <1>1. PICK open : /\ run' = StoredRun(c, RunStatus(open), Accumulated(c, places, made, rejected))
                    /\ voice' = IF source = "voice_interview" THEN VoiceStatus(open) ELSE voice
    BY DEF Settle
  <1>2. run' \in Run
    BY <1>1, AccumulatedType, RunStatusType, StoredRunType
  <1> QED
    BY <1>1, <1>2 DEF VoiceStatus, TypeOK

LEMMA RejectDraftType ==
  ASSUME TypeOK, NEW c \in Clients, NEW j \in ProjectItems, RejectDraft(c, j) PROVE TypeOK'
  <1> DEFINE rows == [k \in {j} |-> [Copy(c, j) EXCEPT !.status = "rejected"]]
  <1>1. /\ item' = Stored(c, rows) /\ DOMAIN rows = {j}
        /\ request[c].run.summary.rejected < MaxRejected
        /\ Settle(c, 0, 0, 1) /\ Done(c)
        /\ UNCHANGED <<source, candidate, locations, streams, answer>>
    BY DEF RejectDraft
  <1>2. rows[j] \in Row
    BY CopyType, RowIs DEF Items, Statuses
  <1> HIDE DEF rows
  <1>3. item' \in [Items -> Row]
    BY <1>1, <1>2, StoredType
  <1>4. request[c].run.summary.rejected \in 0..MaxRejected
    BY SeenType DEF Summary
  <1>5. 0 \in Nat /\ 1 \in Nat /\ request[c].run.summary.rejected + 1 <= MaxRejected
    BY <1>1, <1>4, BoundsAssumption
  <1>6. run' \in Run /\ voice' \in {"none", "review_ready", "partial_finalized", "finalized"}
    BY <1>1, <1>5, SettleType
  <1>7. RequestsOK'
    BY <1>1, SeenType, DoneType
  <1> QED
    BY <1>1, <1>3, <1>6, <1>7 DEF RequestsOK, TypeOK

LEMMA ConfirmDraftType ==
  ASSUME TypeOK, NEW c \in Clients, NEW j \in ProjectItems, NEW choice \in Choices,
         NEW sent \in Sent, ConfirmDraft(c, j, choice, sent)
  PROVE  TypeOK'
  <1> DEFINE r == Resolved(j, Copy(c, j), choice)
             draft == [r EXCEPT !.status = "accepted", !.confirm = Confirmed(r, sent),
                                !.stream = Made(j) + 1]
             linked == Parent[j] # None
             kept == linked /\ item[Parent[j]].place # None
             above == Resolved(Parent[j], item[Parent[j]], choice)
             at == IF kept THEN item[Parent[j]].place
                   ELSE IF linked THEN ParentPlace(Parent[j], above) ELSE draft.choice.at
             rows == [k \in {j} \union ({Parent[j]} \ {None}) |->
                       IF k = j THEN draft ELSE IF kept THEN above ELSE [above EXCEPT !.place = at]]
  <1>1. /\ linked \/ draft.choice # NoChoice
        /\ Made(j) < MaxMade
        /\ item' = Stored(c, rows)
        /\ locations' = locations \union {at}
        /\ streams' = [streams EXCEPT ![j][Made(j) + 1] = at]
        /\ Settle(c, Cardinality({at} \ locations), 1, 0)
        /\ Done(c)
        /\ UNCHANGED <<source, candidate, answer>>
    BY DEF ConfirmDraft
  <1>2. r \in Row /\ Confirmed(r, sent) \in BOOLEAN
    BY CopyType, ResolvedType, ConfirmedType DEF Items
  <1>3. Made(j) + 1 \in 0..MaxMade
    BY <1>1, MadeType, BoundsAssumption
  <1>4. draft \in Row
    <2> HIDE DEF r
    <2>1. PICK confirm \in BOOLEAN, n \in 0..MaxMade :
            confirm = Confirmed(r, sent) /\ n = Made(j) + 1
      BY <1>2, <1>3
    <2>2. draft = [r EXCEPT !.status = "accepted", !.confirm = confirm, !.stream = n]
      BY <2>1
    <2> HIDE DEF draft
    <2> QED
      BY <1>2, <2>1, <2>2 DEF Row
  <1>5. linked => /\ Parent[j] \in LocationItems /\ Parent[j] \in Items
                  /\ item[Parent[j]] \in Row /\ above \in Row
    BY ItemsAssumption, ResolvedType DEF Items, TypeOK
  <1> HIDE DEF above, draft, r
  <1>6. at \in Places
    <2>1. CASE kept
      BY <1>5, <2>1 DEF Row
    <2>2. CASE linked /\ ~kept
      <3>1. ParentPlace(Parent[j], above) \in Places
        BY <1>5, <2>2, NamedType, ItemsAssumption DEF ParentPlace
      <3> QED
        BY <2>2, <3>1
    <2>3. CASE ~linked
      <3>1. draft.choice \in Sendable
        BY <1>1, <1>4, <2>3, RowIs DEF Choices
      <3> QED
        BY <2>3, <3>1, SentAssumption
    <2> QED
      BY <2>1, <2>2, <2>3
  <1>7. \A k \in DOMAIN rows : rows[k] \in Row
    <2> HIDE DEF at, kept
    <2>1. linked => [above EXCEPT !.place = at] \in Row
      BY <1>5, <1>6, RowIs
    <2> QED
      BY <1>4, <1>5, <2>1
  <1> HIDE DEF rows, at
  <1>8. item' \in [Items -> Row]
    BY <1>1, <1>7, StoredType
  <1>9. streams' \in [ProjectItems -> [0..MaxMade -> Places \union {None}]]
    BY <1>1, <1>3, <1>6 DEF TypeOK
  <1>10. Cardinality({at} \ locations) \in Nat
    <2>1. IsFiniteSet({at})
      BY FS_Singleton
    <2> QED
      BY <2>1, FS_Difference, FS_CardinalityType
  <1>11. 1 \in Nat /\ 0 \in Nat /\ request[c].run.summary.rejected + 0 <= MaxRejected
    <2>1. request[c].run.summary.rejected \in 0..MaxRejected
      BY SeenType DEF Summary
    <2> QED
      BY <2>1, BoundsAssumption
  <1>12. run' \in Run /\ voice' \in {"none", "review_ready", "partial_finalized", "finalized"}
    BY <1>1, <1>10, <1>11, SettleType
  <1>13. RequestsOK'
    BY <1>1, SeenType, DoneType
  <1> QED
    BY <1>1, <1>6, <1>8, <1>9, <1>12, <1>13 DEF RequestsOK, TypeOK

LEMMA LoadType ==
  ASSUME TypeOK, NEW c \in Clients, LoadRun(c) \/ \E i \in Items : LoadItem(c, i) PROVE TypeOK'
  <1> DEFINE Opens ==
        /\ UNCHANGED <<source, run, voice, item, candidate, locations, streams, answer>>
        /\ \E q : /\ request' = [request EXCEPT ![c] = q]
                  /\ q.op \in {"none", "item", "run"} /\ q.of \in Items \union {None}
                  /\ q.run \in Run /\ q.items \in [Loaded(q) -> Row]
  <1>1. Opens
    <2>1. CASE LoadRun(c)
      <3>1. PICK q : q = [op |-> "run", of |-> None, run |-> run, items |-> item]
        OBVIOUS
      <3>2. q.op = "run" /\ q.of = None /\ q.run = run /\ q.items = item
        BY <3>1
      <3>3. Loaded(q) = Items
        BY <3>2 DEF Loaded
      <3>4. q.run \in Run /\ q.items \in [Loaded(q) -> Row]
        BY <3>2, <3>3 DEF TypeOK
      <3> QED
        BY <2>1, <3>1, <3>2, <3>4 DEF LoadRun
    <2>2. ASSUME NEW i \in Items, LoadItem(c, i) PROVE Opens
      <3>1. PICK q : q = [op |-> "item", of |-> i, run |-> run, items |-> [k \in {i} |-> item[k]]]
        OBVIOUS
      <3>2. q.op = "item" /\ q.of = i /\ q.run = run /\ q.items = [k \in {i} |-> item[k]]
        BY <3>1
      <3>3. Loaded(q) = {i}
        BY <3>2 DEF Loaded
      <3>4. q.run \in Run /\ q.items \in [Loaded(q) -> Row]
        BY <3>2, <3>3 DEF TypeOK
      <3> QED
        BY <2>2, <3>1, <3>2, <3>4 DEF LoadItem
    <2> QED
      BY <2>1, <2>2
  <1>2. RequestsOK'
    BY <1>1 DEF TypeOK, RequestsOK
  <1> QED
    BY <1>1, <1>2 DEF RequestsOK, TypeOK

LEMMA NextType == TypeOK /\ [Next]_vars => TypeOK'
  <1> SUFFICES ASSUME TypeOK, [Next]_vars PROVE TypeOK'
      OBVIOUS
  <1>1. ASSUME NEW c \in Clients, Leave(c) PROVE TypeOK'
    <2>1. RequestsOK'
      BY <1>1, SeenType, DoneType DEF Leave
    <2> QED
      BY <1>1, <2>1 DEF Leave, RequestsOK, TypeOK
  <1>2. ASSUME NEW c \in Clients, Finalize(c) PROVE TypeOK'
    BY <1>2, WholeType, SubsetType, VoiceType DEF Finalize
  <1>3. ASSUME NEW c \in Clients, Decide(c) PROVE TypeOK'
    BY <1>3, RejectDraftType, ConfirmDraftType DEF Decide
  <1>4. ASSUME NEW p \in Places, AddLocation(p) PROVE TypeOK'
    BY <1>4 DEF AddLocation, TypeOK
  <1>5. ASSUME NEW j \in ProjectItems, NEW p \in Places, AddStream(j, p) PROVE TypeOK'
    <2>1. 0 \in 0..MaxMade
      BY BoundsAssumption
    <2> QED
      BY <1>5, <2>1 DEF AddStream, TypeOK
  <1>6. CASE UNCHANGED vars
    BY <1>6 DEF vars, TypeOK, Loaded
  <1> QED
    BY <1>1, <1>2, <1>3, <1>4, <1>5, <1>6, LoadType, EditType, OrphansType DEF Next

LEMMA InitType == Init => TypeOK
  <1> SUFFICES ASSUME Init PROVE TypeOK
      OBVIOUS
  <1>1. item \in [Items -> Row]
    <2>1. [status : {"pending", "invalid"}, confirm : {FALSE}, choice : {NoChoice},
           place : {None}, stream : {None}] \subseteq Row
      BY DEF Row, Choices
    <2> QED
      BY <2>1 DEF Init
  <1>2. streams \in [ProjectItems -> [0..MaxMade -> Places \union {None}]]
    <2>1. locations \subseteq Places
      BY DEF Init
    <2> QED
      BY <2>1 DEF Init
  <1>3. answer \in [Keys -> [given : BOOLEAN, groups : SUBSET Groups, streams : Nat]]
    BY DEF Init, NoAnswer
  <1>4. RequestsOK
    BY IdleType DEF Init, RequestsOK
  <1> QED
    BY <1>1, <1>2, <1>3, <1>4, NewRunType DEF Init, RequestsOK, TypeOK

\* Rows, copies, summaries and answers keep their types, for requests that
\* overlap in any way: a status or a stream that a stale copy writes back is
\* still one, and what is made of accepted items is made at places that exist.
THEOREM TypeCorrect == Spec => []TypeOK
  <1> QED
    BY InitType, NextType, PTL DEF Spec

-----------------------------------------------------------------------------
(* What is counted: the streams of an item fill its slots in order, so that  *)
(* each request adds one to the total for each item it makes a stream of.    *)

Filled(j) == {n \in 1..MaxMade : streams[j][n] # None}
FilledInOrder == \A j \in ProjectItems : \E m \in 0..MaxMade : Filled(j) = 1..m

MInv == TypeOK /\ FilledInOrder

\* A step makes one stream of each item of J, in its next slot, and no other.
Adds(J) ==
  /\ J \in SUBSET ProjectItems
  /\ \A j \in J : Made(j) < MaxMade
  /\ \A j \in ProjectItems, n \in 1..MaxMade :
       streams'[j][n] # None <=> streams[j][n] # None \/ (j \in J /\ n = Made(j) + 1)

LEMMA NextSlot ==
  ASSUME FilledInOrder, NEW j \in ProjectItems
  PROVE  /\ Made(j) \in 0..MaxMade
         /\ Filled(j) = 1..Made(j)
  <1>1. PICK m \in 0..MaxMade : Filled(j) = 1..m
    BY DEF FilledInOrder
  <1>2. Cardinality(1..m) = m
    BY <1>1, BoundsAssumption, FS_Interval
  <1>3. Made(j) = m
    BY <1>1, <1>2 DEF Made, Filled
  <1> QED
    BY <1>1, <1>3

LEMMA TotalType == Total \in Nat
  <1> DEFINE A == ProjectItems \X (1..MaxMade)
             M == {m \in A : streams[m[1]][m[2]] # None}
  <1>1. IsFiniteSet(1..MaxMade)
    BY BoundsAssumption, FS_Interval
  <1>2. IsFiniteSet(A)
    BY <1>1, ItemsAssumption, FS_Product
  <1>3. M \in SUBSET A
    OBVIOUS
  <1> HIDE DEF A
  <1>4. IsFiniteSet(M) /\ Cardinality(M) \in Nat
    BY <1>2, <1>3, FS_Subset, FS_CardinalityType
  <1> QED
    BY <1>4 DEF Total, A

LEMMA AddsCount ==
  ASSUME FilledInOrder, NEW J, Adds(J)
  PROVE  FilledInOrder' /\ Total' = Total + Cardinality(J)
  <1>1. FilledInOrder'
    <2> SUFFICES ASSUME NEW j \in ProjectItems PROVE \E m \in 0..MaxMade : Filled(j)' = 1..m
        BY DEF FilledInOrder
    <2>1. Made(j) \in 0..MaxMade /\ Filled(j) = 1..Made(j)
      BY NextSlot
    <2>2. CASE j \in J
      <3>1. Made(j) < MaxMade
        BY <2>2 DEF Adds
      <3>2. \A n \in 1..MaxMade : streams'[j][n] # None <=> n \in 1..Made(j) \/ n = Made(j) + 1
        BY <2>1, <2>2 DEF Adds, Filled
      <3>3. Made(j) + 1 \in 0..MaxMade
        BY <2>1, <3>1, BoundsAssumption
      <3>4. Filled(j)' = 1..(Made(j) + 1)
        <4>1. Filled(j)' = {n \in 1..MaxMade : streams'[j][n] # None}
          BY DEF Filled
        <4>2. ASSUME NEW n PROVE n \in Filled(j)' <=> n \in 1..(Made(j) + 1)
          BY <2>1, <3>2, <3>3, <4>1, BoundsAssumption
        <4> QED
          BY <4>2
      <3> QED
        BY <3>3, <3>4
    <2>3. CASE j \notin J
      <3>1. Filled(j)' = Filled(j)
        BY <2>3 DEF Adds, Filled
      <3> QED
        BY <2>1, <3>1
    <2> QED
      BY <2>2, <2>3
  <1> DEFINE A == ProjectItems \X (1..MaxMade)
             M == {m \in A : streams[m[1]][m[2]] # None}
             Mnext == {m \in A : streams'[m[1]][m[2]] # None}
             N == {<<j, Made(j) + 1>> : j \in J}
             f == [j \in J |-> <<j, Made(j) + 1>>]
  <1>2. \A j \in J : /\ j \in ProjectItems /\ Made(j) + 1 \in 1..MaxMade
                     /\ streams[j][Made(j) + 1] = None
    <2> SUFFICES ASSUME NEW j \in J
                 PROVE  /\ j \in ProjectItems /\ Made(j) + 1 \in 1..MaxMade
                        /\ streams[j][Made(j) + 1] = None
        OBVIOUS
    <2>1. j \in ProjectItems /\ Made(j) < MaxMade
      BY DEF Adds
    <2>2. Made(j) \in 0..MaxMade /\ Filled(j) = 1..Made(j)
      BY <2>1, NextSlot
    <2>3. Made(j) + 1 \in 1..MaxMade /\ Made(j) + 1 \notin 1..Made(j)
      BY <2>1, <2>2, BoundsAssumption
    <2> QED
      BY <2>1, <2>2, <2>3 DEF Filled
  <1>3. N \subseteq A /\ M \intersect N = {}
    BY <1>2
  <1>4. Mnext = M \union N
    <2>1. ASSUME NEW j \in ProjectItems, NEW n \in 1..MaxMade
          PROVE  <<j, n>> \in Mnext <=> <<j, n>> \in M \/ <<j, n>> \in N
      BY <2>1 DEF Adds
    <2> QED
      BY <1>3, <2>1
  <1>5. IsFiniteSet(J) /\ IsFiniteSet(M)
    <2>1. IsFiniteSet(1..MaxMade)
      BY BoundsAssumption, FS_Interval
    <2>2. IsFiniteSet(A)
      BY <2>1, ItemsAssumption, FS_Product
    <2>3. M \in SUBSET A
      OBVIOUS
    <2> HIDE DEF A, M
    <2> QED
      BY <2>2, <2>3, ItemsAssumption, FS_Subset DEF Adds
  <1>6. f \in Bijection(J, N)
    BY DEF Bijection, Injection, Surjection, IsInjective
  <1>7. Total = Cardinality(M) /\ Total' = Cardinality(Mnext)
    BY DEF Total
  <1> HIDE DEF A, M, N, Mnext, f
  <1>8. IsFiniteSet(N) /\ Cardinality(N) = Cardinality(J)
    BY <1>5, <1>6, FS_Bijection DEF ExistsBijection
  <1>9. Cardinality(Mnext) = Cardinality(M) + Cardinality(N) - Cardinality({})
    BY <1>3, <1>4, <1>5, <1>8, FS_Union
  <1>10. Cardinality(M) \in Nat /\ Cardinality(N) \in Nat /\ Cardinality({}) = 0
    BY <1>5, <1>8, FS_CardinalityType, FS_EmptySet
  <1> QED
    BY <1>1, <1>7, <1>8, <1>9, <1>10

LEMMA NoneAdded ==
  ASSUME FilledInOrder, Adds({}) PROVE FilledInOrder' /\ Total' = Total
  BY AddsCount, FS_EmptySet, TotalType

LEMMA SlotsOf ==
  ASSUME TypeOK, NEW j \in ProjectItems, NEW n \in 1..MaxMade PROVE n \in DOMAIN streams[j]
  <1>1. streams[j] \in [0..MaxMade -> Places \union {None}]
    BY DEF TypeOK
  <1>2. n \in 0..MaxMade
    BY BoundsAssumption
  <1> QED
    BY <1>1, <1>2

LEMMA MakeAdds ==
  ASSUME TypeOK, NEW c \in Clients, NEW T \in SUBSET Items, NEW anew \in BOOLEAN,
         Make(c, T, anew)
  PROVE  /\ Adds(ToMake(c, T, anew))
         /\ locations' \ locations = NewPlaces(c, T, anew)
  <1>1. ToMake(c, T, anew) \in SUBSET ProjectItems
    BY CountsType
  <1>2. ASSUME NEW j \in ToMake(c, T, anew)
        PROVE  /\ Target(c, j, T, anew) # None
               /\ Made(j) < MaxMade
    <2>1. j \in Unmade(c, T, anew) /\ ~Mapped(c, j)
      BY <1>2 DEF ToMake
    <2>2. Target(c, j, T, anew) \in locations \union NewPlaces(c, T, anew) /\ Made(j) < MaxMade
      BY <2>1 DEF Make, Makeable
    <2> QED
      BY <2>2, NewPlacesType, ItemsAssumption DEF TypeOK
  <1>3. ASSUME NEW j \in ProjectItems, NEW n \in 1..MaxMade
        PROVE  streams'[j][n] # None <=>
                 streams[j][n] # None \/ (j \in ToMake(c, T, anew) /\ n = Made(j) + 1)
    <2>1. streams'[j] = IF j \in ToMake(c, T, anew)
                        THEN [streams[j] EXCEPT ![Made(j) + 1] = Target(c, j, T, anew)]
                        ELSE streams[j]
      BY DEF Make
    <2>2. n \in DOMAIN streams[j]
      BY SlotsOf
    <2> QED
      BY <1>2, <2>1, <2>2
  <1>4. locations' \ locations = NewPlaces(c, T, anew)
    BY DEF Make, NewPlaces
  <1> QED
    BY <1>1, <1>2, <1>3, <1>4 DEF Adds

LEMMA OrphansAdd ==
  ASSUME TypeOK, NEW c \in Clients, Orphaned(c) PROVE \E J : Adds(J)
  <1>1. PICK J \in SUBSET Orphans \ {{}}, p \in Places, last \in Orphans \union {None} :
          ImportOrphans(c, J, p, last)
    BY DEF Orphaned
  <1> DEFINE new == {j \in J : Copy(c, j).stream = None}
  <1>2. /\ new \in SUBSET ProjectItems /\ p # None
        /\ \A j \in new : Made(j) < MaxMade
    BY <1>1, ItemsAssumption DEF ImportOrphans, Orphans
  <1>3. streams' = [j \in ProjectItems |->
          IF j \in new THEN [streams[j] EXCEPT ![Made(j) + 1] = p] ELSE streams[j]]
    BY <1>1 DEF ImportOrphans
  <1> HIDE DEF new
  <1>4. ASSUME NEW j \in ProjectItems, NEW n \in 1..MaxMade
        PROVE  streams'[j][n] # None <=> streams[j][n] # None \/ (j \in new /\ n = Made(j) + 1)
    <2>1. n \in DOMAIN streams[j]
      BY SlotsOf
    <2> QED
      BY <1>2, <1>3, <2>1
  <1>5. Adds(new)
    BY <1>2, <1>4 DEF Adds
  <1> QED
    BY <1>5

LEMMA ConfirmAdds ==
  ASSUME TypeOK, NEW c \in Clients, NEW j \in ProjectItems, NEW choice \in Choices,
         NEW sent \in Sent, ConfirmDraft(c, j, choice, sent)
  PROVE  /\ Adds({j})
         /\ Settle(c, Cardinality(locations' \ locations), 1, 0)
  <1>1. PICK at : /\ locations' = locations \union {at}
                  /\ streams' = [streams EXCEPT ![j][Made(j) + 1] = at]
                  /\ Settle(c, Cardinality({at} \ locations), 1, 0)
                  /\ Made(j) < MaxMade
    BY DEF ConfirmDraft
  <1>2. TypeOK'
    BY ConfirmDraftType
  <1>3. at # None
    BY <1>1, <1>2, ItemsAssumption DEF TypeOK
  <1>4. ASSUME NEW k \in ProjectItems, NEW n \in 1..MaxMade
        PROVE  streams'[k][n] # None <=> streams[k][n] # None \/ (k \in {j} /\ n = Made(j) + 1)
    <2>1. n \in DOMAIN streams[k] /\ k \in DOMAIN streams
      BY SlotsOf DEF TypeOK
    <2> QED
      BY <1>1, <1>3, <2>1
  <1>5. locations' \ locations = {at} \ locations
    BY <1>1
  <1> QED
    BY <1>1, <1>4, <1>5 DEF Adds

\* A step that leaves the slots of the streams made from items adds none.
LEMMA OthersAddNone ==
  ASSUME TypeOK, NEW c \in Clients
  PROVE  /\ Edit(c) => Adds({})
         /\ \A j \in ProjectItems : RejectDraft(c, j) => Adds({})
         /\ LoadRun(c) \/ Leave(c) => Adds({})
         /\ \A i \in Items : LoadItem(c, i) => Adds({})
  <1>1. ASSUME streams' = streams PROVE Adds({})
    BY <1>1 DEF Adds
  <1>2. Edit(c) => streams' = streams
    BY DEF Edit, Accept, Reject, Reset, Save
  <1> QED
    BY <1>1, <1>2 DEF RejectDraft, LoadRun, Leave, LoadItem

LEMMA BystandersAddNone ==
  ASSUME TypeOK
  PROVE  /\ \A p \in Places : AddLocation(p) => Adds({})
         /\ \A j \in ProjectItems, p \in Places : AddStream(j, p) => Adds({})
         /\ UNCHANGED vars => Adds({})
  <1>1. ASSUME streams' = streams PROVE Adds({})
    BY <1>1 DEF Adds
  <1>2. ASSUME NEW j \in ProjectItems, NEW p \in Places, AddStream(j, p) PROVE Adds({})
    <2>1. streams' = [streams EXCEPT ![j][0] = p]
      BY <1>2 DEF AddStream
    <2>2. \A k \in ProjectItems, n \in 1..MaxMade : streams'[k][n] = streams[k][n]
      BY <2>1 DEF TypeOK
    <2> QED
      BY <2>2 DEF Adds
  <1> QED
    BY <1>1, <1>2 DEF AddLocation, vars

\* Every step adds streams to items in their next slots, or none; which commits
\* add any.
Counted ==
  \/ Adds({})
  \/ \E c \in Clients : Orphaned(c) \/ Decide(c) \/ Finalize(c)

LEMMA NextCounted ==
  ASSUME TypeOK, [Next]_vars PROVE Counted /\ \E J : Adds(J)
  <1>1. ASSUME NEW c \in Clients, Finalize(c) PROVE \E J : Adds(J)
    <2>1. Items \in SUBSET Items /\ TRUE \in BOOLEAN /\ FALSE \in BOOLEAN
      OBVIOUS
    <2>2. \/ Make(c, Items, TRUE)
          \/ \E G : Make(c, Members(G), FALSE)
      BY <1>1 DEF Finalize, FinalizeWhole, FinalizeSubset, FinalizeVoice
    <2> QED
      BY <2>1, <2>2, MembersType, MakeAdds
  <1>2. ASSUME NEW c \in Clients, Decide(c) PROVE \E J : Adds(J)
    BY <1>2, ConfirmAdds, OthersAddNone DEF Decide
  <1> QED
    BY <1>1, <1>2, OrphansAdd, OthersAddNone, BystandersAddNone DEF Next, Counted

LEMMA NextMInv == MInv /\ [Next]_vars => MInv'
  BY NextType, NextCounted, AddsCount DEF MInv

LEMMA InitMInv == Init => MInv
  <1> SUFFICES ASSUME Init PROVE FilledInOrder
      BY InitType DEF MInv
  <1> SUFFICES ASSUME NEW j \in ProjectItems PROVE Filled(j) = 1..0 /\ 0 \in 0..MaxMade
      BY DEF FilledInOrder
  <1> DEFINE ByHand == {[n \in 0..MaxMade |-> IF n = 0 THEN p ELSE None] : p \in locations \union {None}}
  <1>0. streams \in [ProjectItems -> ByHand]
    BY DEF Init
  <1>1. PICK p : streams[j] = [n \in 0..MaxMade |-> IF n = 0 THEN p ELSE None]
    <2>1. streams[j] \in ByHand
      BY <1>0
    <2> QED
      BY <2>1
  <1>2. Filled(j) = {}
    BY <1>1, BoundsAssumption DEF Filled
  <1> QED
    BY <1>2, BoundsAssumption

-----------------------------------------------------------------------------
(* The summary of a bulk run.                                                *)

CInv == IInv /\ RowsLike /\ MInv

\* A commit whose copy of the run is current writes the summary it means to.
LEMMA SummaryWritten ==
  ASSUME NEW c \in Clients, request[c].run = run, NEW status, NEW summary
  PROVE  StoredRun(c, status, summary).summary = summary
  BY DEF StoredRun, Written

\* A request on a bulk run sees the current rows.
LEMMA BulkIsCurrent ==
  ASSUME IInv, source = "bulk_import", NEW c \in Clients, request[c].op # "none"
  PROVE  request[c].run = run /\ \A i : Copy(c, i) = item[i]
  <1>1. request[c] # Idle /\ Alone(c)
    BY DEF Idle, Alone
  <1> QED
    BY <1>1, CopyIsCurrent DEF IInv, CopiesCurrent

LEMMA AccumulatedCounts ==
  ASSUME NEW c, NEW places, NEW made, NEW rejected
  PROVE  LET new == Accumulated(c, places, made, rejected)
         IN /\ new.given /\ new.counted = {}
            /\ new.streams = request[c].run.summary.streams + made
            /\ new.places = request[c].run.summary.places + places
            /\ new.rejected = request[c].run.summary.rejected + rejected
            /\ \A G : LET counting == [new EXCEPT !.counted = G]
                      IN /\ counting.given /\ counting.counted = G
                         /\ counting.streams = new.streams
                         /\ counting.places = new.places
                         /\ counting.rejected = new.rejected
  BY DEF Accumulated, SummaryOf

\* The numbers of the summary after a step: they were those of before, and the
\* step counts these rejections.
GrowsFrom(before, rejections) ==
  /\ run'.summary.given
  /\ run'.summary.streams = before.streams + (Total' - Total)
  /\ run'.summary.places = before.places + Cardinality(locations' \ locations)
  /\ run'.summary.rejected = before.rejected + Cardinality(rejections)

\* Finalizing the whole run writes what it made, and all rejections of the run.
LEMMA WholeCounts ==
  ASSUME CInv, source = "bulk_import", NEW c \in Clients, FinalizeWhole(c)
  PROVE  GrowsFrom(NoSummary, {i \in Items : item[i].status = "rejected"})
  <1> DEFINE places == Cardinality(NewPlaces(c, Items, TRUE))
             made == Cardinality(ToMake(c, Items, TRUE))
             rejected == Rejected(c, Items)
             new == SummaryOf(places, made, rejected)
  <1>1. Make(c, Items, TRUE) /\ run' = StoredRun(c, "completed", new)
    BY DEF FinalizeWhole
  <1>2. request[c].run = run /\ \A i : Copy(c, i) = item[i]
    BY BulkIsCurrent DEF FinalizeWhole, CInv
  <1>3. run'.summary = new
    <2> HIDE DEF new
    <2> QED
      BY <1>1, <1>2, SummaryWritten
  <1>4. Items \in SUBSET Items /\ TRUE \in BOOLEAN
    OBVIOUS
  <1>5. /\ Adds(ToMake(c, Items, TRUE))
        /\ locations' \ locations = NewPlaces(c, Items, TRUE)
    BY <1>1, <1>4, MakeAdds DEF CInv, MInv
  <1>6. Total' = Total + made
    BY <1>5, AddsCount DEF CInv, MInv
  <1>7. made \in Nat /\ places \in Nat /\ rejected \in Nat
    BY <1>4, CountsType, NewPlacesType DEF CInv, MInv
  <1>8. rejected = Cardinality({i \in Items : item[i].status = "rejected"})
    <2>1. {i \in Items : Copy(c, i).status = "rejected"} = {i \in Items : item[i].status = "rejected"}
      BY <1>2
    <2> QED
      BY <2>1 DEF Rejected
  <1>9. Cardinality(locations' \ locations) = places
    BY <1>5
  <1> HIDE DEF made, places, rejected
  <1>10. /\ new.given /\ new.streams = made /\ new.places = places /\ new.rejected = rejected
         /\ NoSummary.streams = 0 /\ NoSummary.places = 0 /\ NoSummary.rejected = 0
    BY DEF SummaryOf, NoSummary
  <1> HIDE DEF new
  <1> QED
    BY <1>3, <1>6, <1>7, <1>8, <1>9, <1>10, TotalType DEF GrowsFrom

\* A finalize of groups adds what it made, nothing if it is sent again, and the
\* rejections of the groups the summary has not counted.
LEMMA SubsetCounts ==
  ASSUME CInv, source = "bulk_import", NEW c \in Clients, NEW G \in SUBSET Groups,
         FinalizeSubset(c, G)
  PROVE  GrowsFrom(run.summary, RejectionsCounted)
  <1> DEFINE T == Members(G)
             seen == request[c].run.summary.counted
             rejected == Rejected(c, Members(Uncounted(c, G)))
             open == StillOpen(c, NewRows(c, T, FALSE))
             places == Cardinality(NewPlaces(c, T, FALSE))
             made == Cardinality(ToMake(c, T, FALSE))
             base == Accumulated(c, places, made, rejected)
             new == [base EXCEPT !.counted = seen \union G]
  <1>1. Make(c, T, FALSE) /\ run' = StoredRun(c, RunStatus(open), new)
    BY DEF FinalizeSubset
  <1>2. request[c].run = run /\ \A i : Copy(c, i) = item[i]
    BY BulkIsCurrent DEF FinalizeSubset, CInv
  <1>3. T \in SUBSET Items /\ FALSE \in BOOLEAN
    BY MembersType
  <1>4. Adds(ToMake(c, T, FALSE)) /\ locations' \ locations = NewPlaces(c, T, FALSE)
    BY <1>1, <1>3, MakeAdds DEF CInv, MInv
  <1>5. Total' = Total + made
    BY <1>4, AddsCount DEF CInv, MInv
  <1>6. made \in Nat
    BY <1>3, CountsType
  <1>7. Cardinality(locations' \ locations) = places
    BY <1>4
  <1>8. \A i \in Items : item'[i].status = item[i].status
    BY FinalizeRows, FinalizeKeeps DEF CInv
  <1>9. Uncounted(c, G) = G \ seen
    BY DEF Uncounted
  <1>10. rejected = Cardinality({i \in Members(G \ seen) : item[i].status = "rejected"})
    <2>1. {i \in Members(G \ seen) : Copy(c, i).status = "rejected"} =
            {i \in Members(G \ seen) : item[i].status = "rejected"}
      BY <1>2
    <2> QED
      BY <1>9, <2>1 DEF Rejected
  <1> HIDE DEF open, rejected, places, made, T
  <1>11. /\ base.streams = run.summary.streams + made
         /\ base.places = run.summary.places + places
         /\ base.rejected = run.summary.rejected + rejected
         /\ new.given /\ new.counted = seen \union G
         /\ new.streams = base.streams /\ new.places = base.places /\ new.rejected = base.rejected
    BY <1>2, AccumulatedCounts
  <1>12. seen = run.summary.counted
    BY <1>2
  <1> HIDE DEF new, base, seen
  <1>13. run'.summary = new
    BY <1>1, <1>2, SummaryWritten
  <1>14. RejectionsCounted = {i \in Members(G \ seen) : item[i].status = "rejected"}
    <2>1. run'.summary.counted \ run.summary.counted = G \ seen
      BY <1>11, <1>12, <1>13
    <2> QED
      BY <1>8, <2>1 DEF RejectionsCounted, Members
  <1> QED
    BY <1>5, <1>6, <1>7, <1>10, <1>11, <1>13, <1>14, TotalType DEF GrowsFrom

\* A rejected draft is one rejection.
LEMMA RejectCounts ==
  ASSUME CInv, source = "bulk_import", NEW c \in Clients, NEW j \in ProjectItems,
         RejectDraft(c, j)
  PROVE  GrowsFrom(run.summary, RejectionsCounted)
  <1> DEFINE new == Accumulated(c, 0, 0, 1)
             rows == [k \in {j} |-> [Copy(c, j) EXCEPT !.status = "rejected"]]
  <1>1. /\ Deciding(c, j) /\ Settle(c, 0, 0, 1)
        /\ item' = Stored(c, rows) /\ locations' = locations
    BY DEF RejectDraft
  <1>2. request[c].run = run /\ \A i : Copy(c, i) = item[i]
    BY <1>1, BulkIsCurrent DEF Deciding, CInv
  <1>3. Total' = Total
    BY OthersAddNone, NoneAdded DEF CInv, MInv
  <1>4. PICK open : run' = StoredRun(c, RunStatus(open), new)
    BY <1>1 DEF Settle
  <1>5. /\ new.given /\ new.counted = {}
        /\ new.streams = run.summary.streams + 0
        /\ new.places = run.summary.places + 0
        /\ new.rejected = run.summary.rejected + 1
    BY <1>2, AccumulatedCounts
  <1> HIDE DEF new
  <1>6. run'.summary = new
    BY <1>2, <1>4, SummaryWritten
  <1>7. RowLike(item[j]) /\ j \in Items /\ item[j].status # "rejected"
    BY <1>1, <1>2 DEF Deciding, CInv, RowsLike, ItemsLike, Items
  <1>8. item'[j].status = "rejected"
    <2>1. item'[j] = Merged(item[j], [item[j] EXCEPT !.status = "rejected"], item[j])
      BY <1>1, <1>2, <1>7 DEF Stored
    <2>2. [item[j] EXCEPT !.status = "rejected"].status = "rejected"
      BY <1>7 DEF RowLike
    <2> QED
      BY <1>7, <2>1, <2>2 DEF Merged, Written
  <1>9. \A i \in Items \ {j} : item'[i] = item[i]
    BY <1>1 DEF Stored
  <1>10. RejectionsCounted = {j}
    BY <1>5, <1>6, <1>7, <1>8, <1>9 DEF RejectionsCounted
  <1>11. Cardinality(RejectionsCounted) = 1
    BY <1>10, FS_Singleton
  <1>12. Cardinality(locations' \ locations) = 0
    BY <1>1, FS_EmptySet
  <1>13. Total' - Total = 0
    BY <1>3, TotalType
  <1> QED
    BY <1>5, <1>6, <1>11, <1>12, <1>13 DEF GrowsFrom

\* A confirmed draft is one stream, and no item is rejected by it.
LEMMA ConfirmRejectsNone ==
  ASSUME CInv, source = "bulk_import", NEW c \in Clients, NEW j \in ProjectItems,
         NEW choice, NEW sent, ConfirmDraft(c, j, choice, sent), NEW i \in Items,
         item'[i].status = "rejected"
  PROVE  item[i].status = "rejected"
  <1> DEFINE linked == Parent[j] # None
             kept == linked /\ item[Parent[j]].place # None
             r == Resolved(j, Copy(c, j), choice)
             draft == [r EXCEPT !.status = "accepted", !.confirm = Confirmed(r, sent),
                                !.stream = Made(j) + 1]
             above == Resolved(Parent[j], item[Parent[j]], choice)
             at == IF kept THEN item[Parent[j]].place
                   ELSE IF linked THEN ParentPlace(Parent[j], above) ELSE draft.choice.at
             rows == [k \in {j} \union ({Parent[j]} \ {None}) |->
                       IF k = j THEN draft ELSE IF kept THEN above ELSE [above EXCEPT !.place = at]]
  <1>1. item' = Stored(c, rows) /\ Deciding(c, j)
    BY DEF ConfirmDraft
  <1>2. \A k : Copy(c, k) = item[k]
    BY <1>1, BulkIsCurrent DEF Deciding, CInv
  <1>3. RowLike(item[j]) /\ RowLike(item[i])
    BY DEF CInv, RowsLike, ItemsLike, Items
  <1>4. draft.status = "accepted"
    <2>1. RowLike(r)
      BY <1>2, <1>3, ResolvedLike
    <2> HIDE DEF r
    <2> QED
      BY <2>1 DEF RowLike
  <1>5. i = Parent[j] => above.status = item[i].status /\ RowLike(above)
    BY <1>3, ResolvedLike
  <1> HIDE DEF draft, above, at
  <1>6. i = Parent[j] => [above EXCEPT !.place = at].status = above.status
    BY <1>5 DEF RowLike
  <1>7. i \in DOMAIN rows => rows[i].status \in {"accepted", item[i].status}
    BY <1>4, <1>5, <1>6
  <1>8. item'[i] = IF i \in DOMAIN rows THEN Merged(item[i], rows[i], item[i]) ELSE item[i]
    BY <1>1, <1>2 DEF Stored
  <1> HIDE DEF rows
  <1> QED
    BY <1>7, <1>8 DEF Merged, Written

LEMMA ConfirmCounts ==
  ASSUME CInv, source = "bulk_import", NEW c \in Clients, NEW j \in ProjectItems,
         NEW choice \in Choices, NEW sent \in Sent, ConfirmDraft(c, j, choice, sent)
  PROVE  GrowsFrom(run.summary, RejectionsCounted)
  <1> DEFINE places == Cardinality(locations' \ locations)
             new == Accumulated(c, places, 1, 0)
  <1>1. Adds({j}) /\ Settle(c, places, 1, 0)
    BY ConfirmAdds DEF CInv, MInv
  <1>2. request[c].run = run
    BY BulkIsCurrent DEF ConfirmDraft, Deciding, CInv
  <1>3. Total' = Total + 1
    BY <1>1, AddsCount, FS_Singleton DEF CInv, MInv
  <1>4. PICK open : run' = StoredRun(c, RunStatus(open), new)
    BY <1>1 DEF Settle
  <1> HIDE DEF places
  <1>5. /\ new.given /\ new.counted = {}
        /\ new.streams = run.summary.streams + 1
        /\ new.places = run.summary.places + places
        /\ new.rejected = run.summary.rejected + 0
    BY <1>2, AccumulatedCounts
  <1> HIDE DEF new
  <1>6. run'.summary = new
    BY <1>2, <1>4, SummaryWritten
  <1>7. RejectionsCounted = {}
    BY <1>5, <1>6, ConfirmRejectsNone DEF RejectionsCounted
  <1>8. Cardinality(RejectionsCounted) = 0
    BY <1>7, FS_EmptySet
  <1>9. Total' - Total = 1
    BY <1>3, TotalType
  <1> QED
    BY <1>5, <1>6, <1>8, <1>9 DEF GrowsFrom, places

\* A step that is neither a finalize nor a decision leaves the summary.
LEMMA OthersLeaveSummary ==
  ASSUME TypeOK, [Next]_vars, ~\E c \in Clients : Finalize(c) \/ Decide(c)
  PROVE  run'.summary = run.summary
  <1>1. ASSUME NEW c \in Clients, Orphaned(c) PROVE run'.summary = run.summary
    <2>1. PICK status : run' = [run EXCEPT !.status = status]
      BY <1>1 DEF Orphaned, ImportOrphans
    <2> QED
      BY <2>1 DEF TypeOK, Run
  <1>2. ASSUME NEW c \in Clients, Edit(c) PROVE run' = run
    BY <1>2 DEF Edit, Accept, Reject, Reset, Save
  <1> QED
    BY <1>1, <1>2 DEF Next, vars, LoadRun, LoadItem, Leave, AddLocation, AddStream

\* The summary of a bulk run changes with every finalize and decision by exactly
\* what the request made and the rejections it counts for the first time, and
\* with nothing else: a request counts on top of the copy it loaded, which is the
\* current row because it was alone.
THEOREM SummaryIsExact == KeyedSpec => SummaryKeepsPace
  <1>1. Init => CInv
    BY InitIInv, InitSInv, InitMInv DEF CInv, SInv
  <1>2. CInv /\ [KeyedNext]_vars => CInv'
    BY NextIInv, NextRowsLike, NextMInv DEF CInv, KeyedNext
  <1> DEFINE Whole == \E c \in Clients : FinalizeWhole(c)
             Before == IF Whole THEN NoSummary ELSE run.summary
             Rejections == IF Whole THEN {i \in Items : item[i].status = "rejected"}
                           ELSE RejectionsCounted
             Pace == source = "bulk_import" =>
               IF \E c \in Clients : Finalize(c) \/ Decide(c)
               THEN GrowsFrom(Before, Rejections)
               ELSE run'.summary = run.summary
  <1>3. CInv /\ [KeyedNext]_vars => Pace
    <2> SUFFICES ASSUME CInv, [KeyedNext]_vars, source = "bulk_import" PROVE Pace
        OBVIOUS
    <2>1. ASSUME ~\E c \in Clients : Finalize(c) \/ Decide(c)
          PROVE  run'.summary = run.summary
      BY <2>1, OthersLeaveSummary DEF CInv, MInv, KeyedNext
    <2>2. ASSUME NEW c \in Clients, Finalize(c) \/ Decide(c)
          PROVE  GrowsFrom(Before, Rejections)
      <3>1. CASE Whole
        BY <3>1, WholeCounts
      <3>2. CASE ~Whole
        <4>1. ASSUME NEW G, NEW k PROVE ~FinalizeVoice(c, G, k)
          BY DEF FinalizeVoice
        <4>2. GrowsFrom(run.summary, RejectionsCounted)
          BY <2>2, <3>2, <4>1, SubsetCounts, RejectCounts, ConfirmCounts DEF Decide, Finalize
        <4> QED
          BY <3>2, <4>2
      <3> QED
        BY <3>1, <3>2
    <2> QED
      BY <2>1, <2>2
  <1>4. CInv /\ [KeyedNext]_vars => [Pace]_vars
    BY <1>3
  <1> QED
    BY <1>1, <1>2, <1>4, PTL DEF KeyedSpec, SummaryKeepsPace, GrowsFrom

\* An answer to a key is given once, and says how many streams its request
\* made, although finalizes of a voice run overlap and decide on copies that
\* may be old: the key is looked up in the current rows, under the lock.  The
\* proof needs no assumption on which requests overlap.
THEOREM AnswersAreFinal == Spec => KeyedOnce
  <1> DEFINE Once == source = "voice_interview" =>
       /\ \A k \in Keys : answer[k].given => answer'[k] = answer[k]
       /\ Total' # Total =>
            \/ \E k \in Keys : ~answer[k].given /\ answer'[k].streams = Total' - Total
            \/ \E c \in Clients : Decide(c)
  <1>1. MInv /\ [Next]_vars => Once
    <2> SUFFICES ASSUME MInv, [Next]_vars, source = "voice_interview" PROVE Once
        OBVIOUS
    <2>1. ASSUME NEW c \in Clients, NEW G \in SUBSET Groups, NEW k \in Keys, FinalizeVoice(c, G, k)
          PROVE  Once
      <3> DEFINE made == Cardinality(ToMake(c, Members(G), FALSE))
      <3>1. /\ ~answer[k].given /\ Make(c, Members(G), FALSE)
            /\ answer' = [answer EXCEPT ![k] = [given |-> TRUE, groups |-> G, streams |-> made]]
        BY <2>1 DEF FinalizeVoice, Unanswered
      <3>2. Adds(ToMake(c, Members(G), FALSE))
        BY <3>1, MembersType, MakeAdds DEF MInv
      <3>3. Total' = Total + made /\ made \in Nat
        BY <3>2, AddsCount, MembersType, CountsType DEF MInv
      <3> HIDE DEF made
      <3>4. answer'[k].streams = Total' - Total
        BY <3>1, <3>3, TotalType DEF MInv, TypeOK
      <3> QED
        BY <3>1, <3>4 DEF MInv, TypeOK
    <2>2. ASSUME NEW c \in Clients, Decide(c) PROVE Once
      <3>1. ASSUME NEW j, NEW choice, NEW sent, ConfirmDraft(c, j, choice, sent)
            PROVE  answer' = answer
        BY <3>1 DEF ConfirmDraft
      <3>2. ASSUME NEW j, RejectDraft(c, j) PROVE answer' = answer
        BY <3>2 DEF RejectDraft
      <3>3. answer' = answer
        BY <2>2, <3>1, <3>2 DEF Decide
      <3> QED
        BY <2>2, <3>3
    <2>3. ASSUME NEW c \in Clients, Finalize(c) PROVE Once
      BY <2>1, <2>3 DEF Finalize, FinalizeWhole, FinalizeSubset
    <2>4. ASSUME NEW c \in Clients, Orphaned(c) PROVE source = "bulk_import" /\ answer' = answer
      BY <2>4 DEF Orphaned, ImportOrphans
    <2>5. ASSUME Adds({}), answer' = answer PROVE Once
      BY <2>5, NoneAdded DEF MInv
    <2>6. ASSUME NEW c \in Clients, Edit(c) PROVE answer' = answer
      BY <2>6 DEF Edit, Accept, Reject, Reset, Save
    <2>7. \/ answer' = answer
          \/ \E c \in Clients : Finalize(c)
          \/ \E c \in Clients : Decide(c)
      BY <2>4, <2>6 DEF Next, vars, LoadRun, LoadItem, Leave, AddLocation, AddStream
    <2> QED
      BY <2>2, <2>3, <2>4, <2>5, <2>7, NextCounted DEF MInv, Counted
  <1> QED
    BY <1>1, InitMInv, NextMInv, PTL DEF Spec, KeyedOnce
=============================================================================
