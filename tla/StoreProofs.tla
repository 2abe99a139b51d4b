----------------------------- MODULE StoreProofs -----------------------------
(***************************************************************************)
(* Proofs about the cached panels, for any number of threads, any TTL and  *)
(* any length of time, and about the three users of the SQLite file side   *)
(* by side.                                                                *)
(***************************************************************************)
EXTENDS MCStoreUsers, BarCacheProofs, GenerationProofs

Refreshing(r) == request[r].at \in {"refresh", "rest", "store"}

\* The thread that refreshes holds the lock, and it is the only one.
LockInv == \A r \in Reader : Refreshing(r) <=> holder = r

\* The row a refreshing thread has read is the row there is, and it has expired.
CachedInv ==
    \A r \in Reader : Refreshing(r) => request[r].cached = row /\ ~_fresh(row)

\* What is shown was read before it was stamped, and stamped in the past; the row
\* does not fall behind what has been shown.
RowAge ==
    /\ copy = NoEntry
    /\ shown <= clock
    /\ row # NoEntry =>
          row.shows \in Nat /\ row.shows <= row.at /\ row.at <= clock /\ shown <= row.shows

\* Nor does a reading under way, and the row was stamped before it.
ReadingAge(r) ==
    request[r].at \in {"rest", "store"} =>
        /\ request[r].read \in Nat /\ request[r].read <= clock
        /\ shown <= request[r].read
        /\ row # NoEntry => row.at <= request[r].read

\* An answer under way does not fall behind its floor, nor the row and a reading
\* under way behind it.
AnswerAge(r) ==
    request[r].at = "answer" =>
        /\ request[r].cached # NoEntry
        /\ request[r].cached.shows \in Nat /\ request[r].cached.shows <= clock
        /\ request[r].cached.shows >= request[r].floor
        /\ row # NoEntry => request[r].cached.shows <= row.shows
        /\ \A s \in Reader : request[s].at \in {"rest", "store"} =>
              request[r].cached.shows <= request[s].read

AgeInv ==
    /\ RowAge
    /\ \A r \in Reader : request[r].floor <= shown /\ ReadingAge(r) /\ AnswerAge(r)

\* Only an answer carries the stale flag.
StaleInv == \A r \in Reader : request[r].stale => request[r].at = "answer"

DisplayInv == DisplayTypeOK /\ LockInv /\ CachedInv /\ AgeInv /\ StaleInv

-----------------------------------------------------------------------------
(* Types and locking.                                                      *)

LEMMA NoneTypes ==
  NoEntry \in Entry /\ NoRequest \in Request /\ NoRequest.at = "idle" /\ BeforeAll \notin Nat
  BY DEF NoEntry, NoRequest, Entry, Request, Moment, BeforeAll

LEMMA DisplayInitial == DisplayInit => DisplayInv
<1> SUFFICES ASSUME DisplayInit PROVE DisplayInv
  OBVIOUS
<1>1. DisplayTypeOK
  BY NoneTypes, DisplayAssumption
  DEF DisplayInit, DisplayTypeOK, Moment, BeforeAll
<1>2. LockInv /\ CachedInv
  BY DisplayAssumption
  DEF DisplayInit, LockInv, CachedInv, Refreshing, NoRequest, Nobody
<1>3. AgeInv
  BY DEF DisplayInit, AgeInv, RowAge, ReadingAge, AnswerAge, NoRequest, BeforeAll
<1>4. StaleInv
  BY DEF DisplayInit, StaleInv, NoRequest
<1> QED
  BY <1>1, <1>2, <1>3, <1>4 DEF DisplayInv

LEMMA OneRequest ==
  ASSUME DisplayTypeOK, NEW r \in Reader, NEW q, request' = [request EXCEPT ![r] = q]
  PROVE  request'[r] = q /\ \A s \in Reader \ {r} : request'[s] = request[s]
  BY DEF DisplayTypeOK

LEMMA CachedRequest ==
  ASSUME NEW q \in Request, NEW where, NEW entry
  PROVE  LET new == [q EXCEPT !.at = where, !.cached = entry]
         IN  new.at = where /\ new.cached = entry
             /\ new.floor = q.floor /\ new.stale = q.stale
  BY DEF Request

\* What EnterLock and Store leave behind in the requests.
LEMMA EnterLockResult ==
  ASSUME DisplayTypeOK, NEW r \in Reader, EnterLock(r)
  PROVE  /\ \A s \in Reader \ {r} : request'[s] = request[s]
         /\ request'[r].cached = row
         /\ request'[r].floor = request[r].floor
         /\ request'[r].stale = request[r].stale
         /\ IF _fresh(row) THEN request'[r].at = "answer" /\ UNCHANGED holder
                           ELSE request'[r].at = "refresh" /\ holder' = r
<1> DEFINE new(where) == [request[r] EXCEPT !.at = where, !.cached = row]
<1>1. request[r] \in Request
  BY DEF DisplayTypeOK
<1>2. \A where : /\ new(where).at = where /\ new(where).cached = row
                 /\ new(where).floor = request[r].floor
                 /\ new(where).stale = request[r].stale
  BY <1>1, CachedRequest
<1>3. IF _fresh(row)
      THEN request' = [request EXCEPT ![r] = new("answer")] /\ UNCHANGED holder
      ELSE request' = [request EXCEPT ![r] = new("refresh")] /\ holder' = r
  BY DEF EnterLock
<1> HIDE DEF new
<1> QED
  BY <1>2, <1>3, OneRequest

LEMMA StoreResult ==
  ASSUME DisplayTypeOK, NEW r \in Reader, Store(r)
  PROVE  /\ \A s \in Reader \ {r} : request'[s] = request[s]
         /\ \/ /\ row' = [shows |-> request[r].read, at |-> clock]
               /\ request'[r].at = "answer" /\ request'[r].cached = row'
               /\ request'[r].floor = request[r].floor
               /\ request'[r].stale = request[r].stale
            \/ request'[r] = NoRequest /\ UNCHANGED row
<1> DEFINE new == [request[r] EXCEPT !.at = "answer", !.cached = row']
<1>1. request[r] \in Request
  BY DEF DisplayTypeOK
<1>2. /\ new.at = "answer" /\ new.cached = row'
      /\ new.floor = request[r].floor /\ new.stale = request[r].stale
  BY <1>1, CachedRequest
<1>3. \/ /\ row' = [shows |-> request[r].read, at |-> clock]
         /\ request' = [request EXCEPT ![r] = new]
      \/ request' = [request EXCEPT ![r] = NoRequest] /\ UNCHANGED row
  BY DEF Store
<1> HIDE DEF new
<1> QED
  BY <1>2, <1>3, OneRequest

LEMMA TypesKept == DisplayTypeOK /\ [DisplayNext]_displayVars => DisplayTypeOK'
<1> SUFFICES ASSUME DisplayTypeOK, [DisplayNext]_displayVars PROVE DisplayTypeOK'
  OBVIOUS
<1> USE DEF DisplayTypeOK
<1>1. ASSUME NEW r \in Reader, snapshot(r) PROVE DisplayTypeOK'
  BY <1>1, NoneTypes DEF snapshot, Request, NoRequest
<1>2. ASSUME NEW r \in Reader, EnterLock(r) PROVE DisplayTypeOK'
  BY <1>2, ZenonT(60) DEF EnterLock, Request
<1>3. ASSUME NEW r \in Reader, ReadFirst(r) PROVE DisplayTypeOK'
  <2>1. clock \in Moment
    BY DisplayAssumption DEF Moment
  <2>2. [request[r] EXCEPT !.at = "rest", !.read = clock] \in Request
    BY <2>1 DEF Request
  <2> QED
    BY <1>3, <2>2 DEF ReadFirst
<1>4. ASSUME NEW r \in Reader, FallBack(r) PROVE DisplayTypeOK'
  BY <1>4, NoneTypes DEF FallBack, Request
<1>5. ASSUME NEW r \in Reader, ReadRest(r) PROVE DisplayTypeOK'
  BY <1>5 DEF ReadRest, Request
<1>6. ASSUME NEW r \in Reader, Store(r) PROVE DisplayTypeOK'
  <2>1. CASE row' = [shows |-> request[r].read, at |-> clock]
             /\ request' = [request EXCEPT ![r] = [@ EXCEPT !.at = "answer", !.cached = row']]
    <3>1. request[r].read \in Moment /\ clock \in Moment
      BY DisplayAssumption DEF Request, Moment
    <3>2. row' \in Entry
      BY <2>1, <3>1 DEF Entry
    <3>3. [request[r] EXCEPT !.at = "answer", !.cached = row'] \in Request
      BY <3>2 DEF Request
    <3> QED
      BY <1>6, <2>1, <3>2, <3>3 DEF Store
  <2>2. CASE request' = [request EXCEPT ![r] = NoRequest] /\ UNCHANGED row
    BY <1>6, <2>2, NoneTypes DEF Store
  <2> QED
    BY <1>6, <2>1, <2>2 DEF Store
<1>7. ASSUME NEW r \in Reader, Respond(r) PROVE DisplayTypeOK'
  BY <1>7, NoneTypes DEF Respond, Request, Entry
<1>8. CASE PublishCopy
  BY <1>8, NoneTypes DEF PublishCopy, Scrubbed
<1>9. CASE NewProcess
  BY <1>9, NoneTypes DEF NewProcess
<1>10. CASE ClockTicks
  BY <1>10, DisplayAssumption DEF ClockTicks
<1>11. CASE UNCHANGED displayVars
  BY <1>11 DEF displayVars
<1> HIDE DEF DisplayTypeOK
<1> QED
  BY <1>1, <1>2, <1>3, <1>4, <1>5, <1>6, <1>7, <1>8, <1>9, <1>10, <1>11
  DEF DisplayNext, RequestStep

LEMMA LockKept ==
  DisplayTypeOK /\ LockInv /\ [DisplayNext]_displayVars => LockInv'
<1> SUFFICES ASSUME DisplayTypeOK, LockInv, [DisplayNext]_displayVars PROVE LockInv'
  OBVIOUS
<1> USE DisplayAssumption DEF DisplayTypeOK, LockInv, Refreshing, Nobody
<1>1. ASSUME NEW r \in Reader, snapshot(r) PROVE LockInv'
  BY <1>1 DEF snapshot
<1>2. ASSUME NEW r \in Reader, EnterLock(r) PROVE LockInv'
  <2>1. \A s \in Reader : ~Refreshing(s)
    BY <1>2 DEF EnterLock
  <2> QED
    BY <1>2, <2>1, EnterLockResult
<1>3. ASSUME NEW r \in Reader, ReadFirst(r) PROVE LockInv'
  BY <1>3 DEF ReadFirst
<1>4. ASSUME NEW r \in Reader, FallBack(r) PROVE LockInv'
  BY <1>4 DEF FallBack, NoRequest
<1>5. ASSUME NEW r \in Reader, ReadRest(r) PROVE LockInv'
  BY <1>5 DEF ReadRest
<1>6. ASSUME NEW r \in Reader, Store(r) PROVE LockInv'
  <2>1. \A s \in Reader : Refreshing(s) <=> s = r
    BY <1>6 DEF Store
  <2>2. request'[r].at \in {"answer", "idle"} /\ holder' = Nobody
    BY ONLY <1>6, DisplayTypeOK, StoreResult, NoneTypes DEF Store
  <2> QED
    BY <1>6, <2>1, <2>2, StoreResult
<1>7. ASSUME NEW r \in Reader, Respond(r) PROVE LockInv'
  BY <1>7 DEF Respond, NoRequest
<1>8. CASE NewProcess
  BY <1>8 DEF NewProcess, NoRequest
<1>9. CASE PublishCopy \/ ClockTicks \/ UNCHANGED displayVars
  BY <1>9 DEF PublishCopy, ClockTicks, displayVars
<1> HIDE DEF LockInv
<1> QED
  BY <1>1, <1>2, <1>3, <1>4, <1>5, <1>6, <1>7, <1>8, <1>9 DEF DisplayNext, RequestStep

-----------------------------------------------------------------------------
(* The row a refresh has read, and the ages.                               *)

\* A refresh has the lock, so the row it read stays as it is and stays expired.
LEMMA CachedKept ==
  DisplayTypeOK /\ LockInv /\ CachedInv /\ [DisplayNext]_displayVars => CachedInv'
<1> SUFFICES ASSUME DisplayTypeOK, LockInv, CachedInv, [DisplayNext]_displayVars
             PROVE  CachedInv'
  OBVIOUS
<1> USE DisplayAssumption DEF DisplayTypeOK, LockInv, CachedInv, Refreshing
<1>1. ASSUME NEW r \in Reader, snapshot(r) PROVE CachedInv'
  BY <1>1 DEF snapshot, _fresh
<1>2. ASSUME NEW r \in Reader, EnterLock(r) PROVE CachedInv'
  <2>1. UNCHANGED <<clock, row>>
    BY <1>2 DEF EnterLock
  <2> QED
    BY <1>2, <2>1, EnterLockResult DEF _fresh
<1>3. ASSUME NEW r \in Reader, ReadFirst(r) PROVE CachedInv'
  BY <1>3 DEF ReadFirst, Request, _fresh
<1>4. ASSUME NEW r \in Reader, FallBack(r) PROVE CachedInv'
  BY <1>4 DEF FallBack, NoRequest, _fresh
<1>5. ASSUME NEW r \in Reader, ReadRest(r) PROVE CachedInv'
  BY <1>5 DEF ReadRest, Request, _fresh
<1>6. ASSUME NEW r \in Reader, Store(r) PROVE CachedInv'
  <2>1. \A s \in Reader \ {r} : ~Refreshing(s)
    BY <1>6 DEF Store
  <2>2. request'[r].at \in {"answer", "idle"}
    BY ONLY <1>6, DisplayTypeOK, StoreResult, NoneTypes
  <2> QED
    BY <1>6, <2>1, <2>2, StoreResult
<1>7. ASSUME NEW r \in Reader, Respond(r) PROVE CachedInv'
  BY <1>7 DEF Respond, NoRequest, _fresh
<1>8. CASE NewProcess
  BY <1>8 DEF NewProcess, NoRequest
<1>9. CASE PublishCopy \/ UNCHANGED displayVars
  BY <1>9 DEF PublishCopy, displayVars, _fresh
<1>10. CASE ClockTicks
  BY <1>10 DEF ClockTicks, _fresh, Entry, Moment, NoEntry, BeforeAll
<1> HIDE DEF CachedInv
<1> QED
  BY <1>1, <1>2, <1>3, <1>4, <1>5, <1>6, <1>7, <1>8, <1>9, <1>10
  DEF DisplayNext, RequestStep

LEMMA AgeTypes ==
  /\ \A e \in Entry : e.shows \in Int /\ e.at \in Int /\ e.shows >= -1
  /\ \A q \in Request : q.cached \in Entry /\ q.read \in Int /\ q.floor \in Int
  /\ NoRequest.floor = -1
  BY DEF Entry, Request, Moment, BeforeAll, NoRequest

LEMMA AgeKept == DisplayInv /\ [DisplayNext]_displayVars => AgeInv'
<1> SUFFICES ASSUME DisplayInv, [DisplayNext]_displayVars PROVE AgeInv'
  OBVIOUS
<1>t. /\ clock \in Nat /\ shown \in Int /\ shown >= -1 /\ row \in Entry
      /\ request \in [Reader -> Request]
  BY DisplayAssumption DEF DisplayInv, DisplayTypeOK, Moment, BeforeAll
<1> USE <1>t, AgeTypes DEF AgeInv, RowAge, ReadingAge, AnswerAge, DisplayInv
<1>1. ASSUME NEW r \in Reader, snapshot(r) PROVE AgeInv'
  <2> DEFINE new == [NoRequest EXCEPT !.at = IF _fresh(row) THEN "answer" ELSE "wait",
                                      !.cached = row, !.floor = shown]
  <2>1. new.at = (IF _fresh(row) THEN "answer" ELSE "wait")
        /\ new.cached = row /\ new.floor = shown
    BY DEF NoRequest
  <2>2. request' = [request EXCEPT ![r] = new] /\ UNCHANGED <<clock, row, copy, shown>>
    BY <1>1 DEF snapshot
  <2> HIDE DEF new
  <2> QED
    BY <2>1, <2>2 DEF _fresh
<1>2. ASSUME NEW r \in Reader, EnterLock(r) PROVE AgeInv'
  <2>1. UNCHANGED <<clock, row, copy, shown>>
    BY <1>2 DEF EnterLock
  <2> QED
    BY <1>2, <2>1, EnterLockResult DEF _fresh
<1>3. ASSUME NEW r \in Reader, ReadFirst(r) PROVE AgeInv'
  <2> DEFINE new == [request[r] EXCEPT !.at = "rest", !.read = clock]
  <2>1. new.at = "rest" /\ new.read = clock /\ new.floor = request[r].floor
    BY DEF Request
  <2>2. request' = [request EXCEPT ![r] = new] /\ UNCHANGED <<clock, row, copy, shown>>
    BY <1>3 DEF ReadFirst
  <2> HIDE DEF new
  <2> QED
    BY <2>1, <2>2
<1>4. ASSUME NEW r \in Reader, FallBack(r) PROVE AgeInv'
  <2> DEFINE new == [request[r] EXCEPT !.at = "answer", !.stale = TRUE]
  <2>1. new.at = "answer" /\ new.cached = request[r].cached
        /\ new.floor = request[r].floor
    BY DEF Request
  <2>2. request' = [request EXCEPT ![r] =
                      IF request[r].cached # NoEntry THEN new ELSE NoRequest]
        /\ UNCHANGED <<clock, row, copy, shown>>
    BY <1>4 DEF FallBack
  <2>3. request[r].cached = row
    BY <1>4 DEF FallBack, CachedInv, Refreshing
  <2> HIDE DEF new
  <2> QED
    BY <2>1, <2>2, <2>3, NoneTypes
<1>5. ASSUME NEW r \in Reader, ReadRest(r) PROVE AgeInv'
  BY <1>5 DEF ReadRest, Request
<1>6. ASSUME NEW r \in Reader, Store(r) PROVE AgeInv'
  <2>1. request[r].at = "store" /\ UNCHANGED <<clock, copy, shown>>
    BY <1>6 DEF Store
  <2>2. \A s \in Reader \ {r} : ~Refreshing(s)
    BY <2>1 DEF LockInv, Refreshing
  <2>3. CASE request'[r] = NoRequest /\ UNCHANGED row
    BY <1>6, <2>1, <2>3, StoreResult, NoneTypes
  <2>4. CASE /\ row' = [shows |-> request[r].read, at |-> clock]
             /\ request'[r].at = "answer" /\ request'[r].cached = row'
             /\ request'[r].floor = request[r].floor
    <3>1. row'.shows = request[r].read /\ row'.at = clock
      BY <2>4
    <3>2. row' # NoEntry
      BY <2>1, <3>1 DEF NoEntry, BeforeAll
    <3> QED
      BY <1>6, <2>1, <2>2, <2>4, <3>1, <3>2, StoreResult DEF Refreshing
  <2> QED
    BY <1>6, <2>3, <2>4, StoreResult
<1>7. ASSUME NEW r \in Reader, Respond(r) PROVE AgeInv'
  <2>1. request' = [request EXCEPT ![r] = NoRequest] /\ UNCHANGED <<clock, row, copy>>
    BY <1>7 DEF Respond
  <2>2. shown' = IF request[r].cached.shows > shown THEN request[r].cached.shows ELSE shown
    BY <1>7 DEF Respond
  <2>3. request[r].at = "answer"
    BY <1>7 DEF Respond
  <2> QED
    BY <2>1, <2>2, <2>3, NoneTypes
<1>8. CASE PublishCopy
  BY <1>8 DEF PublishCopy, Scrubbed
<1>9. CASE NewProcess
  BY <1>9, NoneTypes DEF NewProcess
<1>10. CASE ClockTicks
  BY <1>10 DEF ClockTicks
<1>11. CASE UNCHANGED displayVars
  BY <1>11 DEF displayVars
<1> HIDE DEF AgeInv
<1> QED
  BY <1>1, <1>2, <1>3, <1>4, <1>5, <1>6, <1>7, <1>8, <1>9, <1>10, <1>11
  DEF DisplayNext, RequestStep

LEMMA StaleKept ==
  DisplayTypeOK /\ StaleInv /\ [DisplayNext]_displayVars => StaleInv'
<1> SUFFICES ASSUME DisplayTypeOK, StaleInv, [DisplayNext]_displayVars PROVE StaleInv'
  OBVIOUS
<1> USE DEF DisplayTypeOK, StaleInv
<1>1. ASSUME NEW r \in Reader, snapshot(r) PROVE StaleInv'
  BY <1>1 DEF snapshot, NoRequest
<1>2. ASSUME NEW r \in Reader, EnterLock(r) PROVE StaleInv'
  <2>1. request[r].at # "answer"
    BY <1>2 DEF EnterLock
  <2> QED
    BY <1>2, <2>1, EnterLockResult
<1>3. ASSUME NEW r \in Reader, ReadFirst(r) PROVE StaleInv'
  BY <1>3 DEF ReadFirst, Request
<1>4. ASSUME NEW r \in Reader, FallBack(r) PROVE StaleInv'
  BY <1>4 DEF FallBack, Request, NoRequest
<1>5. ASSUME NEW r \in Reader, ReadRest(r) PROVE StaleInv'
  BY <1>5 DEF ReadRest, Request
<1>6. ASSUME NEW r \in Reader, Store(r) PROVE StaleInv'
  <2>1. request[r].at # "answer" /\ ~NoRequest.stale
    BY <1>6 DEF Store, NoRequest
  <2> QED
    BY ONLY <1>6, <2>1, DisplayTypeOK, StaleInv, StoreResult DEF StaleInv
<1>7. ASSUME NEW r \in Reader, Respond(r) PROVE StaleInv'
  BY <1>7 DEF Respond, NoRequest
<1>8. CASE NewProcess
  BY <1>8 DEF NewProcess, NoRequest
<1>9. CASE PublishCopy \/ ClockTicks \/ UNCHANGED displayVars
  BY <1>9 DEF PublishCopy, ClockTicks, displayVars
<1> HIDE DEF StaleInv
<1> QED
  BY <1>1, <1>2, <1>3, <1>4, <1>5, <1>6, <1>7, <1>8, <1>9 DEF DisplayNext, RequestStep

LEMMA DisplayInductive == DisplayInv /\ [DisplayNext]_displayVars => DisplayInv'
  BY TypesKept, LockKept, CachedKept, AgeKept, StaleKept DEF DisplayInv

LEMMA DisplayInvariant == DisplaySpec => []DisplayInv
  BY DisplayInitial, DisplayInductive, PTL DEF DisplaySpec

-----------------------------------------------------------------------------
(* The theorems.                                                           *)

\* Every variable of a panel keeps its type.
THEOREM DisplayTypeCorrect == DisplaySpec => []DisplayTypeOK
<1>1. DisplayInv => DisplayTypeOK
  BY DEF DisplayInv
<1> QED
  BY <1>1, DisplayInvariant, PTL

\* No answer is older than what had been shown when its request came (AgeInv: the
\* row, the readings and the answers never fall behind what has been shown).
THEOREM AnswersNeverOlder == DisplaySpec => []NeverOlder
<1>1. DisplayInv => NeverOlder
  BY DEF DisplayInv, AgeInv, AnswerAge, NeverOlder
<1> QED
  BY <1>1, DisplayInvariant, PTL

\* A row is replaced once in a TTL at most: only the thread that holds the lock
\* stores, and the row it found there had expired (LockInv, CachedInv).
THEOREM RowsReplacedOncePerTTL == DisplaySpec => RefreshesSpaced
<1>1. ASSUME DisplayInv, [DisplayNext]_displayVars, row # NoEntry, row' \notin {row, NoEntry}
      PROVE  row'.at - row.at >= TTL
  <2>1. PICK r \in Reader : Store(r)
    <3>1. ~NewProcess
      BY <1>1 DEF NewProcess, DisplayInv, AgeInv, RowAge
    <3> QED
      BY <1>1, <3>1
      DEF DisplayNext, RequestStep, snapshot, EnterLock, ReadFirst, FallBack, ReadRest,
          Respond, PublishCopy, ClockTicks, displayVars
  <2>2. ~_fresh(row)
    BY <1>1, <2>1 DEF Store, DisplayInv, CachedInv, Refreshing
  <2>3. clock - row.at >= TTL
    <3>1. clock \in Int /\ row.at \in Int /\ TTL \in Int
      BY <1>1, AgeTypes, DisplayAssumption DEF DisplayInv, DisplayTypeOK
    <3> QED
      BY <1>1, <2>2, <3>1 DEF _fresh
  <2>4. row'.at = clock
    BY <1>1, <2>1 DEF Store
  <2> QED
    BY <2>3, <2>4
<1> QED
  BY <1>1, DisplayInvariant, PTL DEF DisplaySpec, RefreshesSpaced

\* A stale answer shows the row there is, which has expired: the thread that falls
\* back holds the lock, and nobody stored while it did (LockInv, CachedInv).
THEOREM StaleAnswersNewest == DisplaySpec => StaleIsNewest
<1>1. ASSUME DisplayInv, [DisplayNext]_displayVars, NEW r \in Reader,
             request'[r].at = "answer", request'[r].stale, request[r].at # "answer"
      PROVE  request'[r].cached = row /\ ~_fresh(row)
  <2>1. DisplayTypeOK /\ ~request[r].stale
    BY <1>1 DEF DisplayInv, StaleInv
  <2>2. ASSUME NEW s \in Reader, RequestStep(s), ~FallBack(s) PROVE FALSE
    <3>1. CASE EnterLock(s)
      BY <1>1, <2>1, <3>1, EnterLockResult
    <3>2. CASE Store(s)
      <4>1. ~NoRequest.stale
        BY DEF NoRequest
      <4> QED
        BY <1>1, <2>1, <3>2, <4>1, StoreResult
    <3>3. CASE snapshot(s)
      BY <1>1, <2>1, <3>3 DEF snapshot, NoRequest, DisplayTypeOK
    <3>4. CASE ReadFirst(s) \/ ReadRest(s)
      BY <1>1, <2>1, <3>4 DEF ReadFirst, ReadRest, Request, DisplayTypeOK
    <3>5. CASE Respond(s)
      BY <1>1, <2>1, <3>5 DEF Respond, NoRequest, DisplayTypeOK
    <3> QED
      BY <2>2, <3>1, <3>2, <3>3, <3>4, <3>5 DEF RequestStep
  <2>3. PICK s \in Reader : FallBack(s)
    <3>1. ~NewProcess
      BY <1>1, <2>1 DEF NewProcess, NoRequest, DisplayTypeOK
    <3> QED
      BY <1>1, <2>1, <2>2, <3>1 DEF DisplayNext, PublishCopy, ClockTicks, displayVars
  <2>4. s = r
    BY <1>1, <2>1, <2>3 DEF FallBack, DisplayTypeOK
  <2>5. request[r].cached = row /\ ~_fresh(row)
    BY <1>1, <2>3, <2>4 DEF FallBack, DisplayInv, CachedInv, Refreshing
  <2>6. request'[r].cached = request[r].cached
    BY <1>1, <2>1, <2>3, <2>4 DEF FallBack, DisplayTypeOK, Request, NoRequest
  <2> QED
    BY <2>5, <2>6
<1>2. ASSUME DisplayInv, [DisplayNext]_displayVars
      PROVE  \A r \in Reader :
               request'[r].at = "answer" /\ request'[r].stale /\ request[r].at # "answer"
                 => request'[r].cached = row /\ ~_fresh(row)
  BY <1>1, <1>2
<1> QED
  BY <1>2, DisplayInvariant, PTL DEF DisplaySpec, StaleIsNewest

-----------------------------------------------------------------------------
(* The three users side by side                                            *)

\* Whoever uses the store in a behaviour, its own types and those of the tables
\* and threads of the other two are kept.
THEOREM StoreTypeCorrect == StoreSpec => []StoreTypeOK
<1>1. [StoreNext]_<<vars, displayVars, genVars, user>>
        => [Next]_vars /\ [DisplayNext]_displayVars /\ [GenerationNext]_genVars
  BY DEF StoreNext
<1>2. StoreSpec => Spec /\ DisplaySpec /\ GenerationSpec
  <2>1. StoreInit => Init /\ DisplayInit /\ GenerationInit
    BY DEF StoreInit
  <2> QED
    BY <1>1, <2>1, PTL DEF StoreSpec, Spec, DisplaySpec, GenerationSpec
<1>3. StoreSpec => [](user \in {"bars", "panel", "generation"})
  <2>1. StoreInit => user \in {"bars", "panel", "generation"}
    BY DEF StoreInit
  <2>2. /\ user \in {"bars", "panel", "generation"}
        /\ [StoreNext]_<<vars, displayVars, genVars, user>>
        => (user \in {"bars", "panel", "generation"})'
    BY DEF StoreNext
  <2> QED
    BY <2>1, <2>2, PTL DEF StoreSpec
<1>4. CacheTypeOK /\ DisplayTypeOK /\ GenerationTypeOK /\ user \in {"bars", "panel", "generation"}
        => StoreTypeOK
  BY DEF StoreTypeOK
<1> QED
  BY <1>2, <1>3, <1>4, CacheTypeCorrect, DisplayTypeCorrect, GenerationTypeCorrect, PTL
=============================================================================
