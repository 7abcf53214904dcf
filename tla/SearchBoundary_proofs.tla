------------------------- MODULE SearchBoundary_proofs -------------------------
(***************************************************************************)
(* What holds of SearchBoundary for any number of requests and clients, any *)
(* limits and any window.                                                   *)
(*                                                                         *)
(* The slots need nothing but their count.  The windows need history: each  *)
(* counts exactly its client's requests since it was opened, it was opened  *)
(* with a request, and the requests of the window before it were fewer than *)
(* the limit in the last 60 seconds, because the one that opened that window*)
(* is no longer among them.                                                 *)
(***************************************************************************)
EXTENDS SearchBoundary, FiniteSetTheorems, SequenceTheorems, TLAPS

\* A client's requests from a moment on
Since(c, from) == {r \in Requests : client[r] = c /\ counted[r] >= from}

WindowOK(w) ==
    /\ w.start <= now
    /\ w.count = Cardinality(Since(w.client, w.start))
    /\ \E r \in Requests : client[r] = w.client /\ counted[r] = w.start
    /\ Cardinality(Within(w.client, w.start - Window + 1, w.start - 1)) < RequestsPerMinute

\* One window for each client, in the order in which they were opened
Ordered(windows) ==
    \A i, j \in DOMAIN windows : i < j =>
        windows[i].client # windows[j].client /\ windows[i].start <= windows[j].start

\* A client without a live window has made few requests lately, and none at this moment.
Watched(c) == \E i \in DOMAIN clients : clients[i].client = c /\ ~Expired(clients[i])
Quiet(c) ==
    /\ Cardinality(Within(c, now - Window + 1, now)) < RequestsPerMinute
    /\ \A r \in Requests : client[r] = c => counted[r] < now

\* Nobody has a slot before asking for it.
SlotsOK == SlotsCounted /\ \A r \in Requests : stage[r] = "idle" => r \notin admitted

HistoryOK == \A r \in Requests : counted[r] <= now /\ (stage[r] = "idle" => counted[r] = Never)

IInv ==
    /\ SlotsOK
    /\ HistoryOK
    /\ Ordered(clients)
    /\ \A i \in DOMAIN clients : WindowOK(clients[i])
    /\ \A c \in Clients : ~Watched(c) => Quiet(c)
    /\ RateBounded

-----------------------------------------------------------------------------
LEMMA Finite ==
    ASSUME NEW S \in SUBSET Requests
    PROVE  IsFiniteSet(S) /\ Cardinality(S) \in Nat
BY BoundaryConstants, FS_Subset, FS_CardinalityType

LEMMA Fewer ==
    ASSUME NEW S \in SUBSET Requests, NEW T \in SUBSET S
    PROVE  Cardinality(T) <= Cardinality(S)
BY Finite, FS_Subset

\* One more request, which was not in the set
LEMMA OneMore ==
    ASSUME NEW S \in SUBSET Requests, NEW r \in Requests, r \notin S
    PROVE  Cardinality(S \cup {r}) = Cardinality(S) + 1
BY Finite, FS_AddElement

LEMMA AtMostOneMore ==
    ASSUME NEW S \in SUBSET Requests, NEW T \in SUBSET Requests, NEW r, T \subseteq S \cup {r}
    PROVE  Cardinality(T) <= Cardinality(S) + 1
<1>1. IsFiniteSet(S) /\ Cardinality(S) \in Nat  BY Finite
<1>2. IsFiniteSet(S \cup {r}) /\ Cardinality(S \cup {r}) <= Cardinality(S) + 1
  BY <1>1, FS_AddElement
<1>3. Cardinality(T) \in Nat /\ Cardinality(S \cup {r}) \in Nat
  BY <1>2, Finite, FS_CardinalityType
<1> QED  BY <1>1, <1>2, <1>3, FS_Subset

LEMMA AtMostBoth ==
    ASSUME NEW S \in SUBSET Requests, NEW T \in SUBSET Requests, NEW U \in SUBSET Requests,
           U \subseteq S \cup T
    PROVE  Cardinality(U) <= Cardinality(S) + Cardinality(T)
<1>1. IsFiniteSet(S) /\ IsFiniteSet(T) /\ Cardinality(S) \in Nat /\ Cardinality(T) \in Nat
  BY Finite
<1>2. Cardinality(S \cap T) \in Nat /\ Cardinality(S \cup T) \in Nat /\ Cardinality(U) \in Nat
  BY Finite
<1>3. Cardinality(S \cup T) = Cardinality(S) + Cardinality(T) - Cardinality(S \cap T)
  BY <1>1, FS_Union
<1>4. Cardinality(U) <= Cardinality(S \cup T)  BY Fewer
<1> QED  BY <1>1, <1>2, <1>3, <1>4

-----------------------------------------------------------------------------
\* What is left after the expired windows went: the live ones, in order.
LEMMA LiveWindows ==
    ASSUME TypeOK, Ordered(clients), NEW k \in 0..Len(clients), FirstLive(k)
    PROVE  /\ Live(k) \in Seq(Windows) /\ Len(Live(k)) = Len(clients) - k
           /\ \A i \in DOMAIN Live(k) : i + k \in DOMAIN clients /\ Live(k)[i] = clients[i + k]
                                        /\ ~Expired(Live(k)[i])
           /\ Ordered(Live(k))
           /\ \A c : Tracked(c, Live(k)) <=> Watched(c)
<1>1. /\ Len(clients) \in Nat /\ DOMAIN clients = 1..Len(clients)
      /\ \A i \in 1..Len(clients) : clients[i] \in Windows
  BY LenProperties, ElementOfSeq DEF TypeOK
<1>2. /\ Live(k) \in Seq(Windows)
      /\ Len(Live(k)) = IF k + 1 <= Len(clients) THEN Len(clients) - (k + 1) + 1 ELSE 0
      /\ \A i \in 1..(Len(clients) - (k + 1) + 1) : Live(k)[i] = clients[(k + 1) + i - 1]
  BY <1>1, SubSeqProperties DEF Live
<1>3. Len(Live(k)) = Len(clients) - k /\ DOMAIN Live(k) = 1..(Len(clients) - k)
  <2>1. Len(Live(k)) = Len(clients) - k
    <3>1. Len(Live(k)) = IF k + 1 <= Len(clients) THEN Len(clients) - (k + 1) + 1 ELSE 0
      BY <1>2
    <3>2. Len(clients) \in Nat /\ k \in Int /\ 0 <= k /\ k <= Len(clients)  BY <1>1
    <3> QED  BY ONLY <3>1, <3>2
  <2>2. DOMAIN Live(k) = 1..Len(Live(k))  BY <1>2, LenProperties
  <2> QED  BY <2>1, <2>2
<1>4. \A i \in DOMAIN Live(k) : i + k \in DOMAIN clients /\ Live(k)[i] = clients[i + k]
  <2>1. ASSUME NEW i \in 1..(Len(clients) - k)
        PROVE  i + k \in 1..Len(clients) /\ Live(k)[i] = clients[i + k]
    <3>1. i \in Nat /\ i <= Len(clients) - k /\ i >= 1 /\ k \in Nat /\ Len(clients) \in Nat
      BY <1>1
    <3>2. i + k \in 1..Len(clients) /\ (k + 1) + i - 1 = i + k  BY <3>1
    <3>3. i \in 1..(Len(clients) - (k + 1) + 1)  BY <3>1
    <3> QED  BY <1>2, <3>2, <3>3
  <2> QED  BY <2>1, <1>1, <1>3
<1>5. ASSUME NEW i \in DOMAIN Live(k)  PROVE ~Expired(Live(k)[i])
  <2>1. k < Len(clients) /\ k + 1 \in DOMAIN clients /\ i + k >= k + 1  BY <1>1, <1>3
  <2>2. ~Expired(clients[k + 1])  BY <2>1 DEF FirstLive
  <2>3. clients[k + 1].start <= clients[i + k].start
    <3>1. CASE i = 1  BY <3>1, <1>1, <2>1 DEF Windows
    <3>2. CASE i # 1
      <4>1. k + 1 < i + k /\ i + k \in DOMAIN clients  BY <3>2, <1>1, <1>3
      <4> QED  BY <4>1, <2>1 DEF Ordered
    <3> QED  BY <3>1, <3>2
  <2>4. clients[k + 1].start \in Int /\ clients[i + k].start \in Int /\ now \in Int
    BY <1>1, <1>4, <2>1, BoundaryConstants DEF Windows, TypeOK
  <2> QED  BY <1>4, <2>2, <2>3, <2>4, BoundaryConstants DEF Expired
<1>6. Ordered(Live(k))
  <2>1. ASSUME NEW i \in DOMAIN Live(k), NEW j \in DOMAIN Live(k), i < j
        PROVE  /\ Live(k)[i].client # Live(k)[j].client
               /\ Live(k)[i].start <= Live(k)[j].start
    <3>1. i + k < j + k  BY <2>1, <1>3, <1>1
    <3> QED  BY <3>1, <1>4 DEF Ordered
  <2> QED  BY <2>1 DEF Ordered
<1>7. ASSUME NEW c  PROVE Tracked(c, Live(k)) <=> Watched(c)
  <2>1. Tracked(c, Live(k)) => Watched(c)  BY <1>4, <1>5 DEF Tracked, Watched
  <2>2. ASSUME NEW j \in DOMAIN clients, clients[j].client = c, ~Expired(clients[j])
        PROVE  Tracked(c, Live(k))
    <3>1. j > k  BY <2>2, <1>1 DEF FirstLive
    <3>2. j - k \in DOMAIN Live(k) /\ (j - k) + k = j  BY <3>1, <1>1, <1>3
    <3> QED  BY <3>2, <2>2, <1>4 DEF Tracked
  <2> QED  BY <2>1, <2>2 DEF Watched
<1> QED  BY <1>2, <1>3, <1>4, <1>5, <1>6, <1>7
-----------------------------------------------------------------------------
\* What is counted once request r is
LEMMA WithinAfter ==
    ASSUME TypeOK, NEW r \in Requests, counted[r] = Never, client' = client,
           counted' = [counted EXCEPT ![r] = now]
    PROVE  /\ \A c, from, to :
                Within(c, from, to)' = IF c = client[r] /\ now \in from..to
                                       THEN Within(c, from, to) \cup {r} ELSE Within(c, from, to)
           /\ \A c, from, to : r \notin Within(c, from, to)
           /\ \A c : \A from \in Nat :
                /\ r \notin Since(c, from)
                /\ Since(c, from)' = IF c = client[r] /\ now >= from
                                     THEN Since(c, from) \cup {r} ELSE Since(c, from)
<1>1. /\ \A x \in Requests : counted'[x] = IF x = r THEN now ELSE counted[x]
      /\ now # Never /\ now \in Nat
  BY BoundaryConstants DEF TypeOK, Never
<1> QED  BY <1>1, BoundaryConstants DEF Within, Since, Never

LEMMA Types ==
    ASSUME TypeOK
    PROVE  /\ now \in Nat /\ Len(clients) \in Nat /\ DOMAIN clients = 1..Len(clients)
           /\ \A i \in DOMAIN clients :
                /\ clients[i] \in Windows /\ clients[i].client \in Clients
                /\ clients[i].start \in Nat /\ clients[i].count \in Nat
           /\ Window \in Nat \ {0} /\ RequestsPerMinute \in Nat \ {0}
<1>1. /\ Len(clients) \in Nat /\ DOMAIN clients = 1..Len(clients)
      /\ \A i \in 1..Len(clients) : clients[i] \in Windows
  BY LenProperties, ElementOfSeq DEF TypeOK
<1> QED  BY <1>1, BoundaryConstants DEF TypeOK, Windows

LEMMA SubsetsOfRequests ==
    /\ \A c, from, to : Within(c, from, to) \in SUBSET Requests
    /\ \A c, from : Since(c, from) \in SUBSET Requests
BY DEF Within, Since

-----------------------------------------------------------------------------
\* The steps that leave the windows and what is counted alone
LEMMA WindowsUntouched ==
    ASSUME IInv, UNCHANGED <<now, clients, client, counted>>,
           \A q \in Requests : stage'[q] = "idle" => stage[q] = "idle",
           SlotsOK'
    PROVE  IInv'
<1>1. HistoryOK'  BY DEF IInv, HistoryOK
<1>2. Ordered(clients)'  BY DEF IInv, Ordered
<1>3. \A c, from, to : Within(c, from, to)' = Within(c, from, to)  BY DEF Within
<1>4. \A c, from : Since(c, from)' = Since(c, from)  BY DEF Since
<1>5. \A i \in DOMAIN clients' : WindowOK(clients[i])'  BY <1>3, <1>4 DEF IInv, WindowOK
<1>6. ASSUME NEW c \in Clients, ~Watched(c)'  PROVE Quiet(c)'
  BY <1>3, <1>6 DEF IInv, Watched, Quiet, Expired
<1>7. RateBounded'  BY <1>3 DEF IInv, RateBounded
<1> QED  BY <1>1, <1>2, <1>5, <1>6, <1>7 DEF IInv

\* Time passes: a window that ends now was opened a whole window ago, with a request that
\* no longer counts.
LEMMA TickKeeps ==
    ASSUME IInv, Tick
    PROVE  IInv'
<1>t. TypeOK  BY DEF IInv, SlotsOK, SlotsCounted
<1>u. now' = now + 1 /\ UNCHANGED <<clients, inflight, stage, admitted, size, client, counted>>
  BY DEF Tick
<1>1. SlotsOK'
  <2>1. TypeOK'  BY <1>t, <1>u, BoundaryConstants DEF TypeOK, Tick
  <2> QED  BY <2>1, <1>u DEF IInv, SlotsOK, SlotsCounted
<1>2. HistoryOK'
  BY <1>t, <1>u, Types DEF IInv, HistoryOK, TypeOK, Never
<1>3. Ordered(clients)'  BY <1>u DEF IInv, Ordered
<1>4. \A c, from, to : Within(c, from, to)' = Within(c, from, to)  BY <1>u DEF Within
<1>5. \A c, from : Since(c, from)' = Since(c, from)  BY <1>u DEF Since
<1>6. \A i \in DOMAIN clients' : WindowOK(clients[i])'
  BY <1>t, <1>u, <1>4, <1>5, Types DEF IInv, WindowOK
<1>7. ASSUME NEW c \in Clients, ~Watched(c)'  PROVE Quiet(c)'
  <2>1. \A q \in Requests : client[q] = c => counted[q] < now'
    BY <1>t, <1>u, Types, BoundaryConstants DEF IInv, HistoryOK, TypeOK, Never
  <2>2. Cardinality(Within(c, now' - Window + 1, now')) < RequestsPerMinute
    <3>1. CASE ~Watched(c)
      <4>1. Within(c, now' - Window + 1, now') \subseteq Within(c, now - Window + 1, now)
        BY <2>1, <1>t, <1>u, Types, BoundaryConstants DEF Within, TypeOK, Never
      <4>2. Cardinality(Within(c, now - Window + 1, now)) < RequestsPerMinute
        BY <3>1 DEF IInv, Quiet
      <4>3. /\ Cardinality(Within(c, now' - Window + 1, now')) <= Cardinality(Within(c, now - Window + 1, now))
            /\ Cardinality(Within(c, now' - Window + 1, now')) \in Nat
            /\ Cardinality(Within(c, now - Window + 1, now)) \in Nat
        BY <4>1, Fewer, Finite, SubsetsOfRequests
      <4> QED  BY <4>2, <4>3, BoundaryConstants
    <3>2. CASE Watched(c)
      <4>1. PICK i \in DOMAIN clients : clients[i].client = c /\ ~Expired(clients[i])
        BY <3>2 DEF Watched
      <4>2. clients[i].start \in Nat /\ clients[i].start = now' - Window
        BY <4>1, <1>7, <1>t, <1>u, Types DEF Watched, Expired
      <4>3. PICK q \in Requests : client[q] = c /\ counted[q] = clients[i].start
        BY <4>1 DEF IInv, WindowOK
      <4> DEFINE T == Within(c, now' - Window + 1, now')
                 S == Since(c, clients[i].start)
      <4>4. T \subseteq S \ {q} /\ q \in S
        BY <4>2, <4>3, <1>t, <1>u, Types, BoundaryConstants DEF Within, Since, TypeOK, Never
      <4>5. Cardinality(S) <= RequestsPerMinute
        BY <4>1, <1>t, Types DEF IInv, WindowOK, Windows
      <4>6. /\ T \in SUBSET Requests /\ S \in SUBSET Requests
            /\ Cardinality(T) \in Nat /\ Cardinality(T \cup {q}) \in Nat /\ Cardinality(S) \in Nat
        BY <4>4, Finite, SubsetsOfRequests
      <4>7. Cardinality(T \cup {q}) = Cardinality(T) + 1  BY <4>4, <4>6, OneMore
      <4>8. Cardinality(T \cup {q}) <= Cardinality(S)  BY <4>4, <4>6, Fewer
      <4> QED  BY <4>5, <4>6, <4>7, <4>8, BoundaryConstants
    <3> QED  BY <3>1, <3>2
  <2>3. Within(c, now - Window + 1, now)' = Within(c, now' - Window + 1, now')
    BY <1>u DEF Within
  <2> QED  BY <2>1, <2>2, <2>3, <1>u DEF Quiet
<1>8. RateBounded'  BY <1>4 DEF IInv, RateBounded
<1> QED  BY <1>1, <1>2, <1>3, <1>6, <1>7, <1>8 DEF IInv
-----------------------------------------------------------------------------
\* A request that is refused at its window only lets the expired windows go.
LEMMA EvictKeeps ==
    ASSUME IInv, NEW k \in 0..Len(clients), FirstLive(k), clients' = Live(k),
           UNCHANGED <<now, client, counted>>,
           \A q \in Requests : stage'[q] = "idle" => stage[q] = "idle",
           SlotsOK'
    PROVE  IInv'
<1>t. TypeOK  BY DEF IInv, SlotsOK, SlotsCounted
<1>1. /\ Ordered(Live(k))
      /\ \A i \in DOMAIN Live(k) : i + k \in DOMAIN clients /\ Live(k)[i] = clients[i + k]
                                   /\ ~Expired(Live(k)[i])
      /\ \A c : Tracked(c, Live(k)) <=> Watched(c)
  BY <1>t, LiveWindows DEF IInv
<1>2. HistoryOK'  BY DEF IInv, HistoryOK
<1>3. Ordered(clients)'  BY <1>1 DEF Ordered
<1>4. \A c, from, to : Within(c, from, to)' = Within(c, from, to)  BY DEF Within
<1>5. \A c, from : Since(c, from)' = Since(c, from)  BY DEF Since
<1>6. ASSUME NEW i \in DOMAIN clients'  PROVE WindowOK(clients[i])'
  BY <1>1, <1>4, <1>5 DEF IInv, WindowOK
<1>7. ASSUME NEW c \in Clients, ~Watched(c)'  PROVE Quiet(c)'
  <2>1. ~Watched(c)  BY <1>1, <1>7 DEF Watched, Tracked, Expired
  <2> QED  BY <2>1, <1>4 DEF IInv, Quiet
<1>8. RateBounded'  BY <1>4 DEF IInv, RateBounded
<1> QED  BY <1>2, <1>3, <1>6, <1>7, <1>8 DEF IInv

\* The windows after one request more, which is now: that of its client counts it, or there
\* is a new one.
LEMMA CountedWindows ==
    ASSUME TypeOK, NEW c \in Clients, NEW ws \in Seq(Windows), Ordered(ws), ~Refuses(c, ws),
           \A i \in DOMAIN ws : ws[i].start <= now
    PROVE  /\ Count(c, ws) \in Seq(Windows)
           /\ Ordered(Count(c, ws))
           /\ Len(Count(c, ws)) \in {Len(ws), Len(ws) + 1}
           /\ DOMAIN ws \subseteq DOMAIN Count(c, ws)
           /\ \A i \in DOMAIN ws :
                Count(c, ws)[i] = IF ws[i].client = c THEN CountIn(ws[i]) ELSE ws[i]
           /\ \A i \in DOMAIN Count(c, ws) \ DOMAIN ws :
                /\ ~Tracked(c, ws)
                /\ Count(c, ws)[i] = [client |-> c, start |-> now, count |-> 1]
           /\ ~Tracked(c, ws) => \E i \in DOMAIN Count(c, ws) :
                Count(c, ws)[i] = [client |-> c, start |-> now, count |-> 1]
<1>1. /\ Len(ws) \in Nat /\ DOMAIN ws = 1..Len(ws)
      /\ \A i \in 1..Len(ws) : ws[i] \in Windows
  BY LenProperties, ElementOfSeq
<1>2. CASE Tracked(c, ws)
  <2> DEFINE e(i) == IF ws[i].client = c THEN CountIn(ws[i]) ELSE ws[i]
  <2>1. Count(c, ws) = [i \in 1..Len(ws) |-> e(i)]  BY <1>1, <1>2 DEF Count
  <2>2. ASSUME NEW i \in 1..Len(ws)
        PROVE  /\ e(i) \in Windows /\ e(i).client = ws[i].client
               /\ e(i).start = ws[i].start
    <3>1. ws[i] \in Windows  BY <1>1
    <3>2. ws[i].client = c => ws[i].count < RequestsPerMinute
      <4>1. ws[i].client = c => ~Exhausted(ws[i])  BY <1>1 DEF Refuses
      <4>2. ws[i].count \in Nat /\ RequestsPerMinute \in Nat
        BY <3>1, BoundaryConstants DEF Windows
      <4> QED  BY <4>1, <4>2 DEF Exhausted
    <3>3. CASE ws[i].client = c
      <4>1. /\ ws[i].count \in 1..RequestsPerMinute /\ RequestsPerMinute \in Nat
            /\ ws[i].count < RequestsPerMinute
        BY <3>1, <3>2, <3>3, BoundaryConstants DEF Windows
      <4>2. ws[i].count + 1 \in 1..RequestsPerMinute  BY <4>1
      <4>3. CountIn(ws[i]) = [ws[i] EXCEPT !.count = ws[i].count + 1]  BY DEF CountIn
      <4> QED  BY <3>1, <3>3, <4>2, <4>3 DEF Windows
    <3>4. CASE ws[i].client # c  BY <3>1, <3>4
    <3> QED  BY <3>3, <3>4
  <2> HIDE DEF e
  <2>3. [i \in 1..Len(ws) |-> e(i)] \in Seq(Windows)  BY <1>1, <2>2, IsASeq
  <2>4. DOMAIN Count(c, ws) = DOMAIN ws /\ Len(Count(c, ws)) = Len(ws)
    BY <1>1, <2>1, <2>3, LenProperties
  <2>5. \A i \in DOMAIN ws : Count(c, ws)[i] = e(i)  BY <1>1, <2>1
  <2>6. Ordered(Count(c, ws))
    BY <1>1, <2>2, <2>4, <2>5 DEF Ordered
  <2> QED  BY <1>2, <2>1, <2>3, <2>4, <2>5, <2>6 DEF e
<1>3. CASE ~Tracked(c, ws)
  <2> DEFINE w == [client |-> c, start |-> now, count |-> 1]
  <2>1. w \in Windows  BY BoundaryConstants DEF Windows, TypeOK
  <2>2. Count(c, ws) = Append(ws, w)  BY <1>3 DEF Count
  <2> HIDE DEF w
  <2>3. /\ Append(ws, w) \in Seq(Windows) /\ Len(Append(ws, w)) = Len(ws) + 1
        /\ \A i \in 1..Len(ws) : Append(ws, w)[i] = ws[i]
        /\ Append(ws, w)[Len(ws) + 1] = w
    BY <2>1, AppendProperties
  <2>4. DOMAIN Append(ws, w) = 1..(Len(ws) + 1)  BY <2>3, LenProperties
  <2>5. /\ DOMAIN Count(c, ws) = DOMAIN ws \cup {Len(ws) + 1} /\ Len(ws) + 1 \notin DOMAIN ws
        /\ \A i \in DOMAIN ws : i < Len(ws) + 1 /\ ~(Len(ws) + 1 < i) /\ ~(Len(ws) + 1 < Len(ws) + 1)
    BY <1>1, <2>2, <2>4
  <2>6. \A i \in DOMAIN ws : ws[i].client # c  BY <1>3 DEF Tracked
  <2>7. \A i \in DOMAIN ws : Count(c, ws)[i] = ws[i]  BY <1>1, <2>2, <2>3
  <2>8. Count(c, ws)[Len(ws) + 1] = w  BY <2>2, <2>3
  <2>9. Ordered(Count(c, ws))
    <3>1. ASSUME NEW i \in DOMAIN Count(c, ws), NEW j \in DOMAIN Count(c, ws), i < j
          PROVE  /\ Count(c, ws)[i].client # Count(c, ws)[j].client
                 /\ Count(c, ws)[i].start <= Count(c, ws)[j].start
      <4>1. i \in DOMAIN ws  BY <3>1, <2>5
      <4>2. CASE j \in DOMAIN ws  BY <4>1, <4>2, <3>1, <2>7 DEF Ordered
      <4>3. CASE j = Len(ws) + 1  BY <4>1, <4>3, <2>6, <2>7, <2>8 DEF w
      <4> QED  BY <2>5, <4>2, <4>3
    <3> QED  BY <3>1 DEF Ordered
  <2> QED  BY <1>3, <2>2, <2>3, <2>5, <2>6, <2>7, <2>8, <2>9 DEF w
<1> QED  BY <1>2, <1>3
-----------------------------------------------------------------------------
\* A request that is counted: its window was opened at most a window ago and holds fewer
\* than the limit, and so does what came before it that still matters.
LEMMA CountedKeeps ==
    ASSUME IInv, NEW r \in Requests, stage[r] = "idle", NEW k \in 0..Len(clients), FirstLive(k),
           ~Refuses(client[r], Live(k)), clients' = Count(client[r], Live(k)),
           counted' = [counted EXCEPT ![r] = now], UNCHANGED <<now, client>>,
           \A q \in Requests : stage'[q] = "idle" => q # r /\ stage[q] = "idle",
           SlotsOK'
    PROVE  IInv'
<1> DEFINE c == client[r]
           ws == Live(k)
           new == [client |-> c, start |-> now, count |-> 1]
           lately == Within(c, now - Window + 1, now)
<1>t. TypeOK  BY DEF IInv, SlotsOK, SlotsCounted
<1>r. counted[r] = Never /\ c \in Clients  BY <1>t DEF IInv, HistoryOK, TypeOK
<1>1. /\ ws \in Seq(Windows) /\ Ordered(ws)
      /\ \A i \in DOMAIN ws : ~Expired(ws[i]) /\ ws[i].start <= now /\ WindowOK(ws[i])
      /\ \A d : Tracked(d, ws) <=> Watched(d)
  <2>1. /\ ws \in Seq(Windows) /\ Ordered(ws)
        /\ \A i \in DOMAIN ws : i + k \in DOMAIN clients /\ ws[i] = clients[i + k]
                                /\ ~Expired(ws[i])
        /\ \A d : Tracked(d, ws) <=> Watched(d)
    BY <1>t, LiveWindows DEF IInv
  <2> HIDE DEF ws
  <2> QED  BY <2>1 DEF IInv, WindowOK
<1> HIDE DEF ws
<1>2. /\ \A d, from, to :
           Within(d, from, to)' = IF d = c /\ now \in from..to
                                  THEN Within(d, from, to) \cup {r} ELSE Within(d, from, to)
      /\ \A d, from, to : r \notin Within(d, from, to)
      /\ \A d : \A from \in Nat :
           /\ r \notin Since(d, from)
           /\ Since(d, from)' = IF d = c /\ now >= from
                                THEN Since(d, from) \cup {r} ELSE Since(d, from)
  BY <1>t, <1>r, WithinAfter
<1>3. /\ Ordered(clients') /\ DOMAIN ws \subseteq DOMAIN clients'
      /\ \A i \in DOMAIN ws :
           clients'[i] = IF ws[i].client = c THEN CountIn(ws[i]) ELSE ws[i]
      /\ \A i \in DOMAIN clients' \ DOMAIN ws : ~Tracked(c, ws) /\ clients'[i] = new
      /\ ~Tracked(c, ws) => \E i \in DOMAIN clients' : clients'[i] = new
  <2>1. ~Refuses(c, ws) /\ clients' = Count(c, ws)  BY DEF ws
  <2> QED  BY <1>t, <1>r, <1>1, <2>1, CountedWindows
<1>w. \A i \in DOMAIN ws : ws[i] \in Windows /\ ws[i].start \in Nat /\ ws[i].count \in Nat
  <2>1. \A i \in DOMAIN ws : ws[i] \in Windows  BY <1>1, LenProperties, ElementOfSeq
  <2> QED  BY <2>1, BoundaryConstants DEF Windows
<1>n. now \in Nat /\ Window \in Nat \ {0} /\ RequestsPerMinute \in Nat \ {0}
      /\ \A q \in Requests : counted[q] \in Int /\ counted[q] <= now
  BY <1>t, Types DEF IInv, HistoryOK, TypeOK, Never
<1>4. HistoryOK'
  BY <1>t, <1>n DEF IInv, HistoryOK, TypeOK
<1>5. Ordered(clients)'  BY <1>3 DEF Ordered
<1>6. ASSUME ~Tracked(c, ws)
      PROVE  /\ Cardinality(lately) < RequestsPerMinute
             /\ \A q \in Requests : client[q] = c => counted[q] < now
  BY <1>1, <1>6, <1>r DEF IInv, Quiet
<1>7. \A i \in DOMAIN ws : WindowOK(clients[i])'
  <2>1. ASSUME NEW i \in DOMAIN ws, ws[i].client = c  PROVE WindowOK(clients[i])'
    <3>p. PICK s \in Nat : s = ws[i].start  BY <1>w
    <3>1. clients'[i] = [ws[i] EXCEPT !.count = @ + 1]  BY <1>3, <2>1 DEF CountIn
    <3>2. clients'[i].client = c /\ clients'[i].start = s /\ clients'[i].count = ws[i].count + 1
      BY <3>1, <3>p, <1>w, <2>1 DEF Windows
    <3>3. /\ s <= now /\ ws[i].count = Cardinality(Since(c, s))
          /\ Cardinality(Within(c, s - Window + 1, s - 1)) < RequestsPerMinute
          /\ \E q \in Requests : client[q] = c /\ counted[q] = s
      BY <1>1, <2>1, <3>p DEF WindowOK
    <3>4. Since(c, s)' = Since(c, s) \cup {r} /\ r \notin Since(c, s)
      BY <1>2, <3>3
    <3>5. Cardinality(Since(c, s)') = Cardinality(Since(c, s)) + 1
      BY <3>4, OneMore, SubsetsOfRequests
    <3>6. Within(c, s - Window + 1, s - 1)' = Within(c, s - Window + 1, s - 1)
      BY <1>2, <3>3, <1>n
    <3>7. \E q \in Requests : client'[q] = c /\ counted'[q] = s
      <4>1. PICK q \in Requests : client[q] = c /\ counted[q] = s  BY <3>3
      <4>2. q # r  BY <4>1, <1>r DEF Never
      <4> QED  BY <4>1, <4>2, <1>t DEF TypeOK
    <3>8. /\ Since(clients[i].client, clients[i].start)' = Since(c, s)'
          /\ Within(clients[i].client, clients[i].start - Window + 1, clients[i].start - 1)'
               = Within(c, s - Window + 1, s - 1)'
      BY <3>2 DEF Since, Within
    <3> QED  BY <3>2, <3>3, <3>5, <3>6, <3>7, <3>8 DEF WindowOK
  <2>2. ASSUME NEW i \in DOMAIN ws, ws[i].client # c  PROVE WindowOK(clients[i])'
    <3>p. PICK s \in Nat, d \in Clients : s = ws[i].start /\ d = ws[i].client
      BY <1>w DEF Windows
    <3>1. clients'[i] = ws[i]  BY <1>3, <2>2
    <3>2. Since(d, s)' = Since(d, s)  BY <1>2, <2>2, <3>p
    <3>3. Within(d, s - Window + 1, s - 1)' = Within(d, s - Window + 1, s - 1)
      BY <1>2, <2>2, <3>p
    <3>4. \E q \in Requests : client'[q] = d /\ counted'[q] = s
      <4>1. PICK q \in Requests : client[q] = d /\ counted[q] = s  BY <1>1, <3>p DEF WindowOK
      <4>2. q # r  BY <4>1, <1>r DEF Never
      <4> QED  BY <4>1, <4>2, <1>t DEF TypeOK
    <3>5. /\ Since(clients[i].client, clients[i].start)' = Since(d, s)'
          /\ Within(clients[i].client, clients[i].start - Window + 1, clients[i].start - 1)'
               = Within(d, s - Window + 1, s - 1)'
      BY <3>1, <3>p DEF Since, Within
    <3> QED  BY <1>1, <3>p, <3>1, <3>2, <3>3, <3>4, <3>5 DEF WindowOK
  <2> QED  BY <2>1, <2>2
<1>8. \A i \in DOMAIN clients' \ DOMAIN ws : WindowOK(clients[i])'
  <2> SUFFICES ASSUME NEW i \in DOMAIN clients' \ DOMAIN ws  PROVE WindowOK(clients[i])'
    OBVIOUS
  <2>1. /\ ~Tracked(c, ws) /\ clients'[i] = new
        /\ clients'[i].client = c /\ clients'[i].start = now /\ clients'[i].count = 1
    BY <1>3
  <2>2. Since(c, now) = {}  BY <2>1, <1>6, <1>n DEF Since
  <2>3. Since(clients[i].client, clients[i].start)' = {r}
    <3>1. Since(c, now)' = Since(c, now) \cup {r}
      BY <1>2, <1>n
    <3>2. Since(clients[i].client, clients[i].start)' = Since(c, now)'
      BY <2>1 DEF Since
    <3> QED  BY <3>1, <3>2, <2>2
  <2>4. Within(clients[i].client, clients[i].start - Window + 1, clients[i].start - 1)'
          \subseteq lately
    <3>1. Within(c, now - Window + 1, now - 1)' = Within(c, now - Window + 1, now - 1)
      BY <1>2, <1>n
    <3>2. Within(clients[i].client, clients[i].start - Window + 1, clients[i].start - 1)'
            = Within(c, now - Window + 1, now - 1)'
      BY <2>1 DEF Within
    <3>3. Within(c, now - Window + 1, now - 1) \subseteq lately
      BY <1>n DEF Within
    <3> QED  BY <3>1, <3>2, <3>3
  <2>5. Cardinality(Within(clients[i].client, clients[i].start - Window + 1,
                           clients[i].start - 1)') < RequestsPerMinute
    <3> DEFINE T == Within(clients[i].client, clients[i].start - Window + 1, clients[i].start - 1)'
    <3>1. lately \in SUBSET Requests /\ T \in SUBSET lately /\ T \in SUBSET Requests
      BY <2>4, SubsetsOfRequests
    <3> HIDE DEF T, lately
    <3>2. Cardinality(T) <= Cardinality(lately) /\ Cardinality(T) \in Nat /\ Cardinality(lately) \in Nat
      BY <3>1, Fewer, Finite
    <3> QED  BY <3>2, <2>1, <1>6, <1>n DEF T, lately
  <2>6. client'[r] = c /\ counted'[r] = now  BY <1>t DEF TypeOK
  <2>7. Cardinality({r}) = 1  BY FS_Singleton
  <2>8. clients'[i].count = Cardinality(Since(clients[i].client, clients[i].start)')
    BY <2>1, <2>3, <2>7
  <2>9. clients'[i].start <= now'  BY <2>1, <1>n
  <2>10. \E q \in Requests : client'[q] = clients'[i].client /\ counted'[q] = clients'[i].start
    BY <2>1, <2>6
  <2> HIDE DEF c, new
  <2> QED  BY <2>5, <2>8, <2>9, <2>10 DEF WindowOK
<1>9. ASSUME NEW d \in Clients, ~Watched(d)'  PROVE Quiet(d)'
  <2>1. \A i \in DOMAIN clients' : clients'[i].client = d => now - clients'[i].start >= Window
    BY <1>9 DEF Watched, Expired
  <2>2. ~Tracked(d, ws)
    <3> SUFFICES ASSUME NEW i \in DOMAIN ws, ws[i].client = d  PROVE FALSE  BY DEF Tracked
    <3>1. clients'[i].client = d /\ clients'[i].start = ws[i].start /\ i \in DOMAIN clients'
      BY <1>3, <1>w DEF CountIn, Windows
    <3> QED  BY <3>1, <2>1, <1>1 DEF Expired
  <2>3. d # c
    <3>1. ASSUME ~Tracked(c, ws)
          PROVE  \E i \in DOMAIN clients' : clients'[i].client = c /\ clients'[i].start = now
      BY <1>3, <3>1
    <3> QED  BY <3>1, <2>1, <2>2, <1>n
  <2>4. Quiet(d)  BY <2>2, <1>1 DEF IInv
  <2>5. Within(d, now - Window + 1, now)' = Within(d, now - Window + 1, now)
    BY <1>2, <2>3
  <2>6. \A q \in Requests : client[q] = d => counted'[q] < now
    BY <2>3, <2>4, <1>t DEF Quiet, TypeOK
  <2> QED  BY <2>4, <2>5, <2>6 DEF Quiet
<1>10. ASSUME NEW d \in Clients, NEW t \in 0..MaxTime
       PROVE  Cardinality(Within(d, t, t + Window - 1)') < 2 * RequestsPerMinute
  <2> DEFINE old == Within(d, t, t + Window - 1)
  <2>1. old \in SUBSET Requests /\ Cardinality(old) \in Nat /\ Cardinality(old) < 2 * RequestsPerMinute
    BY SubsetsOfRequests, Finite DEF IInv, RateBounded
  <2>2. CASE ~(d = c /\ now \in t..(t + Window - 1))  BY <2>2, <2>1, <1>2
  <2>3. CASE d = c /\ now \in t..(t + Window - 1)
    <3>1. Within(d, t, t + Window - 1)' = old \cup {r}  BY <2>3, <1>2
    <3>2. r \notin old  BY <1>2
    <3>3. Cardinality(old \cup {r}) = Cardinality(old) + 1  BY <2>1, <3>2, OneMore
    <3>t. t \in Nat /\ t <= now /\ now <= t + Window - 1  BY <2>3, BoundaryConstants
    <3>4. CASE Tracked(c, ws)
      <4>1. PICK i \in DOMAIN ws : ws[i].client = c  BY <3>4 DEF Tracked
      <4> DEFINE S == Since(c, ws[i].start)
                 P == Within(c, ws[i].start - Window + 1, ws[i].start - 1)
      <4>2. old \subseteq S \cup P
        <5> SUFFICES ASSUME NEW q \in old, q \notin S  PROVE q \in P  OBVIOUS
        <5>1. q \in Requests /\ client[q] = c /\ counted[q] # Never /\ counted[q] \in t..(t + Window - 1)
          BY <2>3 DEF Within
        <5>2. counted[q] < ws[i].start  BY <5>1, <1>w, <1>n DEF Since
        <5>3. ws[i].start - Window + 1 <= counted[q]
          BY <5>1, <1>1, <1>w, <1>n, <3>t DEF Expired
        <5> QED  BY <5>1, <5>2, <5>3, <1>w, <1>n DEF Within
      <4>3. S \in SUBSET Requests /\ P \in SUBSET Requests
            /\ Cardinality(S) \in Nat /\ Cardinality(P) \in Nat
        BY SubsetsOfRequests, Finite
      <4>4. Cardinality(P) < RequestsPerMinute /\ ws[i].count = Cardinality(S)
        BY <1>1, <4>1 DEF WindowOK
      <4>5. ws[i].count < RequestsPerMinute
        <5>1. ~Refuses(c, ws)  BY DEF ws
        <5> QED  BY <5>1, <4>1, <1>w, <1>n DEF Refuses, Exhausted
      <4> HIDE DEF S, P, old
      <4>6. Cardinality(old) <= Cardinality(S) + Cardinality(P)
        BY <4>2, <4>3, <2>1, AtMostBoth
      <4>7. Cardinality(old \cup {r}) < 2 * RequestsPerMinute
        BY <2>1, <3>3, <4>3, <4>4, <4>5, <4>6, <1>w, <1>n
      <4> QED  BY <3>1, <4>7
    <3>5. CASE ~Tracked(c, ws)
      <4>1. old \subseteq lately  BY <2>3, <3>t, <1>n DEF Within
      <4>2. lately \in SUBSET Requests  BY SubsetsOfRequests
      <4>3. Cardinality(lately) < RequestsPerMinute  BY <3>5, <1>6
      <4> HIDE DEF old, lately
      <4>4. Cardinality(old) <= Cardinality(lately) /\ Cardinality(lately) \in Nat
        BY <4>1, <4>2, Fewer, Finite
      <4>5. Cardinality(old \cup {r}) < 2 * RequestsPerMinute
        BY <2>1, <3>3, <4>3, <4>4, <1>n
      <4> QED  BY <3>1, <4>5
    <3> QED  BY <3>4, <3>5
  <2> QED  BY <2>2, <2>3
<1>11. RateBounded'  BY <1>10 DEF RateBounded
<1> QED  BY <1>4, <1>5, <1>7, <1>8, <1>9, <1>11 DEF IInv
-----------------------------------------------------------------------------
\* The slots.  A step that admits and releases nobody:
LEMMA SlotsUntouched ==
    ASSUME SlotsOK, TypeOK', UNCHANGED <<inflight, admitted>>,
           \A q \in Requests : stage'[q] = "idle" => stage[q] = "idle"
    PROVE  SlotsOK' /\ UNCHANGED Pool!poolVars
BY DEF SlotsOK, SlotsCounted, Pool!poolVars

LEMMA RejectHeadersKeeps ==
    ASSUME IInv, NEW r \in Requests, RejectHeaders(r)
    PROVE  IInv' /\ UNCHANGED Pool!poolVars
<1>1. TypeOK'  BY DEF IInv, SlotsOK, SlotsCounted, TypeOK, Stages, RejectHeaders, Goto
<1>2. /\ UNCHANGED <<now, clients, client, counted>>
      /\ \A q \in Requests : stage'[q] = "idle" => stage[q] = "idle"
  BY DEF IInv, SlotsOK, SlotsCounted, TypeOK, RejectHeaders, Goto
<1>3. SlotsOK' /\ UNCHANGED Pool!poolVars
  BY <1>1, <1>2, SlotsUntouched DEF IInv, RejectHeaders
<1> QED  BY <1>2, <1>3, WindowsUntouched

LEMMA ReadBodyKeeps ==
    ASSUME IInv, NEW r \in Requests, ReadBody(r)
    PROVE  IInv' /\ UNCHANGED Pool!poolVars
<1>0. TypeOK  BY DEF IInv, SlotsOK, SlotsCounted
<1>1. stage' \in [Requests -> Stages] /\ \A q \in Requests : stage'[q] = "idle" => stage[q] = "idle"
  BY <1>0 DEF TypeOK, Stages, ReadBody, Goto
<1>2. size' \in [Requests -> 0..MaxBody]
  <2>1. size[r] \in 0..MaxBody  BY <1>0 DEF TypeOK
  <2>2. size[r] # MaxBody => size[r] + 1 \in 0..MaxBody  BY <2>1, BoundaryConstants
  <2> QED  BY <1>0, <2>2 DEF TypeOK, ReadBody
<1>3. TypeOK'  BY <1>0, <1>1, <1>2 DEF TypeOK, ReadBody
<1>4. SlotsOK' /\ UNCHANGED Pool!poolVars
  BY <1>1, <1>3, SlotsUntouched DEF IInv, ReadBody
<1>5. UNCHANGED <<now, clients, client, counted>>  BY DEF ReadBody
<1> QED  BY <1>1, <1>4, <1>5, WindowsUntouched

LEMMA BodyTimeoutKeeps ==
    ASSUME IInv, NEW r \in Requests, BodyTimeout(r)
    PROVE  IInv' /\ UNCHANGED Pool!poolVars
<1>1. TypeOK'  BY DEF IInv, SlotsOK, SlotsCounted, TypeOK, Stages, BodyTimeout, Goto
<1>2. /\ UNCHANGED <<now, clients, client, counted>>
      /\ \A q \in Requests : stage'[q] = "idle" => stage[q] = "idle"
  BY DEF IInv, SlotsOK, SlotsCounted, TypeOK, BodyTimeout, Goto
<1>3. SlotsOK' /\ UNCHANGED Pool!poolVars
  BY <1>1, <1>2, SlotsUntouched DEF IInv, BodyTimeout
<1> QED  BY <1>2, <1>3, WindowsUntouched

\* Whichever exit a request takes, it gives back the one slot it has, if it has one.
LEMMA FinishKeeps ==
    ASSUME IInv, NEW r \in Requests, Finish(r)
    PROVE  IInv' /\ (Pool!Release(r) \/ UNCHANGED Pool!poolVars)
<1>0. TypeOK /\ inflight = Cardinality(admitted)  BY DEF IInv, SlotsOK, SlotsCounted
<1>1. /\ admitted \in SUBSET Requests /\ IsFiniteSet(admitted) /\ Cardinality(admitted) \in Nat
  BY <1>0, Finite DEF TypeOK
<1>2. /\ IsFiniteSet(admitted \ {r})
      /\ Cardinality(admitted \ {r}) = IF r \in admitted THEN inflight - 1 ELSE inflight
  BY <1>0, <1>1, FS_RemoveElement
<1>3. Cardinality(admitted \ {r}) \in Nat  BY <1>2, FS_CardinalityType
<1>4. inflight' = Cardinality(admitted') /\ inflight' \in 0..MaxInflight
  BY <1>0, <1>2, <1>3, BoundaryConstants DEF TypeOK, Finish, SlotsAfter
<1>5. /\ stage' \in [Requests -> Stages]
      /\ \A q \in Requests : stage'[q] = "idle" => stage[q] = "idle"
  BY <1>0 DEF TypeOK, Stages, Finish, Goto
<1>6. size' \in [Requests -> 0..MaxBody]  BY <1>0, BoundaryConstants DEF TypeOK, Finish
<1>7. TypeOK'  BY <1>0, <1>4, <1>5, <1>6 DEF TypeOK, Finish
<1>8. SlotsOK'
  BY <1>4, <1>5, <1>7 DEF IInv, SlotsOK, SlotsCounted, Finish
<1>9. UNCHANGED <<now, clients, client, counted>>  BY DEF Finish
<1>10. Pool!Release(r) \/ UNCHANGED Pool!poolVars
  <2>1. CASE r \in admitted  BY <2>1 DEF Finish, Pool!Release, Pool!Left
  <2>2. CASE r \notin admitted  BY <2>2 DEF Finish, Pool!poolVars
  <2> QED  BY <2>1, <2>2
<1> QED  BY <1>5, <1>8, <1>9, <1>10, WindowsUntouched

\* Admission: what it counts, what it refuses and whom it lets in
LEMMA AdmitKeeps ==
    ASSUME IInv, NEW r \in Requests, Admit(r)
    PROVE  IInv' /\ (Pool!Admit(r) \/ UNCHANGED Pool!poolVars)
<1>0. TypeOK /\ inflight = Cardinality(admitted)  BY DEF IInv, SlotsOK, SlotsCounted
<1>1. PICK k \in 0..Len(clients) :
        /\ FirstLive(k)
        /\ IF Refuses(client[r], Live(k))
           THEN clients' = Live(k) /\ Goto(r, "limited") /\ UNCHANGED <<inflight, admitted, counted>>
           ELSE /\ clients' = Count(client[r], Live(k))
                /\ counted' = [counted EXCEPT ![r] = now]
                /\ IF Full THEN Goto(r, "rejecting") /\ UNCHANGED <<inflight, admitted>>
                   ELSE /\ inflight' = inflight + 1
                        /\ admitted' = admitted \cup {r}
                        /\ Goto(r, "reading")
  BY DEF Admit
<1>2. stage[r] = "idle" /\ UNCHANGED <<now, size, client>>  BY DEF Admit
<1>3. /\ Live(k) \in Seq(Windows) /\ Ordered(Live(k))
      /\ \A i \in DOMAIN Live(k) : i + k \in DOMAIN clients /\ Live(k)[i] = clients[i + k]
  BY <1>0, <1>1, LiveWindows DEF IInv
<1>4. stage' \in [Requests -> Stages] /\ stage' = [stage EXCEPT ![r] = stage'[r]]
      /\ stage'[r] \in {"limited", "rejecting", "reading"}
  BY <1>0, <1>1 DEF TypeOK, Stages, Goto
<1>5. \A q \in Requests : stage'[q] = "idle" => q # r /\ stage[q] = "idle"
  BY <1>0, <1>4 DEF TypeOK
<1>6. CASE Refuses(client[r], Live(k))
  <2>1. TypeOK'  BY <1>0, <1>1, <1>2, <1>3, <1>4, <1>6 DEF TypeOK
  <2>2. SlotsOK' /\ UNCHANGED Pool!poolVars
    BY <1>1, <1>5, <1>6, <2>1, SlotsUntouched DEF IInv
  <2> QED  BY <1>1, <1>2, <1>5, <1>6, <2>2, EvictKeeps
<1>7. CASE ~Refuses(client[r], Live(k))
  <2>1. clients' \in Seq(Windows)
    <3>1. \A i \in DOMAIN Live(k) : Live(k)[i].start <= now  BY <1>3 DEF IInv, WindowOK
    <3>2. client[r] \in Clients  BY <1>0 DEF TypeOK
    <3> QED  BY <1>0, <1>1, <1>3, <1>7, <3>1, <3>2, CountedWindows
  <2>2. counted' \in [Requests -> 0..MaxTime \cup {Never}]
    BY <1>0, <1>1, <1>7 DEF TypeOK
  <2>3. SlotsOK' /\ (Pool!Admit(r) \/ UNCHANGED Pool!poolVars)
    <3>1. CASE Full
      <4>1. TypeOK'  BY <1>0, <1>1, <1>2, <1>4, <1>7, <2>1, <2>2, <3>1 DEF TypeOK
      <4> QED  BY <1>1, <1>5, <1>7, <3>1, <4>1, SlotsUntouched DEF IInv
    <3>2. CASE ~Full
      <4>1. inflight' = inflight + 1 /\ admitted' = admitted \cup {r}  BY <1>1, <1>7, <3>2
      <4>2. inflight \in Nat /\ inflight < MaxInflight
        BY <1>0, <3>2, BoundaryConstants DEF TypeOK, Full
      <4>3. inflight' \in 0..MaxInflight  BY <4>1, <4>2, BoundaryConstants
      <4>4. TypeOK'  BY <1>0, <1>2, <1>4, <2>1, <2>2, <4>1, <4>3 DEF TypeOK
      <4>5. r \notin admitted
        BY <1>2 DEF IInv, SlotsOK
      <4>6. Cardinality(admitted') = Cardinality(admitted) + 1
        <5>1. admitted \in SUBSET Requests  BY <1>0 DEF TypeOK
        <5> QED  BY <4>1, <4>5, <5>1, OneMore
      <4>7. SlotsOK'
        BY <1>0, <1>5, <4>1, <4>4, <4>6 DEF IInv, SlotsOK, SlotsCounted
      <4>8. Cardinality(admitted) < MaxInflight  BY <1>0, <4>2
      <4>9. Pool!Admit(r)
        <5>1. Pool!Cardinality(admitted) = Cardinality(admitted)
          BY DEF Pool!Cardinality, Cardinality
        <5> QED  BY <4>1, <4>5, <4>8, <5>1 DEF Pool!Admit
      <4> QED  BY <4>7, <4>9
    <3> QED  BY <3>1, <3>2
  <2> QED  BY <1>1, <1>2, <1>5, <1>7, <2>3, CountedKeeps
<1> QED  BY <1>6, <1>7
-----------------------------------------------------------------------------
LEMMA InitOK == Init => IInv
<1> SUFFICES ASSUME Init  PROVE IInv
  OBVIOUS
<1>1. clients = <<>> /\ <<>> \in Seq(Windows) /\ DOMAIN clients = {}
  <2>1. <<>> \in Seq(Windows) /\ Len(<<>>) = 0  BY EmptySeq
  <2>2. DOMAIN <<>> = 1..0  BY <2>1, LenProperties
  <2> QED  BY <2>1, <2>2 DEF Init
<1>2. TypeOK  BY <1>1, BoundaryConstants DEF Init, TypeOK, Stages, Never
<1>3. SlotsOK  BY <1>2, FS_EmptySet DEF Init, SlotsOK, SlotsCounted
<1>4. HistoryOK  BY DEF Init, HistoryOK, Never
<1>5. \A c, from, to : Within(c, from, to) = {}  BY DEF Init, Within
<1>6. ASSUME NEW c \in Clients  PROVE Quiet(c)
  <2>1. Cardinality(Within(c, now - Window + 1, now)) = 0  BY <1>5, FS_EmptySet
  <2>2. \A r \in Requests : counted[r] < now  BY DEF Init, Never
  <2> QED  BY <2>1, <2>2, BoundaryConstants DEF Quiet
<1>7. RateBounded  BY <1>5, FS_EmptySet, BoundaryConstants DEF RateBounded
<1> QED  BY <1>1, <1>3, <1>4, <1>6, <1>7 DEF IInv, Ordered

\* Every step keeps the invariant and is a step of the pool, or none.
LEMMA NextKeeps ==
    ASSUME IInv, [Next]_vars
    PROVE  IInv' /\ [Pool!PoolNext]_Pool!poolVars
<1>1. ASSUME NEW r \in Requests,
             RejectHeaders(r) \/ Admit(r) \/ ReadBody(r) \/ BodyTimeout(r) \/ Finish(r)
      PROVE  IInv' /\ (Pool!Admit(r) \/ Pool!Release(r) \/ UNCHANGED Pool!poolVars)
  BY <1>1, RejectHeadersKeeps, AdmitKeeps, ReadBodyKeeps, BodyTimeoutKeeps, FinishKeeps
<1>2. CASE Tick
  BY <1>2, TickKeeps DEF Tick, Pool!poolVars
<1>3. CASE UNCHANGED vars
  <2>1. SlotsOK'  BY <1>3 DEF IInv, SlotsOK, SlotsCounted, TypeOK, vars
  <2>2. \A q \in Requests : stage'[q] = "idle" => stage[q] = "idle"  BY <1>3 DEF vars
  <2>3. IInv'  BY <1>3, <2>1, <2>2, WindowsUntouched DEF vars
  <2> QED  BY <1>3, <2>3 DEF vars, Pool!poolVars
<1> QED  BY <1>1, <1>2, <1>3 DEF Next, Pool!PoolNext

\* The invariant holds in every reachable state.
THEOREM Invariance == Spec => []IInv
<1>1. IInv /\ [Next]_vars => IInv'  BY NextKeeps
<1> QED  BY <1>1, InitOK, PTL DEF Spec

\* Every request that is let in has one slot, and gives it back by whatever exit it leaves;
\* all is well typed (http_guard.py:115-118, 171-173).
THEOREM SlotsAreCounted == Spec => []SlotsCounted
<1>1. IInv => SlotsCounted  BY DEF IInv, SlotsOK
<1> QED  BY <1>1, Invariance, PTL

\* Fewer than twice the limit are counted for any client in any window's length of time
\* (http_guard.py:26-41).
THEOREM RatesAreBounded == Spec => []RateBounded
<1>1. IInv => RateBounded  BY DEF IInv
<1> QED  BY <1>1, Invariance, PTL

\* The boundary implements the admission pool (http_guard.py:115-118, 171-173).
THEOREM ImplementsPool == Spec => PoolRefined
<1>1. Init => Pool!PoolInit  BY DEF Init, Pool!PoolInit
<1>2. IInv /\ [Next]_vars => [Pool!PoolNext]_Pool!poolVars  BY NextKeeps
<1> QED  BY <1>1, <1>2, Invariance, PTL DEF Spec, PoolRefined, Pool!PoolSpec

-----------------------------------------------------------------------------
\* Only admission says 429, and then with a cause.
LEMMA LimitedWithCause ==
    ASSUME IInv, NEW r \in Requests, Admit(r), stage'[r] = "limited"
    PROVE  \/ Cardinality(Within(client[r], now - Window + 1, now)) >= RequestsPerMinute
           \/ Cardinality({c \in Clients \ {client[r]} : Within(c, now - Window + 1, now) # {}})
                 >= MaxRateClients
<1> DEFINE lately(c) == Within(c, now - Window + 1, now)
           others == {c \in Clients \ {client[r]} : lately(c) # {}}
<1>t. TypeOK  BY DEF IInv, SlotsOK, SlotsCounted
<1>1. PICK k \in 0..Len(clients) : FirstLive(k) /\ Refuses(client[r], Live(k))
  BY <1>t DEF Admit, Goto, TypeOK
<1> DEFINE ws == Live(k)
<1>2. /\ ws \in Seq(Windows) /\ Ordered(ws)
      /\ \A i \in DOMAIN ws : ~Expired(ws[i]) /\ WindowOK(ws[i])
  <2>1. /\ ws \in Seq(Windows) /\ Ordered(ws)
        /\ \A i \in DOMAIN ws : i + k \in DOMAIN clients /\ ws[i] = clients[i + k]
                                /\ ~Expired(ws[i])
    BY <1>t, <1>1, LiveWindows DEF IInv
  <2> QED  BY <2>1 DEF IInv
<1>3. Refuses(client[r], ws)  BY <1>1
<1> HIDE DEF ws
<1>4. Len(ws) \in Nat /\ DOMAIN ws = 1..Len(ws) /\ \A i \in DOMAIN ws : ws[i] \in Windows
  BY <1>2, LenProperties, ElementOfSeq
<1>5. /\ now \in Nat /\ Window \in Nat \ {0} /\ RequestsPerMinute \in Nat \ {0}
      /\ MaxRateClients \in Nat \ {0}
      /\ \A q \in Requests : counted[q] \in Int /\ counted[q] <= now
  BY <1>t, Types, BoundaryConstants DEF IInv, HistoryOK, TypeOK, Never
<1>6. ASSUME NEW i \in DOMAIN ws
      PROVE  Since(ws[i].client, ws[i].start) \subseteq lately(ws[i].client)
             /\ lately(ws[i].client) # {}
  <2>1. ws[i].start \in Nat /\ now - ws[i].start < Window
    BY <1>2, <1>4, <1>5, BoundaryConstants DEF Expired, Windows
  <2>2. Since(ws[i].client, ws[i].start) \subseteq lately(ws[i].client)
    BY <2>1, <1>5 DEF Since, Within, Never
  <2>3. Since(ws[i].client, ws[i].start) # {}
    <3>1. PICK q \in Requests : client[q] = ws[i].client /\ counted[q] = ws[i].start
      BY <1>2 DEF WindowOK
    <3>2. q \in Since(ws[i].client, ws[i].start)  BY <3>1, <2>1 DEF Since
    <3> QED  BY <3>2
  <2> QED  BY <2>2, <2>3
<1>7. CASE \E i \in DOMAIN ws : ws[i].client = client[r] /\ Exhausted(ws[i])
  <2>1. PICK i \in DOMAIN ws : ws[i].client = client[r] /\ ws[i].count >= RequestsPerMinute
    BY <1>7 DEF Exhausted
  <2> DEFINE S == Since(client[r], ws[i].start)
             L == lately(client[r])
  <2>2. S \in SUBSET L /\ L \in SUBSET Requests /\ S \in SUBSET Requests
    BY <1>6, <2>1, SubsetsOfRequests
  <2>3. ws[i].count = Cardinality(S)  BY <1>2, <2>1 DEF WindowOK
  <2>4. Cardinality(L) >= RequestsPerMinute
    <3> HIDE DEF S, L
    <3>1. Cardinality(S) <= Cardinality(L) /\ Cardinality(S) \in Nat /\ Cardinality(L) \in Nat
      BY <2>2, Fewer, Finite
    <3> QED  BY <3>1, <2>1, <2>3, <1>5
  <2> QED  BY <2>4
<1>8. CASE ~Tracked(client[r], ws) /\ Len(ws) >= MaxRateClients
  <2> DEFINE f == [i \in 1..Len(ws) |-> ws[i].client]
             senders == {client[q] : q \in Requests}
  <2>1. IsFiniteSet(others)
    <3>1. client \in Surjection(Requests, senders)  BY <1>t DEF Surjection, TypeOK
    <3>2. IsFiniteSet(senders)
      <4> HIDE DEF senders
      <4> QED  BY <3>1, BoundaryConstants, FS_Surjection
    <3>3. others \in SUBSET senders  BY DEF Within
    <3> QED  BY <3>2, <3>3, FS_Subset
  <2>2. f \in [1..Len(ws) -> others]
    <3> SUFFICES ASSUME NEW i \in 1..Len(ws)  PROVE ws[i].client \in others
      OBVIOUS
    <3>1. ws[i].client \in Clients /\ lately(ws[i].client) # {}  BY <1>4, <1>6 DEF Windows
    <3>2. ws[i].client # client[r]  BY <1>4, <1>8 DEF Tracked
    <3> QED  BY <3>1, <3>2
  <2>3. ASSUME NEW i \in 1..Len(ws), NEW j \in 1..Len(ws), f[i] = f[j]  PROVE i = j
    <3>1. ~(i < j) /\ ~(j < i)  BY <2>3, <1>2, <1>4 DEF Ordered
    <3> QED  BY <3>1
  <2>4. f \in Injection(1..Len(ws), others)  BY <2>2, <2>3 DEF Injection, IsInjective
  <2>5. Cardinality(1..Len(ws)) = Len(ws)
    <3>1. PICK n \in Nat : n = Len(ws)  BY <1>4
    <3>2. Cardinality(1..n) = IF 1 > n THEN 0 ELSE n - 1 + 1  BY FS_Interval
    <3>3. Cardinality(1..n) = n  BY <3>2
    <3> QED  BY <3>1, <3>3
  <2>6. Cardinality(others) >= MaxRateClients
    <3> HIDE DEF others, f
    <3>1. Cardinality(1..Len(ws)) <= Cardinality(others)  BY <2>1, <2>4, FS_Injection
    <3>2. Cardinality(others) \in Nat  BY <2>1, FS_CardinalityType
    <3> QED  BY <3>1, <3>2, <2>5, <1>4, <1>5, <1>8
  <2> QED  BY <2>6
<1> QED  BY <1>3, <1>7, <1>8 DEF Refuses

\* A client is refused only for what happened within the last window's length of time: its
\* own requests, or those of as many others as are tracked (http_guard.py:28-39).
THEOREM RefusalsHaveACause == Spec => RefusedWithCause
<1>1. ASSUME IInv, [Next]_vars, NEW r \in Requests, stage[r] = "idle", stage'[r] = "limited"
      PROVE  Admit(r)
  <2>1. TypeOK  BY <1>1 DEF IInv, SlotsOK, SlotsCounted
  <2>2. ASSUME NEW q \in Requests, q # r,
               RejectHeaders(q) \/ Admit(q) \/ ReadBody(q) \/ BodyTimeout(q) \/ Finish(q)
        PROVE  stage'[r] = stage[r]
    BY <2>1, <2>2 DEF TypeOK, RejectHeaders, Admit, ReadBody, BodyTimeout, Finish, Goto
  <2>3. ~RejectHeaders(r) /\ ~ReadBody(r) /\ ~BodyTimeout(r) /\ ~Finish(r)
    BY <1>1, <2>1 DEF TypeOK, RejectHeaders, ReadBody, BodyTimeout, Finish, Goto
  <2> QED  BY <1>1, <2>2, <2>3 DEF Next, vars, Tick
<1>2. IInv /\ [Next]_vars =>
        \A r \in Requests : stage[r] = "idle" /\ stage'[r] = "limited" =>
          \/ Cardinality(Within(client[r], now - Window + 1, now)) >= RequestsPerMinute
          \/ Cardinality({c \in Clients \ {client[r]} : Within(c, now - Window + 1, now) # {}})
                >= MaxRateClients
  BY <1>1, LimitedWithCause
<1> QED  BY <1>2, Invariance, PTL DEF Spec, RefusedWithCause
=============================================================================
