------------------------ MODULE PollingClientsProofs ------------------------
(***************************************************************************)
(* Proofs about the replication frames and the clients that live on them:  *)
(* for any number of sessions, characters and clients and any retention, a *)
(* frame reports every difference to the version it was asked from, and a  *)
(* client's copy is the state the server had at the client's cursor.       *)
(*                                                                         *)
(* Both need that no character is in the state under two tokens            *)
(* (Overlap = FALSE): with two, changedFields keeps the last one listed    *)
(* and says nothing of the other.                                          *)
(***************************************************************************)
EXTENDS PollingClients, SequenceTheorems, TLAPS

\* Every character has one session in the snapshot.
Lone(snapshot) ==
    \A t, u \in DOMAIN snapshot : Owner[t] = Owner[u] => t = u

\* Two snapshots a client cannot tell apart.
Same(a, b) == \A ch \in Characters, d \in Details : Detail(a, ch, d) = Detail(b, ch, d)

-----------------------------------------------------------------------------
(* What Covers is closed under *)

LEMMA CoversChain ==
    ASSUME NEW A, NEW B, NEW a, NEW b, NEW c, Covers(A, a, b), Covers(B, b, c)
    PROVE  Covers(A \cup B, a, c)
BY DEF Covers

LEMMA CoversMore ==
    ASSUME NEW A, NEW B, NEW a, NEW b, Covers(A, a, b), A \subseteq B
    PROVE  Covers(B, a, b)
BY DEF Covers

LEMMA CoversFrom ==
    ASSUME NEW A, NEW a, NEW b, NEW c, Covers(A, a, b), Same(c, a)
    PROVE  Covers(A, c, b)
BY DEF Covers, Same

LEMMA CoversTo ==
    ASSUME NEW A, NEW a, NEW b, NEW c, Covers(A, a, b), Same(b, c)
    PROVE  Covers(A, a, c)
BY DEF Covers, Same

LEMMA NothingToCover ==
    ASSUME NEW A, NEW a, NEW b, Same(a, b)
    PROVE  Covers(A, a, b)
BY DEF Covers, Same

LEMMA CoveredByNothing ==
    ASSUME NEW a, NEW b, Covers({}, a, b)
    PROVE  Same(a, b)
BY DEF Covers, Same

-----------------------------------------------------------------------------
(* changedFields *)

LEMMA SnapshotFacts ==
    ASSUME NEW a \in Snapshots
    PROVE  /\ DOMAIN a \subseteq Sessions
           /\ \A t \in DOMAIN a : a[t] \in Player
BY DEF Snapshots

LEMMA IsSnapshot ==
    ASSUME NEW S \in SUBSET Sessions, NEW a \in [S -> Player]
    PROVE  a \in Snapshots
BY DEF Snapshots

\* The last listed session of a character with one session is that session.
LEMMA TheOnlyListed ==
    ASSUME NEW a \in Snapshots, Lone(a), NEW p \in DOMAIN a
    PROVE  /\ SessionsOf(a, Owner[p]) = {p}
           /\ LastListed(a, Owner[p]) = p
<1>1. p \in Nat
  BY SnapshotFacts, ReplicationAssumption
<1>2. SessionsOf(a, Owner[p]) = {p}
  BY DEF Lone, SessionsOf
<1>3. p <= p
  BY <1>1
<1> QED
  BY <1>2, <1>3 DEF LastListed

\* changedFields names every difference between two snapshots in which each
\* character has one session.
LEMMA StepCovers ==
    ASSUME NEW a \in Snapshots, NEW b \in Snapshots, Lone(a), Lone(b)
    PROVE  Covers(ChangedFields(a, b), a, b)
<1> SUFFICES ASSUME NEW ch \in Characters, NEW d \in Details,
                    Detail(a, ch, d) # Detail(b, ch, d)
             PROVE  {<<ch, d>>, <<ch, "created">>, <<ch, "removed">>} \cap ChangedFields(a, b) # {}
  BY DEF Covers
<1>1. CASE SessionsOf(a, ch) = {} /\ SessionsOf(b, ch) = {}
  <2>1. d = "identity" \/ d = "place" \/ d = "connection"
    BY DEF Details
  <2>2. Detail(a, ch, d) = {} /\ Detail(b, ch, d) = {}
    BY <1>1, <2>1 DEF Detail
  <2> QED
    BY <2>2
<1>2. CASE SessionsOf(a, ch) # {} /\ SessionsOf(b, ch) = {}
  <2>1. ch \in Removed(a, b)
    BY <1>2 DEF Removed
  <2>2. <<ch, "removed">> \in ChangedFields(a, b)
    BY <2>1 DEF ChangedFields, NormalizeChangedFields
  <2> QED
    BY <2>2
<1>3. CASE SessionsOf(b, ch) # {}
  <2>1. PICK t \in DOMAIN b : Owner[t] = ch
    BY <1>3 DEF SessionsOf
  <2>2. PlayerChange(a, b, t) \subseteq ChangedFields(a, b)
    BY <2>1 DEF ChangedFields, NormalizeChangedFields
  <2>3. CASE SessionsOf(a, ch) = {}
    <3>1. <<ch, "created">> \in PlayerChange(a, b, t)
      BY <2>1, <2>3 DEF PlayerChange
    <3> QED
      BY <2>2, <3>1
  <2>4. CASE SessionsOf(a, ch) # {}
    <3>1. PICK p \in DOMAIN a : Owner[p] = ch
      BY <2>4 DEF SessionsOf
    <3>2. SessionsOf(a, ch) = {p} /\ LastListed(a, ch) = p
      BY <3>1, TheOnlyListed
    <3>3. SessionsOf(b, ch) = {t}
      BY <2>1, TheOnlyListed
    <3>4. PlayerChange(a, b, t) = {<<ch, e>> : e \in ChangedPlayerFields(p, a[p], t, b[t])}
      BY <2>1, <2>4, <3>2 DEF PlayerChange
    <3>5. ASSUME d = "identity"
          PROVE  d \in ChangedPlayerFields(p, a[p], t, b[t])
      <4>1. p # t
        BY <3>2, <3>3, <3>5 DEF Detail
      <4> QED
        BY <3>5, <4>1 DEF ChangedPlayerFields
    <3>6. ASSUME d = "place"
          PROVE  d \in ChangedPlayerFields(p, a[p], t, b[t])
      <4>1. Detail(a, ch, "place") = {a[p].place} /\ Detail(b, ch, "place") = {b[t].place}
        BY <3>2, <3>3 DEF Detail
      <4>2. a[p].place # b[t].place
        BY <3>6, <4>1
      <4> QED
        BY <3>6, <4>2 DEF ChangedPlayerFields
    <3>7. ASSUME d = "connection"
          PROVE  d \in ChangedPlayerFields(p, a[p], t, b[t])
      <4>1. /\ Detail(a, ch, "connection") = {a[p].connected}
            /\ Detail(b, ch, "connection") = {b[t].connected}
        BY <3>2, <3>3 DEF Detail
      <4>2. a[p].connected # b[t].connected
        BY <3>7, <4>1
      <4> QED
        BY <3>7, <4>2 DEF ChangedPlayerFields
    <3>8. d \in ChangedPlayerFields(p, a[p], t, b[t])
      BY <3>5, <3>6, <3>7 DEF Details
    <3>9. <<ch, d>> \in ChangedFields(a, b)
      BY <2>2, <3>4, <3>8
    <3> QED
      BY <3>9
  <2> QED
    BY <2>3, <2>4
<1> QED
  BY <1>1, <1>2, <1>3

LEMMA ChangedFieldsType ==
    ASSUME NEW a \in Snapshots, NEW b \in Snapshots
    PROVE  ChangedFields(a, b) \subseteq Changes
<1>1. ASSUME NEW t \in DOMAIN b
      PROVE  PlayerChange(a, b, t) \subseteq Changes
  <2>1. Owner[t] \in Characters
    BY SnapshotFacts, ReplicationAssumption
  <2>2. ChangedPlayerFields(LastListed(a, Owner[t]), a[LastListed(a, Owner[t])], t, b[t])
            \subseteq Details
    BY DEF ChangedPlayerFields
  <2>3. CASE SessionsOf(a, Owner[t]) = {}
    BY <2>1, <2>3 DEF PlayerChange, Changes
  <2>4. CASE SessionsOf(a, Owner[t]) # {}
    BY <2>1, <2>2, <2>4 DEF PlayerChange, Changes
  <2> QED
    BY <2>3, <2>4
<1>2. ASSUME NEW ch \in Removed(a, b)
      PROVE  {<<ch, "removed">>} \subseteq Changes
  BY <1>2 DEF Removed, Changes
<1> QED
  BY <1>1, <1>2 DEF ChangedFields, NormalizeChangedFields

-----------------------------------------------------------------------------
(* The invariant of the shard: the retained frames are those of the last    *)
(* versions, in order, and together they tell each of these apart from the  *)
(* current state.                                                           *)

Kept == Len(replicationFrames)

ServerTyped ==
    /\ players \in Snapshots
    /\ latestSnapshot = players
    /\ stateVersion \in Nat /\ stateVersion <= MaxVersion
    /\ replicationFrames \in Seq(Frames)
    /\ result \in Frames
    /\ history \in Seq(Snapshots) /\ Len(history) = stateVersion + 1

FramesInOrder ==
    /\ Kept <= DeltaRetention /\ Kept <= stateVersion
    /\ stateVersion > 0 => Kept > 0
    /\ \A i \in 1 .. Kept : /\ replicationFrames[i].version = stateVersion - Kept + i
                            /\ replicationFrames[i].changed # {}

FramesCover ==
    \A u \in 0 .. stateVersion :
        u >= stateVersion - Kept => Covers(ChangedSince(u), history[u + 1], players)

ServerSound ==
    /\ ServerTyped
    /\ Lone(players)
    /\ Same(players, history[stateVersion + 1])
    /\ FramesInOrder
    /\ FramesCover

LEMMA FrameTypes ==
    /\ \A v \in Nat, s \in Snapshots, C \in SUBSET Changes : SnapshotFrame(v, s, C) \in Frames
    /\ \A u, v \in Nat, s \in Snapshots, C \in SUBSET Changes : DeltaFrame(u, v, s, C) \in Frames
    /\ \A v \in Nat : NoopFrame(v) \in Frames
    /\ \A v \in Nat, s \in Snapshots : ResyncFrame(v, s) \in Frames
<1>1. <<>> \in Snapshots
  <2>1. <<>> \in [{} -> Player]
    OBVIOUS
  <2> QED
    BY <2>1, IsSnapshot
<1>2. \A v \in Nat, s \in Snapshots, C \in SUBSET Changes : SnapshotFrame(v, s, C) \in Frames
  BY DEF SnapshotFrame, Frames
<1>3. \A u, v \in Nat, s \in Snapshots, C \in SUBSET Changes : DeltaFrame(u, v, s, C) \in Frames
  BY DEF DeltaFrame, Frames
<1>4. \A v \in Nat : NoopFrame(v) \in Frames
  BY <1>1 DEF NoopFrame, Frames
<1>5. \A v \in Nat, s \in Snapshots : ResyncFrame(v, s) \in Frames
  BY DEF ResyncFrame, SnapshotFrame, Frames
<1> QED
  BY <1>2, <1>3, <1>4, <1>5

\* A version the frames still reach, and what they say of it.
LEMMA FrameSinceCases ==
    ASSUME ServerTyped, FramesInOrder, NEW u \in Nat, u <= stateVersion
    PROVE  /\ u = stateVersion => FrameSince(u) = NoopFrame(stateVersion)
           /\ u < stateVersion /\ u < stateVersion - Kept =>
                  FrameSince(u) = ResyncFrame(stateVersion, latestSnapshot)
           /\ u < stateVersion /\ u >= stateVersion - Kept =>
                  FrameSince(u) = DeltaFrame(u, stateVersion, latestSnapshot, ChangedSince(u))
<1>1. u # Empty
  BY ReplicationAssumption
<1>2. stateVersion \in Nat /\ Kept \in Nat
  BY LenProperties DEF ServerTyped, Kept
<1>3. ASSUME u = stateVersion
      PROVE  FrameSince(u) = NoopFrame(stateVersion)
  BY <1>1, <1>2, <1>3 DEF FrameSince
<1>4. ASSUME u < stateVersion
      PROVE  TooOld(u) <=> u < stateVersion - Kept
  <2>1. Kept > 0 /\ replicationFrames # <<>>
    BY <1>2, <1>4, EmptySeq DEF FramesInOrder, ServerTyped, Kept
  <2>2. OldestRetained = stateVersion - Kept + 1
    BY <1>2, <2>1 DEF FramesInOrder, OldestRetained
  <2> QED
    BY <1>2, <2>1, <2>2 DEF TooOld
<1>5. ASSUME u < stateVersion, u < stateVersion - Kept
      PROVE  FrameSince(u) = ResyncFrame(stateVersion, latestSnapshot)
  <2>1. TooOld(u) /\ ~ (u > stateVersion) /\ u # stateVersion
    BY <1>2, <1>4, <1>5
  <2> QED
    BY <1>1, <1>5, <2>1 DEF FrameSince
<1>6. ASSUME u < stateVersion, u >= stateVersion - Kept
      PROVE  FrameSince(u) = DeltaFrame(u, stateVersion, latestSnapshot, ChangedSince(u))
  <2>1. ~TooOld(u) /\ ~ (u > stateVersion) /\ u # stateVersion
    BY <1>2, <1>4, <1>6
  <2>2. Kept \in Newer(u)
    <3>1. Kept \in 1 .. Kept
      BY <1>2, <1>6
    <3>2. replicationFrames[Kept].version = stateVersion
      BY <1>2, <3>1 DEF FramesInOrder
    <3> QED
      BY <1>6, <3>1, <3>2 DEF Newer, Kept
  <2>3. replicationFrames[Kept].changed # {} /\ replicationFrames[Kept].changed \subseteq ChangedSince(u)
    <3>1. Kept \in 1 .. Kept
      BY <1>2, <1>6
    <3>2. replicationFrames[Kept].changed # {}
      BY <3>1 DEF FramesInOrder
    <3> QED
      BY <2>2, <3>2 DEF ChangedSince, NormalizeChangedFields
  <2>4. ChangedSince(u) # {}
    BY <2>3
  <2> QED
    BY <1>1, <2>1, <2>4 DEF FrameSince
<1> QED
  BY <1>3, <1>5, <1>6

LEMMA InitSound == Init => ServerSound
<1> SUFFICES ASSUME Init
             PROVE  ServerSound
  OBVIOUS
<1> USE DEF Init
<1>1. <<>> \in Snapshots /\ DOMAIN players = {}
  <2>1. <<>> \in [{} -> Player]
    OBVIOUS
  <2> QED
    BY <2>1, IsSnapshot
<1>2. ServerTyped
  <2>1. <<>> \in Seq(Frames) /\ <<<<>>>> \in Seq(Snapshots) /\ Len(<<<<>>>>) = 1
    BY <1>1
  <2> QED
    BY <1>1, <2>1, FrameTypes, ReplicationAssumption DEF ServerTyped
<1>3. Lone(players)
  BY <1>1 DEF Lone
<1>4. Same(players, history[stateVersion + 1])
  BY DEF Same
<1>5. Kept = 0
  BY DEF Kept
<1>6. FramesInOrder
  BY <1>5, ReplicationAssumption DEF FramesInOrder
<1>7. FramesCover
  <2> SUFFICES ASSUME NEW u \in 0 .. stateVersion
               PROVE  Covers(ChangedSince(u), history[u + 1], players)
    BY DEF FramesCover
  <2>1. history[u + 1] = players
    OBVIOUS
  <2>2. Same(history[u + 1], players)
    BY <2>1 DEF Same
  <2> QED
    BY <2>2, NothingToCover
<1> QED
  BY <1>2, <1>3, <1>4, <1>6, <1>7 DEF ServerSound

\* Retain drops the oldest frames and keeps the order of the others.
LEMMA RetainKeeps ==
    ASSUME NEW s \in Seq(Frames), NEW f \in Frames
    PROVE  LET r == Retain(Append(s, f))
               k == Len(s) + 1 - Len(r)
           IN  /\ r \in Seq(Frames)
               /\ Len(r) > 0 /\ Len(r) <= DeltaRetention /\ Len(r) <= Len(s) + 1
               /\ \A i \in 1 .. Len(r) : r[i] = IF i + k <= Len(s) THEN s[i + k] ELSE f
               /\ \A j \in 1 .. Len(s) : j > k => j - k \in 1 .. Len(r)
<1> DEFINE all == Append(s, f)
           r == Retain(all)
           n == Len(s)
           first == n + 1 - DeltaRetention + 1
<1>1. n \in Nat /\ DeltaRetention \in Nat \ {0}
  BY LenProperties, ReplicationAssumption
<1>2. all \in Seq(Frames) /\ Len(all) = n + 1
  BY AppendProperties
<1>3. \A i \in 1 .. n + 1 : all[i] = IF i <= n THEN s[i] ELSE f
  <2>1. (\A i \in 1 .. n : all[i] = s[i]) /\ all[n + 1] = f
    BY AppendProperties
  <2> QED
    BY <1>1, <2>1
<1>4. CASE n + 1 > DeltaRetention
  <2>1. r = SubSeq(all, first, n + 1)
    <3> HIDE DEF all
    <3>1. Retain(all) = SubSeq(all, Len(all) - DeltaRetention + 1, Len(all))
      BY <1>2, <1>4 DEF Retain
    <3>2. Len(all) - DeltaRetention + 1 = first /\ Len(all) = n + 1
      BY <1>1, <1>2
    <3> HIDE DEF first
    <3> QED
      BY <3>1, <3>2
  <2>2. first \in Int /\ n + 1 \in Int /\ first >= 1 /\ first <= n + 1
    BY <1>1, <1>4
  <2>3. \A i \in first .. n + 1 : all[i] \in Frames
    BY <1>1, <1>2, <2>2, ElementOfSeq
  <2> HIDE DEF all, first
  <2>4. /\ SubSeq(all, first, n + 1) \in Seq(Frames)
        /\ Len(SubSeq(all, first, n + 1)) = n + 1 - first + 1
        /\ \A i \in 1 .. n + 1 - first + 1 : SubSeq(all, first, n + 1)[i] = all[first + i - 1]
    BY <2>2, <2>3, SubSeqProperties
  <2>5. Len(r) = DeltaRetention
    BY <1>1, <2>1, <2>4 DEF first
  <2>6. ASSUME NEW i \in 1 .. Len(r)
        PROVE  r[i] = IF i + (n + 1 - Len(r)) <= n THEN s[i + (n + 1 - Len(r))] ELSE f
    <3>1. r[i] = all[first + i - 1]
      BY <1>1, <2>1, <2>4, <2>5 DEF first
    <3>2. first + i - 1 = i + (n + 1 - Len(r)) /\ first + i - 1 \in 1 .. n + 1
      BY <1>1, <1>4, <2>5 DEF first
    <3> QED
      BY <1>3, <3>1, <3>2
  <2> HIDE DEF r
  <2>7. \A j \in 1 .. n : j > n + 1 - Len(r) => j - (n + 1 - Len(r)) \in 1 .. Len(r)
    BY <1>1, <1>4, <2>5
  <2>8. r \in Seq(Frames)
    BY <2>1, <2>4
  <2>9. Len(r) > 0 /\ Len(r) <= DeltaRetention /\ Len(r) <= n + 1
    BY <1>1, <1>4, <2>5
  <2> QED
    BY <2>6, <2>7, <2>8, <2>9 DEF r, all
<1>5. CASE ~(n + 1 > DeltaRetention)
  <2>1. r = all
    BY <1>2, <1>5 DEF Retain
  <2> HIDE DEF r, all
  <2>2. Len(r) = n + 1
    BY <1>2, <2>1
  <2>3. \A i \in 1 .. Len(r) : r[i] = IF i + (n + 1 - Len(r)) <= n THEN s[i + (n + 1 - Len(r))] ELSE f
    BY <1>1, <1>3, <2>1, <2>2
  <2>4. \A j \in 1 .. n : j > n + 1 - Len(r) => j - (n + 1 - Len(r)) \in 1 .. Len(r)
    BY <1>1, <2>2
  <2>5. Len(r) > 0 /\ Len(r) <= DeltaRetention /\ Len(r) <= n + 1
    BY <1>1, <1>5, <2>2
  <2> QED
    BY <1>2, <2>1, <2>3, <2>4, <2>5 DEF r, all
<1> QED
  BY <1>4, <1>5

LEMMA FrameOfType ==
    ASSUME NEW kind, NEW v \in Nat, v > 0, NEW s \in Snapshots, NEW C \in SUBSET Changes
    PROVE  /\ FrameOf(kind, v, s, C) \in Frames
           /\ FrameOf(kind, v, s, C).version = v
           /\ FrameOf(kind, v, s, C).changed = C
<1>1. v - 1 \in Nat
  OBVIOUS
<1>2. FrameOf(kind, v, s, C) \in Frames
  BY <1>1, FrameTypes DEF FrameOf
<1>3. /\ FrameOf(kind, v, s, C).version = v
      /\ FrameOf(kind, v, s, C).changed = C
  BY DEF FrameOf, SnapshotFrame, DeltaFrame
<1> QED
  BY <1>2, <1>3

\* A successful command, whatever it leaves the players as.
LEMMA CommitKeeps ==
    ASSUME ServerSound, NEW kind, NEW now \in Snapshots, Lone(now), Commit(kind, now)
    PROVE  /\ ServerSound'
           /\ stateVersion' >= stateVersion
           /\ \A u \in 0 .. stateVersion : history'[u + 1] = history[u + 1]
<1> DEFINE changed == ChangedFields(players, now)
           frame   == FrameOf(kind, stateVersion + 1, now, changed)
<1>1. /\ players \in Snapshots /\ Lone(players) /\ latestSnapshot = players
      /\ stateVersion \in Nat
      /\ replicationFrames \in Seq(Frames)
      /\ history \in Seq(Snapshots) /\ Len(history) = stateVersion + 1
      /\ Same(players, history[stateVersion + 1])
  BY DEF ServerSound, ServerTyped
<1>2. Covers(changed, players, now) /\ changed \subseteq Changes
  BY <1>1, StepCovers, ChangedFieldsType
<1>3. players' = now /\ latestSnapshot' = now /\ Lone(players')
  BY DEF Commit, Lone
<1>4. Kept \in Nat
  BY <1>1, LenProperties DEF Kept
<1> HIDE DEF changed, frame
<1>5. CASE changed = {}
  <2>1. /\ result' = NoopFrame(stateVersion)
        /\ UNCHANGED <<stateVersion, replicationFrames, history>>
    BY <1>5 DEF Commit, changed
  <2>2. Same(players, now)
    BY <1>2, <1>5, CoveredByNothing
  <2>3. ServerTyped'
    BY <1>1, <1>3, <2>1, FrameTypes DEF ServerSound, ServerTyped
  <2>4. Same(players, history[stateVersion + 1])'
    <3>1. Same(now, history[stateVersion + 1])
      BY <1>1, <2>2 DEF Same
    <3> QED
      BY <1>3, <2>1, <3>1 DEF Same
  <2>5. FramesInOrder'
    BY <2>1 DEF ServerSound, FramesInOrder, Kept
  <2>6. FramesCover'
    <3> SUFFICES ASSUME NEW u \in 0 .. stateVersion, u >= stateVersion - Kept
                 PROVE  Covers(ChangedSince(u), history[u + 1], now)
      BY <1>3, <2>1 DEF FramesCover, Kept, ChangedSince, Newer, Covers
    <3>1. Covers(ChangedSince(u), history[u + 1], players)
      BY DEF ServerSound, FramesCover
    <3> QED
      BY <2>2, <3>1, CoversTo
  <2> QED
    BY <1>1, <1>3, <2>1, <2>3, <2>4, <2>5, <2>6 DEF ServerSound
<1>6. CASE changed # {}
  <2>1. /\ stateVersion + 1 <= MaxVersion
        /\ stateVersion' = stateVersion + 1
        /\ replicationFrames' = Retain(Append(replicationFrames, frame))
        /\ result' = frame
        /\ history' = Append(history, now)
    BY <1>6 DEF Commit, changed, frame
  <2>2. frame \in Frames /\ frame.version = stateVersion + 1 /\ frame.changed = changed
    BY <1>1, <1>2, FrameOfType DEF frame
  <2>3. /\ history' \in Seq(Snapshots) /\ Len(history') = stateVersion' + 1
        /\ history'[stateVersion' + 1] = now
        /\ \A u \in 0 .. stateVersion : history'[u + 1] = history[u + 1]
    <3>1. /\ history' \in Seq(Snapshots) /\ Len(history') = Len(history) + 1
          /\ \A i \in 1 .. Len(history) : history'[i] = history[i]
          /\ history'[Len(history) + 1] = now
      BY <1>1, <2>1, AppendProperties
    <3>2. \A u \in 0 .. stateVersion : u + 1 \in 1 .. Len(history)
      BY <1>1
    <3> QED
      BY <1>1, <2>1, <3>1, <3>2
  <2> DEFINE shift == Kept + 1 - Kept'
  <2>4. /\ replicationFrames' \in Seq(Frames)
        /\ Kept' > 0 /\ Kept' <= DeltaRetention /\ Kept' <= Kept + 1
        /\ \A i \in 1 .. Kept' : replicationFrames'[i] =
                IF i + shift <= Kept THEN replicationFrames[i + shift] ELSE frame
        /\ \A j \in 1 .. Kept : j > shift => j - shift \in 1 .. Kept'
    BY <1>1, <2>1, <2>2, RetainKeeps DEF Kept
  <2>5. Kept' \in Nat /\ Kept' = Len(replicationFrames')
    BY <2>4, LenProperties DEF Kept
  <2>6. ServerTyped'
    <3>1. stateVersion' \in Nat /\ stateVersion' <= MaxVersion
      BY <1>1, <2>1
    <3> QED
      BY <1>3, <2>1, <2>2, <2>3, <2>4, <3>1 DEF ServerTyped
  <2>7. Same(players, history[stateVersion + 1])'
    <3>1. players' = history'[stateVersion' + 1]
      BY <1>3, <2>3
    <3> QED
      BY <3>1 DEF Same
  <2>8. \A i \in 1 .. Kept' : /\ replicationFrames'[i].version = stateVersion' - Kept' + i
                              /\ replicationFrames'[i].changed # {}
    <3> SUFFICES ASSUME NEW i \in 1 .. Kept'
                 PROVE  /\ replicationFrames'[i].version = stateVersion' - Kept' + i
                        /\ replicationFrames'[i].changed # {}
      OBVIOUS
    <3>1. CASE i + shift <= Kept
      <4>1. i + shift \in 1 .. Kept
        BY <1>4, <2>4, <2>5, <3>1
      <4>2. /\ replicationFrames[i + shift].version = stateVersion - Kept + (i + shift)
            /\ replicationFrames[i + shift].changed # {}
        BY <4>1 DEF ServerSound, FramesInOrder
      <4>3. stateVersion - Kept + (i + shift) = stateVersion' - Kept' + i
        BY <1>1, <1>4, <2>1, <2>5
      <4> HIDE DEF shift
      <4> QED
        BY <2>4, <3>1, <4>2, <4>3
    <3>2. CASE ~(i + shift <= Kept)
      <4>1. i = Kept'
        BY <1>4, <2>5, <3>2
      <4>2. replicationFrames'[i] = frame
        BY <2>4, <3>2
      <4>3. stateVersion' - Kept' + i = stateVersion + 1
        BY <1>1, <2>1, <2>5, <4>1
      <4> QED
        BY <1>6, <2>2, <4>2, <4>3
    <3> QED
      BY <3>1, <3>2
  <2>9. FramesInOrder'
    <3>1. Kept' <= stateVersion'
      BY <1>1, <1>4, <2>1, <2>4, <2>5 DEF ServerSound, FramesInOrder
    <3> QED
      BY <2>4, <2>8, <3>1 DEF FramesInOrder
  <2>10. ASSUME NEW u \in 0 .. stateVersion, u >= stateVersion' - Kept'
         PROVE  ChangedSince(u) \cup changed \subseteq ChangedSince(u)'
    <3>1. changed \subseteq ChangedSince(u)'
      <4>1. Kept' \in 1 .. Kept' /\ Kept' + shift > Kept
        BY <1>4, <2>4, <2>5
      <4>2. replicationFrames'[Kept'] = frame
        BY <1>4, <2>4, <2>5, <4>1
      <4>3. frame.version > u
        BY <1>1, <2>2
      <4>4. Kept' \in Newer(u)'
        BY <2>5, <4>1, <4>2, <4>3 DEF Newer
      <4> QED
        BY <2>2, <4>2, <4>4 DEF ChangedSince, NormalizeChangedFields
    <3>2. ASSUME NEW j \in Newer(u)
          PROVE  replicationFrames[j].changed \subseteq ChangedSince(u)'
      <4>1. j \in 1 .. Kept /\ replicationFrames[j].version > u
        BY DEF Newer, Kept
      <4>2. replicationFrames[j].version = stateVersion - Kept + j
        BY <4>1 DEF ServerSound, FramesInOrder
      <4>3. j > shift
        BY <1>1, <1>4, <2>1, <2>5, <2>10, <4>1, <4>2
      <4>4. j - shift \in 1 .. Kept' /\ (j - shift) + shift = j
        BY <1>4, <2>4, <2>5, <4>1, <4>3
      <4> HIDE DEF shift
      <4>5. replicationFrames'[j - shift] = replicationFrames[j]
        <5>1. (j - shift) + shift <= Kept
          BY <1>4, <4>1, <4>4
        <5> QED
          BY <2>4, <4>4, <5>1
      <4>6. j - shift \in Newer(u)'
        BY <2>5, <4>1, <4>4, <4>5 DEF Newer
      <4> QED
        BY <4>5, <4>6 DEF ChangedSince, NormalizeChangedFields
    <3>3. ChangedSince(u) \subseteq ChangedSince(u)'
      BY <3>2 DEF ChangedSince, NormalizeChangedFields
    <3> QED
      BY <3>1, <3>3
  <2>11. FramesCover'
    <3> SUFFICES ASSUME NEW u \in 0 .. stateVersion', u >= stateVersion' - Kept'
                 PROVE  Covers(ChangedSince(u)', history'[u + 1], now)
      BY <1>3 DEF FramesCover, Covers, ChangedSince, Newer
    <3>1. CASE u \in 0 .. stateVersion
      <4>1. u >= stateVersion - Kept
        BY <1>1, <1>4, <2>1, <2>4, <2>5, <3>1
      <4>2. Covers(ChangedSince(u), history[u + 1], players)
        BY <3>1, <4>1 DEF ServerSound, FramesCover
      <4>3. Covers(ChangedSince(u) \cup changed, history[u + 1], now)
        BY <1>2, <4>2, CoversChain
      <4>4. history'[u + 1] = history[u + 1]
        BY <2>3, <3>1
      <4>5. ChangedSince(u) \cup changed \subseteq ChangedSince(u)'
        BY <2>10, <3>1
      <4> QED
        BY <4>3, <4>4, <4>5, CoversMore
    <3>2. CASE u \notin 0 .. stateVersion
      <4>1. u = stateVersion'
        BY <1>1, <2>1, <3>2
      <4>2. Same(history'[u + 1], now)
        BY <2>3, <4>1 DEF Same
      <4> QED
        BY <4>2, NothingToCover
    <3> QED
      BY <3>1, <3>2
  <2>12. stateVersion' >= stateVersion
    BY <1>1, <2>1
  <2> QED
    BY <1>3, <2>3, <2>6, <2>7, <2>9, <2>11, <2>12 DEF ServerSound
<1> QED
  BY <1>5, <1>6

LEMMA WithSnapshot ==
    ASSUME players \in Snapshots, Lone(players), NEW t \in Sessions, NEW p \in Player,
           SessionsOf(players, Owner[t]) \subseteq {t}
    PROVE  With(t, p) \in Snapshots /\ Lone(With(t, p))
<1>1. DOMAIN players \subseteq Sessions /\ \A u \in DOMAIN players : players[u] \in Player
  BY SnapshotFacts
<1>2. With(t, p) \in [DOMAIN players \cup {t} -> Player]
  BY <1>1 DEF With
<1>3. With(t, p) \in Snapshots
  <2>1. DOMAIN players \cup {t} \in SUBSET Sessions
    BY <1>1
  <2> QED
    BY <1>2, <2>1, IsSnapshot
<1>4. ASSUME NEW u \in DOMAIN players, Owner[u] = Owner[t]
      PROVE  u = t
  BY <1>4 DEF SessionsOf
<1>5. DOMAIN With(t, p) = DOMAIN players \cup {t}
  BY DEF With
<1>6. Lone(With(t, p))
  BY <1>4, <1>5 DEF Lone
<1> QED
  BY <1>3, <1>6

\* Every command leaves players of which no two are of one character.
LEMMA CommandCommits ==
    ASSUME ServerSound, Overlap = FALSE, NEW t \in Sessions, Command(t)
    PROVE  \E kind \in {"connect", "reconnect", "other"}, now \in Snapshots :
                Lone(now) /\ Commit(kind, now)
<1>1. players \in Snapshots /\ Lone(players)
  BY DEF ServerSound, ServerTyped
<1>2. DOMAIN players \subseteq Sessions /\ \A u \in DOMAIN players : players[u] \in Player
  BY <1>1, SnapshotFacts
<1>3. ASSUME NEW p \in Places, Connect(t, p)
      PROVE  \E kind \in {"connect", "reconnect", "other"}, now \in Snapshots :
                  Lone(now) /\ Commit(kind, now)
  <2>1. [place |-> p, connected |-> TRUE] \in Player
    BY DEF Player
  <2>2. /\ SessionsOf(players, Owner[t]) \subseteq {t}
        /\ Commit("connect", With(t, [place |-> p, connected |-> TRUE]))
    BY <1>3 DEF Connect, Admits
  <2> QED
    BY <1>1, <2>1, <2>2, WithSnapshot
<1>4. ASSUME NEW p \in Places, Reconnect(t, p)
      PROVE  \E kind \in {"connect", "reconnect", "other"}, now \in Snapshots :
                  Lone(now) /\ Commit(kind, now)
  <2> DEFINE q == IF t \in DOMAIN players /\ p = Origin THEN players[t].place ELSE p
  <2>1. [place |-> q, connected |-> TRUE] \in Player
    BY <1>2 DEF Player
  <2>2. /\ SessionsOf(players, Owner[t]) \subseteq {t}
        /\ Commit("reconnect", With(t, [place |-> q, connected |-> TRUE]))
    BY <1>4 DEF Reconnect, Admits
  <2> QED
    BY <1>1, <2>1, <2>2, WithSnapshot
<1>5. ASSUME NEW r \in Player, t \in DOMAIN players, Commit("other", With(t, r))
      PROVE  \E kind \in {"connect", "reconnect", "other"}, now \in Snapshots :
                  Lone(now) /\ Commit(kind, now)
  <2>1. SessionsOf(players, Owner[t]) \subseteq {t}
    BY <1>1, <1>5 DEF Lone, SessionsOf
  <2> QED
    BY <1>1, <1>5, <2>1, WithSnapshot
<1>6. CASE Disconnect(t)
  <2>1. t \in DOMAIN players /\ [players[t] EXCEPT !.connected = FALSE] \in Player
    BY <1>2, <1>6 DEF Disconnect, Player
  <2>2. Commit("other", With(t, [players[t] EXCEPT !.connected = FALSE]))
    BY <1>6 DEF Disconnect
  <2> QED
    BY <1>5, <2>1, <2>2
<1>7. ASSUME NEW p \in Places, Move(t, p)
      PROVE  \E kind \in {"connect", "reconnect", "other"}, now \in Snapshots :
                  Lone(now) /\ Commit(kind, now)
  <2>1. t \in DOMAIN players /\ [players[t] EXCEPT !.place = p] \in Player
    BY <1>2, <1>7 DEF Move, Player
  <2>2. Commit("other", With(t, [players[t] EXCEPT !.place = p]))
    BY <1>7 DEF Move
  <2> QED
    BY <1>5, <2>1, <2>2
<1>8. CASE Leave(t)
  <2> DEFINE now == [u \in DOMAIN players \ {t} |-> players[u]]
  <2>1. now \in [DOMAIN players \ {t} -> Player]
    BY <1>2
  <2>2. now \in Snapshots
    <3>1. DOMAIN players \ {t} \in SUBSET Sessions
      BY <1>2
    <3> QED
      BY <2>1, <3>1, IsSnapshot
  <2>3. Lone(now)
    BY <1>1 DEF Lone
  <2>4. Commit("other", now)
    BY <1>8 DEF Leave
  <2> QED
    BY <2>2, <2>3, <2>4
<1>9. CASE RequestSnapshot
  BY <1>1, <1>9 DEF RequestSnapshot
<1> QED
  BY <1>3, <1>4, <1>6, <1>7, <1>8, <1>9 DEF Command

LEMMA CommandKeeps ==
    ASSUME ServerSound, Overlap = FALSE, NEW t \in Sessions, Command(t)
    PROVE  /\ ServerSound'
           /\ stateVersion' >= stateVersion
           /\ \A u \in 0 .. stateVersion : history'[u + 1] = history[u + 1]
<1>1. PICK kind \in {"connect", "reconnect", "other"}, now \in Snapshots :
                Lone(now) /\ Commit(kind, now)
  BY CommandCommits
<1> QED
  BY <1>1, CommitKeeps

LEMMA ServerStutter ==
    ASSUME ServerSound, UNCHANGED server
    PROVE  ServerSound'
<1> USE DEF server
<1>1. ServerTyped' /\ FramesInOrder'
  BY DEF ServerSound, ServerTyped, FramesInOrder, Kept
<1>2. Lone(players)' /\ Same(players, history[stateVersion + 1])'
  BY DEF ServerSound, Lone, Same
<1>3. FramesCover'
  BY DEF ServerSound, FramesCover, Covers, Kept, ChangedSince, Newer
<1> QED
  BY <1>1, <1>2, <1>3 DEF ServerSound

LEMMA SoundFramesCover == ServerSound => FrameSinceCovers
<1> SUFFICES ASSUME ServerSound, NEW u \in 0 .. stateVersion
             PROVE  \/ FrameSince(u).resync
                    \/ Covers(FrameSince(u).changed, history[u + 1], latestSnapshot)
  BY DEF FrameSinceCovers
<1>1. ServerTyped /\ FramesInOrder /\ latestSnapshot = players /\ stateVersion \in Nat
  BY DEF ServerSound, ServerTyped
<1>2. u \in Nat /\ u <= stateVersion /\ Kept \in Nat
  BY <1>1, LenProperties DEF ServerTyped, Kept
<1>3. CASE u = stateVersion
  <2>1. Same(history[u + 1], latestSnapshot)
    BY <1>1, <1>3 DEF ServerSound, Same
  <2> QED
    BY <2>1, NothingToCover
<1>4. CASE u < stateVersion /\ u < stateVersion - Kept
  <2>1. FrameSince(u) = ResyncFrame(stateVersion, latestSnapshot)
    BY <1>1, <1>2, <1>4, FrameSinceCases
  <2> QED
    BY <2>1 DEF ResyncFrame, SnapshotFrame
<1>5. CASE u < stateVersion /\ u >= stateVersion - Kept
  <2>1. FrameSince(u) = DeltaFrame(u, stateVersion, latestSnapshot, ChangedSince(u))
    BY <1>1, <1>2, <1>5, FrameSinceCases
  <2>2. Covers(ChangedSince(u), history[u + 1], latestSnapshot)
    BY <1>1, <1>5 DEF ServerSound, FramesCover
  <2> QED
    BY <2>1, <2>2 DEF DeltaFrame
<1> QED
  BY <1>1, <1>2, <1>3, <1>4, <1>5

-----------------------------------------------------------------------------
(* The invariant of the clients: a reply on its way still says the truth    *)
(* about the versions it speaks of, whatever the server has done since.     *)

Explains(f) ==
    /\ f.version <= stateVersion
    /\ f.kind = "snapshot" => Same(f.state, history[f.version + 1])
    /\ f.kind = "delta" =>
         /\ f.from <= f.version
         /\ Same(f.state, history[f.version + 1])
         /\ \A u \in f.from .. f.version : Covers(f.changed, history[u + 1], history[f.version + 1])

\* A client without a cursor waits for snapshots only, and a no-op tells
\* nothing the client has not reached.
Meets(c, f) ==
    /\ cursor[c] = Empty => f.kind = "snapshot" /\ ~f.resync
    /\ f.kind = "noop" => f.version <= cursor[c]

ClientsSound ==
    /\ cursor \in [Clients -> Nat \cup {Empty}]
    /\ copy = [c \in Clients |-> copy[c]]
    /\ replies \in [Clients -> SUBSET Frames]
    /\ \A c \in Clients : cursor[c] # Empty =>
          cursor[c] <= stateVersion /\ copy[c] = Project(history[cursor[c] + 1])
    /\ \A c \in Clients : \A f \in replies[c] : Explains(f) /\ Meets(c, f)

PollingSound == ServerSound /\ ClientsSound

LEMMA FrameFacts ==
    ASSUME NEW f \in Frames
    PROVE  /\ f.version \in Nat /\ f.from \in Nat
           /\ f.kind \in {"snapshot", "delta", "noop"} /\ f.resync \in BOOLEAN
BY DEF Frames

LEMMA SameProjects ==
    ASSUME NEW a, NEW b, Same(a, b)
    PROVE  Project(a) = Project(b)
BY DEF Same, Project

\* What the server answers a cursor it gave out.
LEMMA AnswersExplain ==
    ASSUME ServerSound, NEW u \in Nat \cup {Empty}, u # Empty => u <= stateVersion
    PROVE  /\ FrameSince(u) \in Frames
           /\ Explains(FrameSince(u))
           /\ u = Empty => FrameSince(u).kind = "snapshot" /\ ~FrameSince(u).resync
           /\ FrameSince(u).kind = "noop" => FrameSince(u).version <= u
<1>1. /\ ServerTyped /\ FramesInOrder /\ latestSnapshot = players /\ stateVersion \in Nat
      /\ latestSnapshot \in Snapshots
      /\ Same(latestSnapshot, history[stateVersion + 1])
      /\ stateVersion <= stateVersion
  BY DEF ServerSound, ServerTyped
<1>2. Kept \in Nat
  BY <1>1, LenProperties DEF ServerTyped, Kept
<1>3. CASE u = Empty
  <2>1. FrameSince(u) = SnapshotFrame(stateVersion, latestSnapshot, {})
    BY <1>3 DEF FrameSince
  <2>2. Explains(SnapshotFrame(stateVersion, latestSnapshot, {}))
    BY <1>1 DEF Explains, SnapshotFrame
  <2> QED
    BY <1>1, <2>1, <2>2, FrameTypes DEF SnapshotFrame
<1>4. CASE u \in Nat /\ u = stateVersion
  <2>1. FrameSince(u) = NoopFrame(stateVersion) /\ u # Empty
    BY <1>1, <1>4, FrameSinceCases, ReplicationAssumption
  <2>2. Explains(NoopFrame(stateVersion))
    BY <1>1 DEF Explains, NoopFrame
  <2> QED
    BY <1>1, <1>4, <2>1, <2>2, FrameTypes DEF NoopFrame
<1>5. CASE u \in Nat /\ u < stateVersion /\ u < stateVersion - Kept
  <2>1. FrameSince(u) = ResyncFrame(stateVersion, latestSnapshot) /\ u # Empty
    BY <1>1, <1>5, FrameSinceCases, ReplicationAssumption
  <2>2. Explains(ResyncFrame(stateVersion, latestSnapshot))
    BY <1>1 DEF Explains, ResyncFrame, SnapshotFrame
  <2> QED
    BY <1>1, <2>1, <2>2, FrameTypes DEF ResyncFrame, SnapshotFrame
<1>6. CASE u \in Nat /\ u < stateVersion /\ u >= stateVersion - Kept
  <2> DEFINE f == DeltaFrame(u, stateVersion, latestSnapshot, ChangedSince(u))
  <2>1. FrameSince(u) = f /\ u # Empty
    BY <1>1, <1>6, FrameSinceCases, ReplicationAssumption
  <2>2. ChangedSince(u) \in SUBSET Changes
    <3>1. \A i \in Newer(u) : replicationFrames[i].changed \subseteq Changes
      <4> SUFFICES ASSUME NEW i \in Newer(u)
                   PROVE  replicationFrames[i].changed \subseteq Changes
        OBVIOUS
      <4>1. replicationFrames[i] \in Frames
        BY <1>1, ElementOfSeq DEF ServerTyped, Newer
      <4> QED
        BY <4>1 DEF Frames
    <3> QED
      BY <3>1 DEF ChangedSince, NormalizeChangedFields
  <2>3. ASSUME NEW w \in u .. stateVersion
        PROVE  Covers(ChangedSince(u), history[w + 1], history[stateVersion + 1])
    <3>1. w \in 0 .. stateVersion /\ w >= stateVersion - Kept
      BY <1>1, <1>2, <1>6
    <3>2. Covers(ChangedSince(w), history[w + 1], players)
      BY <3>1 DEF ServerSound, FramesCover
    <3>3. Newer(w) \subseteq Newer(u)
      <4> SUFFICES ASSUME NEW i \in 1 .. Kept, replicationFrames[i].version > w
                   PROVE  replicationFrames[i].version > u
        BY DEF Newer, Kept
      <4>1. replicationFrames[i] \in Frames
        BY <1>1, ElementOfSeq DEF ServerTyped, Kept
      <4>2. replicationFrames[i].version \in Nat
        BY <4>1, FrameFacts
      <4> QED
        BY <1>6, <4>2
    <3>4. ChangedSince(w) \subseteq ChangedSince(u)
      BY <3>3 DEF ChangedSince, NormalizeChangedFields
    <3>5. Covers(ChangedSince(u), history[w + 1], players)
      BY <3>2, <3>4, CoversMore
    <3> QED
      BY <1>1, <3>5, CoversTo
  <2>4. Explains(f)
    BY <1>1, <1>6, <2>3 DEF Explains, DeltaFrame
  <2>5. f \in Frames /\ f.kind # "noop"
    BY <1>1, <1>6, <2>2, FrameTypes DEF DeltaFrame
  <2> QED
    BY <2>1, <2>4, <2>5
<1> QED
  BY <1>1, <1>2, <1>3, <1>4, <1>5, <1>6

\* A true reply stays true while the server goes on.
LEMMA StaysTrue ==
    ASSUME NEW f \in Frames, Explains(f), stateVersion \in Nat,
           stateVersion' \in Nat, stateVersion' >= stateVersion,
           \A u \in 0 .. stateVersion : history'[u + 1] = history[u + 1]
    PROVE  Explains(f)'
<1>1. f.version \in Nat /\ f.from \in Nat /\ f.version <= stateVersion
  BY FrameFacts DEF Explains
<1>2. f.version <= stateVersion'
  BY <1>1
<1>3. history'[f.version + 1] = history[f.version + 1]
  BY <1>1
<1>4. \A u \in f.from .. f.version : history'[u + 1] = history[u + 1]
  BY <1>1
<1>5. ASSUME f.kind = "snapshot"
      PROVE  Same(f.state, history[f.version + 1])'
  BY <1>3, <1>5 DEF Explains, Same
<1>6. ASSUME f.kind = "delta"
      PROVE  /\ f.from <= f.version
             /\ Same(f.state, history[f.version + 1])'
             /\ (\A u \in f.from .. f.version : Covers(f.changed, history[u + 1], history[f.version + 1]))'
  BY <1>3, <1>4, <1>6 DEF Explains, Same, Covers
<1> QED
  BY <1>2, <1>5, <1>6 DEF Explains

LEMMA ServerStepKeeps ==
    ASSUME PollingSound, Overlap = FALSE, ServerStep
    PROVE  PollingSound'
<1>1. PICK t \in Sessions : Command(t)
  BY DEF ServerStep
<1>2. UNCHANGED <<cursor, copy, replies>>
  BY DEF ServerStep, clients
<1>3. /\ ServerSound'
      /\ stateVersion' >= stateVersion
      /\ \A u \in 0 .. stateVersion : history'[u + 1] = history[u + 1]
  BY <1>1, CommandKeeps DEF PollingSound
<1>4. stateVersion \in Nat /\ stateVersion' \in Nat
  BY <1>3 DEF PollingSound, ServerSound, ServerTyped
<1>5. ASSUME NEW c \in Clients, NEW f \in replies[c]
      PROVE  Explains(f)' /\ Meets(c, f)'
  <2>1. f \in Frames /\ Explains(f) /\ Meets(c, f)
    BY <1>5 DEF PollingSound, ClientsSound
  <2>2. Explains(f)'
    BY <1>3, <1>4, <2>1, StaysTrue
  <2>3. Meets(c, f)'
    BY <1>2, <2>1 DEF Meets
  <2> QED
    BY <2>2, <2>3
<1>6. ASSUME NEW c \in Clients, cursor[c] # Empty
      PROVE  cursor[c] <= stateVersion' /\ copy[c] = Project(history'[cursor[c] + 1])
  <2>1. cursor[c] \in Nat /\ cursor[c] <= stateVersion /\ copy[c] = Project(history[cursor[c] + 1])
    BY <1>6 DEF PollingSound, ClientsSound
  <2>2. history'[cursor[c] + 1] = history[cursor[c] + 1]
    BY <1>3, <1>4, <2>1
  <2> QED
    BY <1>3, <1>4, <2>1, <2>2
<1>7. ClientsSound'
  BY <1>2, <1>5, <1>6 DEF PollingSound, ClientsSound, Project
<1> QED
  BY <1>3, <1>7 DEF PollingSound

LEMMA PollKeeps ==
    ASSUME PollingSound, NEW c \in Clients, Poll(c)
    PROVE  PollingSound'
<1> DEFINE answer == FrameSince(cursor[c])
<1>1. /\ replies' = [replies EXCEPT ![c] = @ \cup {answer}]
      /\ UNCHANGED server /\ cursor' = cursor /\ copy' = copy
  BY DEF Poll, Send
<1>2. ServerSound'
  BY <1>1, ServerStutter DEF PollingSound
<1>3. cursor[c] \in Nat \cup {Empty} /\ (cursor[c] # Empty => cursor[c] <= stateVersion)
  BY DEF PollingSound, ClientsSound
<1>4. answer \in Frames /\ Explains(answer) /\ Meets(c, answer)
  BY <1>3, AnswersExplain DEF PollingSound, Meets
<1> HIDE DEF answer
<1>5. replies' \in [Clients -> SUBSET Frames]
  BY <1>1, <1>4 DEF PollingSound, ClientsSound
<1>6. ASSUME NEW e \in Clients, NEW f \in replies'[e]
      PROVE  Explains(f)' /\ Meets(e, f)'
  <2>1. Explains(f) /\ Meets(e, f)
    BY <1>1, <1>4, <1>6 DEF PollingSound, ClientsSound
  <2> QED
    BY <1>1, <2>1 DEF Explains, Meets, server, Same, Covers
<1>7. history' = history /\ stateVersion' = stateVersion
  BY <1>1 DEF server
<1>8. ClientsSound'
  BY <1>1, <1>5, <1>6, <1>7 DEF PollingSound, ClientsSound, Project
<1> QED
  BY <1>2, <1>8 DEF PollingSound

LEMMA LoseKeeps ==
    ASSUME PollingSound, NEW c \in Clients, NEW g \in replies[c], Lose(c, g)
    PROVE  PollingSound'
<1>1. /\ replies' = [replies EXCEPT ![c] = @ \ {g}]
      /\ UNCHANGED server /\ cursor' = cursor /\ copy' = copy
  BY DEF Lose
<1>2. ServerSound'
  BY <1>1, ServerStutter DEF PollingSound
<1>3. replies' \in [Clients -> SUBSET Frames] /\ \A e \in Clients : replies'[e] \subseteq replies[e]
  BY <1>1 DEF PollingSound, ClientsSound
<1>4. history' = history /\ stateVersion' = stateVersion
  BY <1>1 DEF server
<1>5. ASSUME NEW e \in Clients, NEW f \in replies'[e]
      PROVE  Explains(f)' /\ Meets(e, f)'
  <2>1. Explains(f) /\ Meets(e, f)
    BY <1>3 DEF PollingSound, ClientsSound
  <2> QED
    BY <1>1, <1>4, <2>1 DEF Explains, Meets, Same, Covers
<1>6. ClientsSound'
  BY <1>1, <1>3, <1>4, <1>5 DEF PollingSound, ClientsSound, Project
<1> QED
  BY <1>2, <1>6 DEF PollingSound

\* What AcceptFrame lets in brings the copy to the version of the frame.
LEMMA UpdatedIsTheVersion ==
    ASSUME PollingSound, NEW c \in Clients, NEW f \in replies[c], Converged(cursor[c], f)
    PROVE  Updated(copy[c], f) = Project(history[f.version + 1])
<1>1. f \in Frames /\ Explains(f) /\ Meets(c, f) /\ cursor[c] \in Nat \cup {Empty}
  BY DEF PollingSound, ClientsSound
<1>2. /\ f.version \in Nat /\ f.from \in Nat
      /\ f.kind \in {"snapshot", "delta", "noop"}
  BY <1>1, FrameFacts
<1>3. CASE f.kind = "snapshot"
  <2>1. Updated(copy[c], f) = Project(f.state)
    BY <1>3 DEF Updated
  <2>2. Same(f.state, history[f.version + 1])
    BY <1>1, <1>3 DEF Explains
  <2> QED
    BY <2>1, <2>2, SameProjects
<1>4. CASE f.kind # "snapshot"
  <2>1. /\ cursor[c] # Empty /\ cursor[c] \in Nat
        /\ copy[c] = Project(history[cursor[c] + 1])
    BY <1>1, <1>4 DEF PollingSound, ClientsSound, Meets
  <2>2. cursor[c] <= f.version
    BY <1>2, <2>1 DEF Converged, Stale, VersionOf
  <2>3. CASE f.kind = "noop"
    <3>1. f.version = cursor[c]
      BY <1>1, <1>2, <2>1, <2>2, <2>3 DEF Meets
    <3>2. Updated(copy[c], f) = copy[c]
      BY <2>3 DEF Updated
    <3> QED
      BY <2>1, <3>1, <3>2
  <2>4. CASE f.kind = "delta"
    <3>1. f.from <= cursor[c]
      BY <1>2, <2>1, <2>4 DEF Converged, Future, VersionOf
    <3>2. Same(f.state, history[f.version + 1])
      BY <1>1, <2>4 DEF Explains
    <3>3. Covers(f.changed, history[cursor[c] + 1], history[f.version + 1])
      <4>1. cursor[c] \in f.from .. f.version
        BY <1>2, <2>1, <2>2, <3>1
      <4> QED
        BY <1>1, <2>4, <4>1 DEF Explains
    <3> DEFINE taken == [ch \in Characters |-> [d \in Details |->
                            IF Named(f, ch, d) THEN Detail(f.state, ch, d) ELSE copy[c][ch][d]]]
    <3>4. Updated(copy[c], f) = taken
      BY <2>4 DEF Updated
    <3>5. ASSUME NEW ch \in Characters, NEW d \in Details
          PROVE  (IF Named(f, ch, d) THEN Detail(f.state, ch, d) ELSE copy[c][ch][d])
                     = Detail(history[f.version + 1], ch, d)
      <4>1. CASE Named(f, ch, d)
        BY <3>2, <4>1 DEF Same
      <4>2. CASE ~Named(f, ch, d)
        <5>1. Detail(history[cursor[c] + 1], ch, d) = Detail(history[f.version + 1], ch, d)
          BY <3>3, <4>2 DEF Covers, Named
        <5>2. copy[c][ch][d] = Detail(history[cursor[c] + 1], ch, d)
          BY <2>1 DEF Project
        <5> QED
          BY <4>2, <5>1, <5>2
      <4> QED
        BY <4>1, <4>2
    <3>6. taken = Project(history[f.version + 1])
      BY <3>5 DEF Project
    <3> QED
      BY <3>4, <3>6
  <2> QED
    BY <1>2, <1>4, <2>3, <2>4
<1> QED
  BY <1>3, <1>4

LEMMA ReceiveKeeps ==
    ASSUME PollingSound, NEW c \in Clients, NEW g \in replies[c], Receive(c, g)
    PROVE  PollingSound'
<1> DEFINE reached == IF g.resync THEN Empty ELSE AcceptFrame(cursor[c], g)
           taken   == IF Converged(cursor[c], g) THEN Updated(copy[c], g) ELSE copy[c]
           left    == IF g.resync THEN {} ELSE replies[c] \ {g}
<1>1. /\ cursor' = [cursor EXCEPT ![c] = reached]
      /\ copy' = [copy EXCEPT ![c] = taken]
      /\ replies' = [replies EXCEPT ![c] = left]
      /\ UNCHANGED server
  BY DEF Receive
<1>2. ServerSound'
  BY <1>1, ServerStutter DEF PollingSound
<1>3. history' = history /\ stateVersion' = stateVersion
  BY <1>1 DEF server
<1>4. /\ g \in Frames /\ Explains(g) /\ Meets(c, g) /\ cursor[c] \in Nat \cup {Empty}
      /\ g.version \in Nat /\ g.version <= stateVersion
      /\ g.resync \in BOOLEAN
      /\ cursor \in [Clients -> Nat \cup {Empty}]
      /\ replies \in [Clients -> SUBSET Frames]
      /\ copy = [e \in Clients |-> copy[e]]
  BY FrameFacts DEF PollingSound, ClientsSound, Explains
<1>5. reached \in Nat \cup {Empty}
  BY <1>4 DEF AcceptFrame
<1>6. ASSUME reached # Empty
      PROVE  reached <= stateVersion /\ taken = Project(history[reached + 1])
  <2>1. CASE Converged(cursor[c], g)
    <3>1. reached = g.version
      BY <1>6, <2>1 DEF AcceptFrame
    <3>2. taken = Project(history[g.version + 1])
      BY <2>1, UpdatedIsTheVersion
    <3> QED
      BY <1>4, <3>1, <3>2
  <2>2. CASE ~Converged(cursor[c], g)
    <3>1. reached = cursor[c] /\ taken = copy[c]
      BY <1>6, <2>2 DEF AcceptFrame
    <3> QED
      BY <1>6, <3>1 DEF PollingSound, ClientsSound
  <2> QED
    BY <2>1, <2>2
<1>7. left \in SUBSET Frames /\ left \subseteq replies[c]
  BY <1>4
<1>8. ASSUME NEW f \in left
      PROVE  /\ reached = Empty => f.kind = "snapshot" /\ ~f.resync
             /\ f.kind = "noop" => f.version <= reached
  <2>1. ~g.resync /\ f \in replies[c] /\ f \in Frames /\ Meets(c, f) /\ f.version \in Nat
    BY <1>7, <1>8, FrameFacts DEF PollingSound, ClientsSound
  <2>2. CASE Converged(cursor[c], g)
    <3>1. reached = g.version /\ reached # Empty
      BY <1>4, <2>1, <2>2, ReplicationAssumption DEF AcceptFrame
    <3>2. ASSUME f.kind = "noop"
          PROVE  f.version <= reached
      <4>1. cursor[c] # Empty /\ cursor[c] \in Nat /\ f.version <= cursor[c]
        BY <1>4, <2>1, <3>2 DEF Meets
      <4>2. cursor[c] <= g.version
        BY <1>4, <2>2, <4>1 DEF Converged, Stale, VersionOf
      <4> QED
        BY <1>4, <2>1, <3>1, <4>1, <4>2
    <3> QED
      BY <3>1, <3>2
  <2>3. CASE ~Converged(cursor[c], g)
    <3>1. reached = cursor[c]
      BY <2>1, <2>3 DEF AcceptFrame
    <3> QED
      BY <2>1, <3>1 DEF Meets
  <2> QED
    BY <2>2, <2>3
<1> HIDE DEF reached, taken, left
<1>9. /\ cursor' \in [Clients -> Nat \cup {Empty}]
      /\ copy' = [e \in Clients |-> copy'[e]]
      /\ replies' \in [Clients -> SUBSET Frames]
  <2>1. cursor' \in [Clients -> Nat \cup {Empty}]
    BY <1>1, <1>4, <1>5
  <2>2. copy' = [e \in Clients |-> copy'[e]]
    BY <1>1, <1>4
  <2>3. replies' \in [Clients -> SUBSET Frames]
    BY <1>1, <1>4, <1>7
  <2> QED
    BY <2>1, <2>2, <2>3
<1>10. \A e \in Clients : /\ cursor'[e] = IF e = c THEN reached ELSE cursor[e]
                          /\ copy'[e] = IF e = c THEN taken ELSE copy[e]
                          /\ replies'[e] = IF e = c THEN left ELSE replies[e]
  BY <1>1, <1>4
<1>11. ASSUME NEW e \in Clients, cursor'[e] # Empty
       PROVE  cursor'[e] <= stateVersion /\ copy'[e] = Project(history[cursor'[e] + 1])
  BY <1>6, <1>10, <1>11 DEF PollingSound, ClientsSound
<1>12. ASSUME NEW e \in Clients, NEW f \in replies'[e]
       PROVE  Explains(f)' /\ Meets(e, f)'
  <2>1. Explains(f)'
    <3>1. Explains(f)
      BY <1>7, <1>10, <1>12 DEF PollingSound, ClientsSound
    <3> QED
      BY <1>3, <3>1 DEF Explains, Same, Covers
  <2>2. CASE e = c
    BY <1>8, <1>10, <1>12, <2>1, <2>2 DEF Meets
  <2>3. CASE e # c
    <3>1. Meets(e, f)
      BY <1>10, <1>12, <2>3 DEF PollingSound, ClientsSound
    <3> QED
      BY <1>10, <2>1, <2>3, <3>1 DEF Meets
  <2> QED
    BY <2>2, <2>3
<1>13. ClientsSound'
  BY <1>3, <1>9, <1>11, <1>12 DEF ClientsSound, Project
<1> QED
  BY <1>2, <1>13 DEF PollingSound

LEMMA PollingKeeps ==
    ASSUME PollingSound, Overlap = FALSE, [Polling]_vars
    PROVE  PollingSound'
<1>1. CASE UNCHANGED vars
  <2>1. UNCHANGED server /\ cursor' = cursor /\ copy' = copy /\ replies' = replies
        /\ history' = history /\ stateVersion' = stateVersion
    BY <1>1 DEF vars, clients, server
  <2>2. ServerSound'
    BY <2>1, ServerStutter DEF PollingSound
  <2>3. ASSUME NEW c \in Clients, NEW f \in replies'[c]
        PROVE  Explains(f)' /\ Meets(c, f)'
    <3>1. Explains(f) /\ Meets(c, f)
      BY <2>1, <2>3 DEF PollingSound, ClientsSound
    <3> QED
      BY <2>1, <3>1 DEF Explains, Meets, Same, Covers
  <2>4. ClientsSound'
    BY <2>1, <2>3 DEF PollingSound, ClientsSound, Project
  <2> QED
    BY <2>2, <2>4 DEF PollingSound
<1>2. CASE ServerStep
  BY <1>2, ServerStepKeeps
<1>3. ASSUME NEW c \in Clients, Poll(c)
      PROVE  PollingSound'
  BY <1>3, PollKeeps
<1>4. ASSUME NEW c \in Clients, Hear(c)
      PROVE  PollingSound'
  BY <1>4, ReceiveKeeps DEF Hear
<1>5. ASSUME NEW c \in Clients, NEW f \in replies[c], Lose(c, f)
      PROVE  PollingSound'
  BY <1>5, LoseKeeps
<1> QED
  BY <1>1, <1>2, <1>3, <1>4, <1>5 DEF Polling

LEMMA PollingInitSound == PollingInit => PollingSound
<1> SUFFICES ASSUME PollingInit
             PROVE  PollingSound
  OBVIOUS
<1>1. ServerSound
  BY InitSound DEF PollingInit
<1>2. ClientsSound
  BY DEF PollingInit, ClientsInit, ClientsSound
<1> QED
  BY <1>1, <1>2 DEF PollingSound

-----------------------------------------------------------------------------
(* The theorems *)

LEMMA PollingInvariant == ASSUME Overlap = FALSE PROVE PollingSpec => []PollingSound
<1>1. PollingInit => PollingSound
  BY PollingInitSound
<1>2. PollingSound /\ [Polling]_vars => PollingSound'
  BY PollingKeeps
<1> QED
  BY <1>1, <1>2, PTL DEF PollingSpec

\* The variables of the shard keep their shapes, and never more than
\* DeltaRetention frames are kept (recordReplicationFrameLocked).
THEOREM TypeCorrect == ASSUME Overlap = FALSE PROVE PollingSpec => []TypeOK
<1>1. PollingSound => TypeOK
  <2> SUFFICES ASSUME PollingSound
               PROVE  TypeOK
    OBVIOUS
  <2>1. ServerTyped /\ FramesInOrder
    BY DEF PollingSound, ServerSound
  <2>2. stateVersion \in 0 .. MaxVersion
    BY <2>1, ReplicationAssumption DEF ServerTyped
  <2>3. \A i \in 1 .. Len(replicationFrames) : replicationFrames[i] \in Frames
    BY <2>1, ElementOfSeq DEF ServerTyped
  <2> QED
    BY <2>1, <2>2, <2>3 DEF TypeOK, ServerTyped, FramesInOrder, Kept
<1> QED
  BY <1>1, PollingInvariant, PTL

\* From whatever version a client asks, the frame it gets reports every
\* difference to that version, or is a snapshot or asks for a resync, however
\* few frames are kept (changedFields, recordReplicationFrameLocked,
\* ReplicationFrameSince).
THEOREM FramesTellAll == ASSUME Overlap = FALSE PROVE PollingSpec => []FrameSinceCovers
<1>1. PollingSound => FrameSinceCovers
  BY SoundFramesCover DEF PollingSound
<1> QED
  BY <1>1, PollingInvariant, PTL

\* A client that lets AcceptFrame decide and takes from a delta only the
\* fields it names holds the state of its cursor's version, over lost, late
\* and overtaken replies and over resyncs.
THEOREM CopiesConverge == ASSUME Overlap = FALSE PROVE PollingSpec => []CopyIsTheVersion
<1>1. PollingSound => CopyIsTheVersion
  BY DEF PollingSound, ClientsSound, CopyIsTheVersion
<1> QED
  BY <1>1, PollingInvariant, PTL
=============================================================================
